---------------------------- MODULE PagingProofs ----------------------------
(***************************************************************************)
(* Proofs about initialize_paging and map_page for every machine and every *)
(* number of entries in a table: the tables form a tree of four levels, a  *)
(* step changes the translation of the page being mapped and of no other,  *)
(* and what the tables map is what their callers asked for.                *)
(***************************************************************************)
EXTENDS PagingProps, FiniteSetTheorems, FunctionTheorems, TLAPS

-----------------------------------------------------------------------------
(* The inductive invariant *)

\* The frames that present entries of the tables in s name, in tables tb.
Below(tb, s) ==
  {tb[p[1]][p[2]].frame : p \in {q \in s \X Indices : tb[q[1]][q[2]].present}}

\* The tables of levels 4 to 1, and those whose entries point to tables.
Tables4 == {pml4}
Tables3 == Below(tables, Tables4)
Tables2 == Below(tables, Tables3)
Tables1 == Below(tables, Tables2)
Upper == Tables4 \cup Tables3 \cup Tables2

\* A table is on one level only.
LevelsApart ==
  /\ Tables4 \cap Tables3 = {} /\ Tables4 \cap Tables2 = {} /\ Tables4 \cap Tables1 = {}
  /\ Tables3 \cap Tables2 = {} /\ Tables3 \cap Tables1 = {} /\ Tables2 \cap Tables1 = {}

\* No two entries point to the same table.
PointersDiffer ==
  \A s, t \in Upper : \A j, k \in Indices :
    /\ tables[s][j].present /\ tables[t][k].present
    /\ tables[s][j].frame = tables[t][k].frame
    => s = t /\ j = k

\* Pointers to tables restrict nothing but user mode.
PointersOpen ==
  \A t \in Upper : \A k \in Indices :
    tables[t][k].present => tables[t][k].rw /\ ~tables[t][k].us /\ ~tables[t][k].nx

\* An entry that is not present was never written.
AbsentClear ==
  \A t \in owned : \A k \in Indices : ~tables[t][k].present => tables[t][k] = NoEntry

Tree ==
  /\ owned = Tables4 \cup Tables3 \cup Tables2 \cup Tables1
  /\ LevelsApart /\ PointersDiffer /\ PointersOpen

\* The pages initialize_paging maps, and the call of map_page for each.
Mappable == Hhdm .. KernelVma + machine.kernel_pages
OnScreen(va) == va \in {Hhdm + f : f \in FramebufferPages(machine)}
RequestFor(va) ==
  IF va < KernelVma
  THEN Request(va, va - Hhdm, ~OnScreen(va), TRUE, TRUE, OnScreen(va))
  ELSE Request(va, machine.physical_base + (va - KernelVma), TRUE, TRUE, FALSE, FALSE)

\* The walk of map_page has followed the path of the page it maps.
WalkOnPath ==
  level > 0 =>
    /\ call.va \in Mappable /\ call = RequestFor(call.va)
    /\ level = 4 => table = pml4
    /\ level < 4 => E4(call.va).present
    /\ level = 3 => table = E4(call.va).frame
    /\ level < 3 => E3(call.va).present
    /\ level = 2 => table = E3(call.va).frame
    /\ level < 2 => E2(call.va).present /\ table = E2(call.va).frame

\* Whatever is mapped is one of those pages, mapped as its call says.
PagesAsRequested ==
  \A va \in VirtualPages :
    Mapped(va) => va \in Mappable /\ E1(va) = PageFor(NoEntry, RequestFor(va))

\* Page va is mapped, or is being mapped.
Have(va) == Mapped(va) \/ (level > 0 /\ call.va = va)

\* How far the loops have got.
StackSoFar ==
  IF pc = "stack" THEN done <= StackPages /\ \A j \in 0 .. done - 1 : Have(machine.rsp - j)
  ELSE pc \in {"framebuffer", "kernel", "done"} => \A va \in StackOf(machine) : Have(va)

IsScreen(k) == machine.map[k].type = "framebuffer"
ScreenSoFar ==
  /\ pc = "framebuffer" =>
       /\ entry \in 1 .. Len(machine.map) + 1
       /\ \A k \in 1 .. Len(machine.map) :
            /\ k < entry /\ IsScreen(k) =>
                 \A f \in PagesOf(machine.map[k]) : Have(Hhdm + f)
            /\ k = entry =>
                 /\ IF IsScreen(k) THEN done <= machine.map[k].length ELSE done = 0
                 /\ \A j \in 0 .. done - 1 : Have(Hhdm + machine.map[k].base + j)
  /\ pc \in {"kernel", "done"} =>
       \A f \in FramebufferPages(machine) : Have(Hhdm + f)

ImageSoFar ==
  /\ pc = "kernel" => /\ done <= machine.kernel_pages + 1
                      /\ \A j \in 0 .. done - 1 : Have(KernelVma + j)
  /\ pc = "done" => \A j \in 0 .. machine.kernel_pages : Have(KernelVma + j)

\* Which variables are set when.
Stages ==
  /\ pc = "pml4" <=> (pml4 = 0 /\ pc # "halted")
  /\ pml4 = 0 => level = 0 /\ owned = {} /\ cr3 = 0
  /\ pc \in {"self", "done"} => level = 0
  /\ cr3 # 0 <=> pc = "done"
  /\ pc = "pml4" => entry = 1 /\ done = 0
  /\ pc = "self" => entry = 1 /\ done = 0
  /\ pc = "stack" => entry = 1

IndInv ==
  /\ TypeOK
  /\ IsFiniteSet(owned)
  /\ AbsentClear
  /\ Stages
  /\ pml4 # 0 => Tree
  /\ WalkOnPath
  /\ PagesAsRequested
  /\ StackSoFar /\ ScreenSoFar /\ ImageSoFar
-----------------------------------------------------------------------------
(* Page numbers and indices *)

\* Multiplication by a positive number can be cancelled.
LEMMA Cancel ==
  ASSUME NEW x \in Int, NEW y \in Int, NEW p \in Nat \ {0}, p * x < p * y
  PROVE  x < y
  OBVIOUS

LEMMA Division ==
  ASSUME NEW a \in Nat, NEW p \in Nat \ {0}
  PROVE  /\ a \div p \in Nat /\ a % p \in 0 .. p - 1
         /\ a = p * (a \div p) + (a % p)
<1>1. /\ a \div p \in Int /\ a % p \in 0 .. p - 1
      /\ a = p * (a \div p) + (a % p)
  OBVIOUS
<1>2. p * (-1) < p * (a \div p)
  BY <1>1
<1>3. QED
  BY <1>1, <1>2, Cancel

\* Quotient and remainder are determined by the number.
LEMMA DivisionUnique ==
  ASSUME NEW p \in Nat \ {0}, NEW u \in Int, NEW v \in Int,
         NEW r \in 0 .. p - 1, NEW s \in 0 .. p - 1, p * u + r = p * v + s
  PROVE  u = v /\ r = s
<1>1. p * u < p * (v + 1) /\ p * v < p * (u + 1)
  OBVIOUS
<1>2. u < v + 1 /\ v < u + 1
  BY <1>1, Cancel
<1>3. QED
  BY <1>2

\* Dividing twice is dividing by the product.
LEMMA DivideTwice ==
  ASSUME NEW a \in Nat, NEW p \in Nat \ {0}, NEW q \in Nat \ {0},
         NEW m \in Nat, m = p * q
  PROVE  a \div m = (a \div p) \div q
<1> DEFINE u == a \div p
           v == u \div q
           w == a \div m
           r == a % p
           s == u % q
           t == a % m
           o == p * s + r
<1>1. m \in Nat \ {0}
  OBVIOUS
<1>2. /\ u \in Nat /\ r \in 0 .. p - 1 /\ a = p * u + r
      /\ v \in Nat /\ s \in 0 .. q - 1 /\ u = q * v + s
  BY Division
<1> HIDE DEF u, v, r, s
<1>3. w \in Nat /\ t \in 0 .. m - 1 /\ a = m * w + t
  BY <1>1, Division
<1>4. a = m * v + o
  BY <1>2
<1>5. o \in 0 .. m - 1
  <2>1. p * s <= p * (q - 1) /\ p * s \in Nat
    BY <1>2
  <2>2. QED
    BY <1>2, <2>1
<1> HIDE DEF w, t, o
<1>6. w = v
  BY <1>1, <1>2, <1>3, <1>4, <1>5, DivisionUnique
<1>7. QED
  BY <1>6 DEF w, u, v

LEMMA IndexType ==
  ASSUME NEW va \in Nat, NEW l \in 1 .. 4
  PROVE  Index(va, l) \in Indices
<1>1. Reach[l] \in Nat \ {0}
  BY FanoutAssumption DEF Reach
<1>2. va \div Reach[l] \in Nat
  BY <1>1, Division
<1>3. QED
  BY <1>2, Division, FanoutAssumption DEF Index, Indices

\* The powers of Fanout.
LEMMA Powers ==
  /\ Fanout \in Nat \ {0}
  /\ Reach[1] = 1 /\ Reach[2] = Fanout
  /\ Reach[3] \in Nat \ {0} /\ Reach[3] = Reach[2] * Fanout
  /\ Reach[4] \in Nat \ {0} /\ Reach[4] = Reach[3] * Fanout
  BY FanoutAssumption DEF Reach

\* The four digits of a number to the base F.
LEMMA FourDigits ==
  ASSUME NEW a \in Nat, a < Fanout * Reach[4]
  PROVE  /\ a \div Reach[3] = (a \div Fanout) \div Fanout
         /\ (a \div Reach[4]) % Fanout = ((a \div Fanout) \div Fanout) \div Fanout
<1>1. a \div Reach[3] = (a \div Fanout) \div Fanout
  <2>1. \A m \in Nat : m = Fanout * Fanout => a \div m = (a \div Fanout) \div Fanout
    BY DivideTwice, FanoutAssumption
  <2>2. QED
    BY <2>1, Powers
<1>2. a \div Reach[4] = (a \div Reach[3]) \div Fanout
  <2>1. \A n \in Nat \ {0}, m \in Nat :
          m = n * Fanout => a \div m = (a \div n) \div Fanout
    BY DivideTwice, FanoutAssumption
  <2>2. QED
    BY <2>1, Powers
<1>3. a \div Reach[4] \in 0 .. Fanout - 1
  <2>1. ASSUME NEW m \in Nat \ {0}, a < Fanout * m PROVE a \div m \in 0 .. Fanout - 1
    <3>1. /\ a \div m \in Nat /\ a % m \in 0 .. m - 1
          /\ a = m * (a \div m) + (a % m)
      BY Division
    <3>2. m * (a \div m) < m * Fanout
      BY <2>1, <3>1, FanoutAssumption
    <3>3. a \div m < Fanout
      BY <3>1, <3>2, Cancel, FanoutAssumption
    <3>4. QED
      BY <3>1, <3>3, FanoutAssumption
  <2>2. QED
    BY <2>1, Powers
<1>4. (a \div Reach[4]) % Fanout = a \div Reach[4]
  BY <1>3, FanoutAssumption
<1>5. QED
  BY <1>1, <1>2, <1>4

\* A virtual page is determined by its four indices.
LEMMA IndicesDiffer ==
  ASSUME NEW va \in VirtualPages, NEW vb \in VirtualPages,
         \A l \in 1 .. 4 : Index(va, l) = Index(vb, l)
  PROVE  va = vb
<1>1. ASSUME NEW a \in VirtualPages
      PROVE  /\ a \in Nat
             /\ Index(a, 1) = a % Fanout
             /\ Index(a, 2) = (a \div Fanout) % Fanout
             /\ Index(a, 3) = ((a \div Fanout) \div Fanout) % Fanout
             /\ Index(a, 4) = ((a \div Fanout) \div Fanout) \div Fanout
  <2>1. a \in Nat /\ a < Fanout * Reach[4]
    BY Powers DEF VirtualPages
  <2>2. /\ Index(a, 1) = (a \div 1) % Fanout /\ Index(a, 2) = (a \div Fanout) % Fanout
        /\ Index(a, 3) = (a \div Reach[3]) % Fanout
        /\ Index(a, 4) = (a \div Reach[4]) % Fanout
    BY Powers DEF Index
  <2>3. a \div 1 = a
    BY <2>1
  <2>4. /\ a \div Reach[3] = (a \div Fanout) \div Fanout
        /\ (a \div Reach[4]) % Fanout = ((a \div Fanout) \div Fanout) \div Fanout
    BY <2>1, FourDigits
  <2>5. QED
    BY <2>1, <2>2, <2>3, <2>4
<1>2. ASSUME NEW a \in Nat, NEW b \in Nat,
             a \div Fanout = b \div Fanout, a % Fanout = b % Fanout
      PROVE  a = b
  <2>1. /\ a = Fanout * (a \div Fanout) + (a % Fanout)
        /\ b = Fanout * (b \div Fanout) + (b % Fanout)
    BY Division, FanoutAssumption
  <2>2. QED
    BY <2>1, <1>2
<1>3. \A a \in Nat : a \div Fanout \in Nat
  BY Division, FanoutAssumption
<1>4. (va \div Fanout) \div Fanout = (vb \div Fanout) \div Fanout
  BY <1>1, <1>2, <1>3
<1>5. va \div Fanout = vb \div Fanout
  BY <1>1, <1>2, <1>3, <1>4
<1>6. QED
  BY <1>1, <1>2, <1>5

-----------------------------------------------------------------------------
(* Paths through the tree *)

\* A frame is below the tables that hold a present entry for it.
LEMMA BelowMember ==
  ASSUME NEW tb, NEW s
  PROVE  \A x : x \in Below(tb, s) <=>
                 \E t \in s, k \in Indices : tb[t][k].present /\ x = tb[t][k].frame
<1>1. ASSUME NEW t \in s, NEW k \in Indices, tb[t][k].present
      PROVE  tb[t][k].frame \in Below(tb, s)
  <2>1. <<t, k>> \in s \X Indices /\ <<t, k>>[1] = t /\ <<t, k>>[2] = k
    OBVIOUS
  <2>2. QED
    BY <1>1, <2>1 DEF Below
<1>2. ASSUME NEW x \in Below(tb, s)
      PROVE  \E t \in s, k \in Indices : tb[t][k].present /\ x = tb[t][k].frame
  <2>1. PICK q \in s \X Indices : tb[q[1]][q[2]].present /\ x = tb[q[1]][q[2]].frame
    BY DEF Below
  <2>2. QED
    BY <2>1
<1>3. QED
  BY <1>1, <1>2

\* A path goes down one level with every entry that is present.
LEMMA PathLevels ==
  ASSUME NEW va \in Nat
  PROVE  /\ E4(va).present => E4(va).frame \in Tables3
         /\ E4(va).present /\ E3(va).present => E3(va).frame \in Tables2
         /\ E4(va).present /\ E3(va).present /\ E2(va).present =>
              E2(va).frame \in Tables1
<1>1. \A l \in 1 .. 4 : Index(va, l) \in Indices
  BY IndexType
<1>2. E4(va).present => E4(va).frame \in Tables3
  BY <1>1, BelowMember DEF E4, Tables3, Tables4
<1>3. E4(va).present /\ E3(va).present => E3(va).frame \in Tables2
  BY <1>1, <1>2, BelowMember DEF E3, Tables2
<1>4. E4(va).present /\ E3(va).present /\ E2(va).present => E2(va).frame \in Tables1
  BY <1>1, <1>3, BelowMember DEF E2, Tables1
<1>5. QED
  BY <1>2, <1>3, <1>4

\* Two paths that meet have been the same from the root.
LEMMA PathsMeet ==
  ASSUME PointersDiffer, NEW va \in Nat, NEW vb \in Nat,
         E4(va).present, E4(vb).present
  PROVE  /\ E4(va).frame = E4(vb).frame => Index(va, 4) = Index(vb, 4)
         /\ E3(va).present /\ E3(vb).present /\ E3(va).frame = E3(vb).frame =>
              /\ E4(va).frame = E4(vb).frame
              /\ Index(va, 4) = Index(vb, 4) /\ Index(va, 3) = Index(vb, 3)
         /\ /\ E3(va).present /\ E3(vb).present /\ E2(va).present /\ E2(vb).present
            /\ E2(va).frame = E2(vb).frame
            => /\ E3(va).frame = E3(vb).frame /\ E4(va).frame = E4(vb).frame
               /\ \A l \in 2 .. 4 : Index(va, l) = Index(vb, l)
<1>1. \A l \in 1 .. 4 : Index(va, l) \in Indices /\ Index(vb, l) \in Indices
  BY IndexType
<1>2. /\ pml4 \in Upper /\ E4(va).frame \in Upper /\ E4(vb).frame \in Upper
      /\ E3(va).present => E3(va).frame \in Upper
      /\ E3(vb).present => E3(vb).frame \in Upper
  BY PathLevels DEF Upper, Tables4
<1>3. E4(va).frame = E4(vb).frame => Index(va, 4) = Index(vb, 4)
  BY <1>1, <1>2 DEF PointersDiffer, E4
<1>4. E3(va).present /\ E3(vb).present /\ E3(va).frame = E3(vb).frame =>
        E4(va).frame = E4(vb).frame /\ Index(va, 3) = Index(vb, 3)
  BY <1>1, <1>2 DEF PointersDiffer, E3
<1>5. /\ E3(va).present /\ E3(vb).present /\ E2(va).present /\ E2(vb).present
      /\ E2(va).frame = E2(vb).frame
      => E3(va).frame = E3(vb).frame /\ Index(va, 2) = Index(vb, 2)
  BY <1>1, <1>2 DEF PointersDiffer, E2
<1>6. QED
  BY <1>3, <1>4, <1>5

-----------------------------------------------------------------------------
(* Machines *)

LEMMA VirtualPagesDown ==
  ASSUME NEW x \in VirtualPages, NEW y \in Nat, y <= x
  PROVE  x \in Nat /\ y \in VirtualPages
<1>1. Fanout * Reach[4] \in Nat
  BY Powers
<1>2. QED
  BY <1>1 DEF VirtualPages

\* What IsMachine says of the memory of a machine, page by page.
LEMMA MemoryFacts ==
  ASSUME NEW m \in Machines
  PROVE  /\ Len(m.map) \in Nat
         /\ \A k \in 1 .. Len(m.map) :
              m.map[k].base \in Nat /\ m.map[k].length \in Nat
         /\ \A f \in UsablePages(m.map) :
              /\ f \in Nat /\ f > 0 /\ f < PointerReach /\ Hhdm + f < KernelVma
              /\ f \notin FramebufferPages(m) /\ Hhdm + f \notin StackOf(m)
         /\ \A f \in FramebufferPages(m) :
              f \in Nat /\ Hhdm + f < KernelVma /\ Hhdm + f \notin StackOf(m)
<1>1. /\ IsMachine(m) /\ LimineMap(m.map)
      /\ \A k \in 1 .. Len(m.map) : Hhdm + EntryEnd(m.map[k]) <= KernelVma
      /\ \A f \in UsablePages(m.map) : f < PointerReach /\ Hhdm + f \notin StackOf(m)
      /\ \A f \in FramebufferPages(m) : Hhdm + f \notin StackOf(m)
  BY MachineAssumption DEF IsMachine
<1>2. m.map \in Seq(Entry)
  BY <1>1 DEF LimineMap
<1>3. /\ Len(m.map) \in Nat
      /\ \A k \in 1 .. Len(m.map) : m.map[k].base \in Nat /\ m.map[k].length \in Nat
  <2>1. Len(m.map) \in Nat /\ \A k \in 1 .. Len(m.map) : m.map[k] \in Entry
    BY <1>2
  <2>2. QED
    BY <2>1 DEF Entry
<1>4. Hhdm \in Nat /\ KernelVma \in Nat
  BY LayoutAssumption, Powers DEF VirtualPages
<1>5. ASSUME NEW k \in 1 .. Len(m.map), NEW f \in PagesOf(m.map[k])
      PROVE  /\ f \in Nat /\ Hhdm + f < KernelVma
             /\ m.map[k].base <= f /\ f < EntryEnd(m.map[k])
  BY <1>1, <1>3, <1>4 DEF PagesOf, EntryEnd
<1>6. ASSUME NEW f \in UsablePages(m.map)
      PROVE  /\ f \in Nat /\ f > 0 /\ Hhdm + f < KernelVma
             /\ f \notin FramebufferPages(m)
  <2>1. PICK k \in 1 .. Len(m.map) : Usable(m.map, k) /\ f \in PagesOf(m.map[k])
    BY DEF UsablePages
  <2>2. f \in Nat /\ f > 0 /\ Hhdm + f < KernelVma
    BY <1>1, <1>3, <1>5, <2>1 DEF LimineMap
  <2>3. ASSUME f \in FramebufferPages(m) PROVE FALSE
    <3>1. PICK j \in 1 .. Len(m.map) :
            m.map[j].type = "framebuffer" /\ f \in PagesOf(m.map[j])
      BY <2>3 DEF FramebufferPages
    <3>2. j # k
      BY <2>1, <3>1 DEF Usable
    <3>3. EntryEnd(m.map[j]) <= m.map[k].base \/ EntryEnd(m.map[k]) <= m.map[j].base
      BY <1>1, <2>1, <3>2 DEF LimineMap
    <3>4. /\ m.map[k].base <= f /\ f < EntryEnd(m.map[k])
          /\ m.map[j].base <= f /\ f < EntryEnd(m.map[j])
      BY <1>5, <2>1, <3>1
    <3>5. /\ m.map[k].base \in Nat /\ m.map[j].base \in Nat
          /\ EntryEnd(m.map[k]) \in Nat /\ EntryEnd(m.map[j]) \in Nat
      BY <1>3 DEF EntryEnd
    <3>6. QED
      BY <2>2, <3>3, <3>4, <3>5
  <2>4. QED
    BY <2>2, <2>3
<1>7. ASSUME NEW f \in FramebufferPages(m)
      PROVE  f \in Nat /\ Hhdm + f < KernelVma
  BY <1>5 DEF FramebufferPages
<1>8. QED
  BY <1>1, <1>3, <1>6, <1>7

\* And of the stack, and of the image.
LEMMA LayoutFacts ==
  ASSUME NEW m \in Machines
  PROVE  /\ Hhdm \in Nat /\ KernelVma \in Nat /\ StackPages \in Nat \ {0}
         /\ m.rsp \in Nat /\ m.physical_base \in Nat /\ m.kernel_pages \in Nat
         /\ Hhdm <= m.rsp - (StackPages - 1) /\ m.rsp < KernelVma
         /\ Hhdm .. KernelVma + m.kernel_pages \subseteq VirtualPages
<1>1. /\ m.rsp \in Nat /\ m.physical_base \in Nat /\ m.kernel_pages \in Nat
      /\ Hhdm <= m.rsp - (StackPages - 1) /\ m.rsp < KernelVma
      /\ KernelVma + m.kernel_pages \in VirtualPages
  BY MachineAssumption DEF IsMachine
<1>2. Hhdm \in Nat /\ KernelVma \in Nat /\ StackPages \in Nat \ {0}
  BY LayoutAssumption, Powers DEF VirtualPages
<1>3. \A y \in Nat : y <= KernelVma + m.kernel_pages => y \in VirtualPages
  BY <1>1, VirtualPagesDown
<1>4. QED
  BY <1>1, <1>2, <1>3

-----------------------------------------------------------------------------
(* What the steps of map_page do to the tables *)

\* The table that the walk has got to, and where in it.
LEMMA WalkFacts ==
  ASSUME IndInv, level > 0
  PROVE  /\ level \in 1 .. 4 /\ pml4 # 0 /\ Tree /\ cr3 = 0
         /\ call.va \in VirtualPages /\ call.va \in Nat
         /\ \A l \in 1 .. 4 : Index(call.va, l) \in Indices
         /\ table \in owned
         /\ level = 4 => table \in Tables4
         /\ level = 3 => table \in Tables3
         /\ level = 2 => table \in Tables2
         /\ level = 1 => table \in Tables1
<1>1. /\ TypeOK /\ Stages /\ WalkOnPath /\ (pml4 # 0 => Tree)
  BY DEF IndInv
<1>2. level \in 1 .. 4 /\ pml4 # 0 /\ Tree /\ table \in owned /\ cr3 = 0
  BY <1>1 DEF TypeOK, Stages
<1>3. call.va \in Mappable
  BY <1>1 DEF WalkOnPath
<1>4. call.va \in VirtualPages /\ call.va \in Nat
  BY <1>1, <1>3, LayoutFacts DEF TypeOK, Mappable
<1>5. \A l \in 1 .. 4 : Index(call.va, l) \in Indices
  BY <1>4, IndexType
<1>6. CASE level = 4
  BY <1>1, <1>2, <1>4, <1>5, <1>6 DEF WalkOnPath, Tables4
<1>7. CASE level = 3
  BY <1>1, <1>2, <1>4, <1>5, <1>7, PathLevels DEF WalkOnPath
<1>8. CASE level = 2
  BY <1>1, <1>2, <1>4, <1>5, <1>8, PathLevels DEF WalkOnPath
<1>9. CASE level = 1
  BY <1>1, <1>2, <1>4, <1>5, <1>9, PathLevels DEF WalkOnPath
<1>10. QED
  BY <1>2, <1>4, <1>5, <1>6, <1>7, <1>8, <1>9

\* AddTable adds table f, clear, and one entry that points to it.
Adds(f) ==
  /\ f \in Nat /\ f # 0 /\ f < PointerReach /\ f \notin owned
  /\ owned' = owned \cup {f}
  /\ tables'[f] = ZeroedTable
  /\ \A g \in owned : g # table => tables'[g] = tables[g]
  /\ \A j \in Indices : j # Index(call.va, level) => tables'[table][j] = tables[table][j]
  /\ tables'[table][Index(call.va, level)] = PointerTo(NoEntry, f)

LEMMA AddTableFacts ==
  ASSUME IndInv, AddTable
  PROVE  /\ pc # "halted"
         /\ \E f \in free : /\ Adds(f)
                            /\ table' = f /\ free' = free \ {f} /\ f \in UsablePages(machine.map)
         /\ tables' \in [owned' -> [Indices -> PageEntry]]
         /\ level \in 2 .. 4 /\ level' = level - 1
         /\ tables[table][Index(call.va, level)] = NoEntry
         /\ UNCHANGED <<machine, progress, call, pml4, cr3>>
<1>1. /\ TypeOK /\ AbsentClear
  BY DEF IndInv
<1>2. /\ level > 1 /\ level' = level - 1 /\ ~Current.present
      /\ UNCHANGED <<machine, progress, call, pml4, cr3>>
  BY DEF AddTable
<1>3. PICK f \in free :
        /\ Supply!Alloc(f)
        /\ tables' = [g \in DOMAIN tables \cup {f} |->
                       IF g = f THEN ZeroedTable
                       ELSE IF g = table
                       THEN [tables[g] EXCEPT ![Index(call.va, level)] = PointerTo(@, f)]
                       ELSE tables[g]]
        /\ table' = f
  BY DEF AddTable
<1>4. /\ pc # "halted" /\ free' = free \ {f} /\ owned' = owned \cup {f}
      /\ \A g \in owned : g < f
  BY <1>3 DEF Supply!Alloc
<1>5. /\ f \in UsablePages(machine.map) /\ f \in Nat /\ f # 0 /\ f < PointerReach
  BY <1>1, MemoryFacts DEF TypeOK
<1>6. f \notin owned
  BY <1>4, <1>5
<1>7. /\ table \in owned /\ Index(call.va, level) \in Indices
  BY <1>1, <1>2, WalkFacts DEF TypeOK
<1>8. tables[table][Index(call.va, level)] = NoEntry
  BY <1>1, <1>2, <1>7 DEF AbsentClear, Current
<1>9. DOMAIN tables = owned /\ tables \in [owned -> [Indices -> PageEntry]]
  BY <1>1 DEF TypeOK
<1>10. /\ tables' = [g \in owned' |->
                       IF g = f THEN ZeroedTable
                       ELSE IF g = table
                       THEN [tables[g] EXCEPT ![Index(call.va, level)] = PointerTo(@, f)]
                       ELSE tables[g]]
  BY <1>3, <1>4, <1>9
<1>11. Adds(f)
  BY <1>4, <1>5, <1>6, <1>7, <1>8, <1>9, <1>10 DEF Adds
<1>12. tables' \in [owned' -> [Indices -> PageEntry]]
  <2>1. NoEntry \in PageEntry /\ PointerTo(NoEntry, f) \in PageEntry
    BY <1>5 DEF NoEntry, PointerTo, PageEntry
  <2>2. ZeroedTable \in [Indices -> PageEntry]
    BY <2>1 DEF ZeroedTable
  <2>3. [tables[table] EXCEPT ![Index(call.va, level)] = PointerTo(@, f)]
          \in [Indices -> PageEntry]
    BY <1>7, <1>8, <1>9, <2>1
  <2>4. ASSUME NEW g \in owned'
        PROVE  (IF g = f THEN ZeroedTable
                ELSE IF g = table
                THEN [tables[g] EXCEPT ![Index(call.va, level)] = PointerTo(@, f)]
                ELSE tables[g]) \in [Indices -> PageEntry]
    <3>1. CASE g = f
      BY <2>2, <3>1
    <3>2. CASE g # f /\ g = table
      BY <2>3, <3>2
    <3>3. CASE g # f /\ g # table
      <4>1. tables[g] \in [Indices -> PageEntry]
        BY <1>4, <1>9, <3>3
      <4>2. QED
        BY <3>3, <4>1
    <3>4. QED
      BY <3>1, <3>2, <3>3
  <2>5. QED
    BY <1>10, <2>4
<1>13. level \in 2 .. 4
  BY <1>1, <1>2 DEF TypeOK
<1>14. QED
  BY <1>2, <1>3, <1>4, <1>5, <1>8, <1>11, <1>12, <1>13

\* Every level of the tree is among the frames handed out.
LEMMA LevelsOwned ==
  ASSUME Tree
  PROVE  /\ Tables4 \subseteq owned /\ Tables3 \subseteq owned /\ Tables2 \subseteq owned
         /\ Tables1 \subseteq owned /\ Upper \subseteq owned
         /\ \A t \in Upper, k \in Indices :
              tables[t][k].present => tables[t][k].frame \in owned
<1>1. /\ Tables4 \subseteq owned /\ Tables3 \subseteq owned /\ Tables2 \subseteq owned
      /\ Tables1 \subseteq owned /\ Upper \subseteq owned
  BY DEF Tree, Upper
<1>2. ASSUME NEW t \in Upper, NEW k \in Indices, tables[t][k].present
      PROVE  tables[t][k].frame \in owned
  <2>1. CASE t \in Tables4
    BY <1>1, <1>2, <2>1, BelowMember DEF Tables3
  <2>2. CASE t \in Tables3
    BY <1>1, <1>2, <2>2, BelowMember DEF Tables2
  <2>3. CASE t \in Tables2
    BY <1>1, <1>2, <2>3, BelowMember DEF Tables1
  <2>4. QED
    BY <2>1, <2>2, <2>3 DEF Upper
<1>3. QED
  BY <1>1, <1>2

\* What is left as it was, and what is new, entry by entry.
LEMMA AddedEntries ==
  ASSUME IndInv, level \in 2 .. 4, NEW f, Adds(f),
         tables[table][Index(call.va, level)] = NoEntry
  PROVE  /\ \A t \in owned, k \in Indices :
              ~(t = table /\ k = Index(call.va, level)) => tables'[t][k] = tables[t][k]
         /\ \A t \in owned, k \in Indices :
              tables[t][k].present => tables'[t][k] = tables[t][k]
         /\ \A k \in Indices : tables'[f][k] = NoEntry
         /\ ~NoEntry.present
         /\ tables'[table][Index(call.va, level)].present
         /\ tables'[table][Index(call.va, level)].frame = f
         /\ tables'[table][Index(call.va, level)].rw
         /\ ~tables'[table][Index(call.va, level)].us
         /\ ~tables'[table][Index(call.va, level)].nx
<1>1. ~NoEntry.present
  BY DEF NoEntry
<1>2. \A t \in owned, k \in Indices :
        ~(t = table /\ k = Index(call.va, level)) => tables'[t][k] = tables[t][k]
  BY DEF Adds
<1>3. \A t \in owned, k \in Indices :
        tables[t][k].present => tables'[t][k] = tables[t][k]
  BY <1>1, <1>2
<1>4. \A k \in Indices : tables'[f][k] = NoEntry
  BY DEF Adds, ZeroedTable
<1>5. /\ PointerTo(NoEntry, f).present /\ PointerTo(NoEntry, f).frame = f
      /\ PointerTo(NoEntry, f).rw
      /\ ~PointerTo(NoEntry, f).us /\ ~PointerTo(NoEntry, f).nx
  BY DEF PointerTo, NoEntry
<1>6. QED
  BY <1>1, <1>2, <1>3, <1>4, <1>5 DEF Adds

\* The frames below a set of tables: one more if the set holds the table that
\* the walk has got to.
LEMMA AddedBelow ==
  ASSUME IndInv, level \in 2 .. 4, NEW f, Adds(f),
         tables[table][Index(call.va, level)] = NoEntry, NEW s \in SUBSET owned
  PROVE  /\ table \notin s => Below(tables', s) = Below(tables, s)
         /\ table \in s => Below(tables', s) = Below(tables, s) \cup {f}
         /\ Below(tables', s \cup {f}) = Below(tables', s)
<1>1. Index(call.va, level) \in Indices
  BY WalkFacts
<1>2. ASSUME table \notin s PROVE Below(tables', s) = Below(tables, s)
  <2>1. \A t \in s, k \in Indices : tables'[t][k] = tables[t][k]
    BY <1>2, AddedEntries
  <2>2. \A x : x \in Below(tables', s) <=> x \in Below(tables, s)
    BY <2>1, BelowMember
  <2>3. QED
    BY <2>2
<1>3. ASSUME table \in s PROVE Below(tables', s) = Below(tables, s) \cup {f}
  <2>1. ASSUME NEW x \in Below(tables', s) PROVE x \in Below(tables, s) \cup {f}
    <3>1. PICK t \in s, k \in Indices : tables'[t][k].present /\ x = tables'[t][k].frame
      BY <2>1, BelowMember
    <3>2. QED
      BY <3>1, BelowMember, AddedEntries
  <2>2. ASSUME NEW x \in Below(tables, s) PROVE x \in Below(tables', s)
    <3>1. PICK t \in s, k \in Indices : tables[t][k].present /\ x = tables[t][k].frame
      BY <2>2, BelowMember
    <3>2. QED
      BY <3>1, BelowMember, AddedEntries
  <2>3. f \in Below(tables', s)
    BY <1>1, <1>3, BelowMember, AddedEntries
  <2>4. QED
    BY <2>1, <2>2, <2>3
<1>4. Below(tables', s \cup {f}) = Below(tables', s)
  <2>1. \A k \in Indices : ~tables'[f][k].present
    BY AddedEntries
  <2>2. ASSUME NEW x
        PROVE  x \in Below(tables', s \cup {f}) <=> x \in Below(tables', s)
    <3>1. x \in Below(tables', s) <=>
            \E t \in s, k \in Indices : tables'[t][k].present /\ x = tables'[t][k].frame
      BY BelowMember
    <3>2. x \in Below(tables', s \cup {f}) <=>
            \E t \in s \cup {f}, k \in Indices :
              tables'[t][k].present /\ x = tables'[t][k].frame
      BY BelowMember
    <3>3. QED
      BY <2>1, <3>1, <3>2
  <2>3. QED
    BY <2>2
<1>5. QED
  BY <1>2, <1>3, <1>4

\* The new table is on the level below the one the walk has got to.
LEMMA AddedLevels ==
  ASSUME IndInv, level \in 2 .. 4, NEW f, Adds(f), pml4' = pml4,
         tables[table][Index(call.va, level)] = NoEntry
  PROVE  /\ Tables4' = Tables4
         /\ Tables3' = IF level = 4 THEN Tables3 \cup {f} ELSE Tables3
         /\ Tables2' = IF level = 3 THEN Tables2 \cup {f} ELSE Tables2
         /\ Tables1' = IF level = 2 THEN Tables1 \cup {f} ELSE Tables1
         /\ f \notin Tables4 \cup Tables3 \cup Tables2 \cup Tables1
<1>1. /\ level \in 2 .. 4 /\ Tree /\ table \in owned
      /\ level = 4 => table \in Tables4
      /\ level = 3 => table \in Tables3
      /\ level = 2 => table \in Tables2
  BY WalkFacts
<1>2. /\ Tables4 \subseteq owned /\ Tables3 \subseteq owned /\ Tables2 \subseteq owned
      /\ Tables1 \subseteq owned
  BY <1>1, LevelsOwned
<1>3. LevelsApart
  BY <1>1 DEF Tree
<1>4. Tables4' = Tables4
  BY DEF Tables4
<1>5. f \notin owned
  BY DEF Adds
<1>6. /\ Tables3' = Below(tables', Tables4') /\ Tables2' = Below(tables', Tables3')
      /\ Tables1' = Below(tables', Tables2')
  BY DEF Tables3, Tables2, Tables1
<1>7. /\ Tables3 = Below(tables, Tables4) /\ Tables2 = Below(tables, Tables3)
      /\ Tables1 = Below(tables, Tables2)
  BY DEF Tables3, Tables2, Tables1
<1>8. \A s \in SUBSET owned :
        /\ table \notin s => Below(tables', s) = Below(tables, s)
        /\ table \in s => Below(tables', s) = Below(tables, s) \cup {f}
        /\ Below(tables', s \cup {f}) = Below(tables', s)
  BY AddedBelow
<1>9. CASE level = 4
  <2>1. table \in Tables4 /\ table \notin Tables3 /\ table \notin Tables2
    BY <1>1, <1>3, <1>9 DEF LevelsApart
  <2>2. Tables3' = Tables3 \cup {f}
    BY <1>2, <1>4, <1>6, <1>7, <1>8, <2>1
  <2>3. Tables2' = Tables2
    BY <1>2, <1>6, <1>7, <1>8, <2>1, <2>2
  <2>4. Tables1' = Tables1
    BY <1>2, <1>6, <1>7, <1>8, <2>1, <2>3
  <2>5. QED
    BY <1>2, <1>4, <1>5, <1>9, <2>2, <2>3, <2>4
<1>10. CASE level = 3
  <2>1. table \notin Tables4 /\ table \in Tables3 /\ table \notin Tables2
    BY <1>1, <1>3, <1>10 DEF LevelsApart
  <2>2. Tables3' = Tables3
    BY <1>2, <1>4, <1>6, <1>7, <1>8, <2>1
  <2>3. Tables2' = Tables2 \cup {f}
    BY <1>2, <1>6, <1>7, <1>8, <2>1, <2>2
  <2>4. Tables1' = Tables1
    BY <1>2, <1>6, <1>7, <1>8, <2>1, <2>3
  <2>5. QED
    BY <1>2, <1>4, <1>5, <1>10, <2>2, <2>3, <2>4
<1>11. CASE level = 2
  <2>1. table \notin Tables4 /\ table \notin Tables3 /\ table \in Tables2
    BY <1>1, <1>3, <1>11 DEF LevelsApart
  <2>2. Tables3' = Tables3
    BY <1>2, <1>4, <1>6, <1>7, <1>8, <2>1
  <2>3. Tables2' = Tables2
    BY <1>2, <1>6, <1>7, <1>8, <2>1, <2>2
  <2>4. Tables1' = Tables1 \cup {f}
    BY <1>2, <1>6, <1>7, <1>8, <2>1, <2>3
  <2>5. QED
    BY <1>2, <1>4, <1>5, <1>11, <2>2, <2>3, <2>4
<1>12. QED
  BY <1>1, <1>9, <1>10, <1>11

\* The tree with the new table is a tree.
LEMMA AddedTree ==
  ASSUME IndInv, level \in 2 .. 4, NEW f, Adds(f), pml4' = pml4,
         tables[table][Index(call.va, level)] = NoEntry
  PROVE  Tree' /\ AbsentClear'
<1>1. level \in 2 .. 4 /\ Tree /\ AbsentClear
  BY WalkFacts DEF IndInv
<1>2. LevelsApart /\ PointersDiffer /\ PointersOpen
  BY <1>1 DEF Tree
<1>3. owned' = owned \cup {f} /\ f \notin owned
  BY DEF Adds
<1>4. owned' = Tables4' \cup Tables3' \cup Tables2' \cup Tables1'
  <2>1. owned = Tables4 \cup Tables3 \cup Tables2 \cup Tables1
    BY <1>1 DEF Tree
  <2>2. QED
    BY <1>1, <1>3, <2>1, AddedLevels
<1>5. LevelsApart'
  BY <1>1, <1>2, AddedLevels DEF LevelsApart
<1>6. Upper' \subseteq Upper \cup {f} /\ Upper \subseteq owned
  <2>1. Upper' = Tables4' \cup Tables3' \cup Tables2'
    BY DEF Upper
  <2>2. QED
    BY <1>1, <2>1, AddedLevels, LevelsOwned DEF Upper
<1>7. ASSUME NEW t \in Upper', NEW k \in Indices, tables'[t][k].present
      PROVE  /\ t \in Upper
             /\ \/ tables'[t][k] = tables[t][k] /\ tables'[t][k].frame \in owned
                \/ t = table /\ k = Index(call.va, level)
  <2>1. t \in Upper
    BY <1>6, <1>7, AddedEntries
  <2>2. QED
    BY <1>1, <1>6, <1>7, <2>1, AddedEntries, LevelsOwned
<1>8. PointersDiffer'
  <2>1. SUFFICES ASSUME NEW s \in Upper', NEW t \in Upper',
                        NEW j \in Indices, NEW k \in Indices,
                        tables'[s][j].present, tables'[t][k].present,
                        tables'[s][j].frame = tables'[t][k].frame
                 PROVE  s = t /\ j = k
    BY DEF PointersDiffer, Indices
  <2>2. /\ s \in Upper /\ t \in Upper
        /\ \/ tables'[s][j] = tables[s][j] /\ tables'[s][j].frame \in owned
           \/ s = table /\ j = Index(call.va, level)
        /\ \/ tables'[t][k] = tables[t][k] /\ tables'[t][k].frame \in owned
           \/ t = table /\ k = Index(call.va, level)
    BY <1>7, <2>1
  <2>3. tables'[table][Index(call.va, level)].frame = f
    BY AddedEntries
  <2>4. CASE tables'[s][j].frame = f
    BY <1>3, <2>1, <2>2, <2>4
  <2>5. CASE tables'[s][j].frame # f
    BY <1>2, <2>1, <2>2, <2>3, <2>5 DEF PointersDiffer
  <2>6. QED
    BY <2>4, <2>5
<1>9. PointersOpen'
  <2>1. SUFFICES ASSUME NEW t \in Upper', NEW k \in Indices, tables'[t][k].present
                 PROVE  tables'[t][k].rw /\ ~tables'[t][k].us /\ ~tables'[t][k].nx
    BY DEF PointersOpen, Indices
  <2>2. QED
    BY <1>2, <1>7, <2>1, AddedEntries DEF PointersOpen
<1>10. AbsentClear'
  <2>1. SUFFICES ASSUME NEW t \in owned', NEW k \in Indices, ~tables'[t][k].present
                 PROVE  tables'[t][k] = NoEntry
    BY DEF AbsentClear, Indices
  <2>2. QED
    BY <1>1, <1>3, <2>1, AddedEntries DEF AbsentClear
<1>11. QED
  BY <1>4, <1>5, <1>8, <1>9, <1>10 DEF Tree

\* No page becomes mapped, none stops being mapped or is mapped elsewhere.
LEMMA AddedPaths ==
  ASSUME IndInv, level \in 2 .. 4, NEW f, Adds(f), pml4' = pml4,
         tables[table][Index(call.va, level)] = NoEntry, NEW va \in Nat
  PROVE  /\ E4(va).present => E4(va)' = E4(va)
         /\ E4(va).present /\ E3(va).present => E3(va)' = E3(va)
         /\ E4(va).present /\ E3(va).present /\ E2(va).present => E2(va)' = E2(va)
         /\ Mapped(va) => E1(va)' = E1(va)
         /\ Mapped(va)' <=> Mapped(va)
<1>1. /\ pml4 # 0 /\ Tree /\ table \in owned
      /\ level = 4 => table \in Tables4
      /\ level = 3 => table \in Tables3
      /\ level = 2 => table \in Tables2
  BY WalkFacts
<1>2. /\ Tables4 \subseteq owned /\ Tables3 \subseteq owned /\ Tables2 \subseteq owned
      /\ Tables1 \subseteq owned /\ pml4 \in owned
  BY <1>1, LevelsOwned DEF Tables4
<1>3. Index(va, 4) \in Indices /\ Index(va, 3) \in Indices
      /\ Index(va, 2) \in Indices /\ Index(va, 1) \in Indices
  BY IndexType
<1>4. ASSUME NEW t \in owned, NEW k \in Indices
      PROVE  /\ tables[t][k].present => tables'[t][k] = tables[t][k]
             /\ \/ tables'[t][k] = tables[t][k]
                \/ t = table /\ tables'[t][k].frame = f
  BY AddedEntries
<1>5. \A k \in Indices : ~tables'[f][k].present
  BY AddedEntries
<1>6. E4(va) = tables[pml4][Index(va, 4)] /\ E4(va)' = tables'[pml4][Index(va, 4)]
  BY DEF E4, Index, Reach
<1>7. /\ E3(va) = tables[E4(va).frame][Index(va, 3)]
      /\ E3(va)' = tables'[E4(va)'.frame][Index(va, 3)]
  BY DEF E3, Index, Reach
<1>8. /\ E2(va) = tables[E3(va).frame][Index(va, 2)]
      /\ E2(va)' = tables'[E3(va)'.frame][Index(va, 2)]
  BY DEF E2, Index, Reach
<1>9. /\ E1(va) = tables[E2(va).frame][Index(va, 1)]
      /\ E1(va)' = tables'[E2(va)'.frame][Index(va, 1)]
  BY DEF E1, Index, Reach
<1>10. E4(va).present => E4(va)' = E4(va) /\ E4(va).frame \in owned
  BY <1>2, <1>3, <1>4, <1>6, PathLevels
<1>11. E4(va).present /\ E3(va).present => E3(va)' = E3(va) /\ E3(va).frame \in owned
  BY <1>2, <1>3, <1>4, <1>7, <1>10, PathLevels
<1>12. E4(va).present /\ E3(va).present /\ E2(va).present =>
         E2(va)' = E2(va) /\ E2(va).frame \in Tables1
  BY <1>2, <1>3, <1>4, <1>8, <1>11, PathLevels
<1>13. Mapped(va) => E1(va)' = E1(va)
  BY <1>2, <1>3, <1>4, <1>9, <1>12 DEF Mapped
<1>14. Mapped(va) => Mapped(va)'
  BY <1>1, <1>10, <1>11, <1>12, <1>13 DEF Mapped
<1>15. ASSUME Mapped(va)' PROVE Mapped(va)
  <2>1. E4(va)'.present /\ E3(va)'.present /\ E2(va)'.present /\ E1(va)'.present
    BY <1>15 DEF Mapped
  <2>2. E4(va).present
    <3>1. E4(va)'.frame # f
      BY <1>3, <1>5, <1>7, <2>1
    <3>2. QED
      BY <1>2, <1>3, <1>4, <1>6, <2>1, <3>1
  <2>3. E3(va).present
    <3>1. E3(va)'.frame # f
      BY <1>3, <1>5, <1>8, <2>1
    <3>2. QED
      BY <1>3, <1>4, <1>7, <1>10, <2>1, <2>2, <3>1
  <2>4. E2(va).present
    <3>1. E2(va)'.frame # f
      BY <1>3, <1>5, <1>9, <2>1
    <3>2. QED
      BY <1>3, <1>4, <1>8, <1>11, <2>1, <2>2, <2>3, <3>1
  <2>5. E1(va).present
    <3>1. E2(va).frame # table
      BY <1>1, <1>12, <2>2, <2>3, <2>4 DEF Tree, LevelsApart
    <3>2. QED
      BY <1>2, <1>3, <1>4, <1>9, <1>12, <2>1, <2>2, <2>3, <2>4, <3>1
  <2>6. QED
    BY <1>1, <2>2, <2>3, <2>4, <2>5 DEF Mapped
<1>16. QED
  BY <1>10, <1>11, <1>12, <1>13, <1>14, <1>15

\* The walk goes on in the new table.
LEMMA AddedWalk ==
  ASSUME IndInv, level \in 2 .. 4, NEW f, Adds(f), pml4' = pml4,
         tables[table][Index(call.va, level)] = NoEntry, NEW va \in Nat, va = call.va
  PROVE  /\ E4(va)'.present
         /\ level = 4 => E4(va)'.frame = f
         /\ level < 4 => E3(va)'.present
         /\ level = 3 => E3(va)'.frame = f
         /\ level < 3 => E2(va)'.present /\ E2(va)'.frame = f
<1>1. /\ WalkOnPath
      /\ tables'[table][Index(va, level)].present
      /\ tables'[table][Index(va, level)].frame = f
  BY AddedEntries DEF IndInv
<1>2. /\ E4(va)' = tables'[pml4][Index(va, 4)]
      /\ E3(va)' = tables'[E4(va)'.frame][Index(va, 3)]
      /\ E2(va)' = tables'[E3(va)'.frame][Index(va, 2)]
  BY DEF E4, E3, E2, Index, Reach
<1>3. CASE level = 4
  BY <1>1, <1>2, <1>3 DEF WalkOnPath
<1>4. CASE level = 3
  <2>1. E4(va).present /\ table = E4(va).frame
    BY <1>1, <1>4 DEF WalkOnPath
  <2>2. E4(va)' = E4(va)
    BY <2>1, AddedPaths
  <2>3. QED
    BY <1>1, <1>2, <1>4, <2>1, <2>2
<1>5. CASE level = 2
  <2>1. E4(va).present /\ E3(va).present /\ table = E3(va).frame
    BY <1>1, <1>5 DEF WalkOnPath
  <2>2. E4(va)' = E4(va) /\ E3(va)' = E3(va)
    BY <2>1, AddedPaths
  <2>3. QED
    BY <1>1, <1>2, <1>5, <2>1, <2>2
<1>6. QED
  BY <1>3, <1>4, <1>5

\* WritePage sets up the last entry on the path of the page, and no other.
Writes ==
  /\ tables' \in [owned -> [Indices -> PageEntry]]
  /\ \A t \in owned, k \in Indices :
       ~(t = table /\ k = Index(call.va, 1)) => tables'[t][k] = tables[t][k]
  /\ tables'[table][Index(call.va, 1)] = PageFor(NoEntry, RequestFor(call.va))

LEMMA PageForType ==
  ASSUME machine \in Machines, NEW va \in Mappable
  PROVE  /\ PageFor(NoEntry, RequestFor(va)) \in PageEntry
         /\ PageFor(NoEntry, RequestFor(va)).present
         /\ \A e \in PageEntry : PageFor(e, RequestFor(va)) = PageFor(NoEntry, RequestFor(va))
<1>1. ASSUME NEW e \in PageEntry, NEW c,
             c.pa \in Nat, c.is_supervisor \in BOOLEAN, c.writable \in BOOLEAN,
             c.no_execute \in BOOLEAN, c.writethru \in BOOLEAN
      PROVE  PageFor(e, c) =
               [present |-> TRUE, rw |-> c.writable, us |-> c.is_supervisor,
                pwt |-> c.writethru, nx |-> c.no_execute, frame |-> c.pa]
  <2>1. PageFor(e, c) \in PageEntry
    BY <1>1 DEF PageFor, PageEntry
  <2>2. /\ PageFor(e, c).present = TRUE /\ PageFor(e, c).rw = c.writable
        /\ PageFor(e, c).us = c.is_supervisor /\ PageFor(e, c).pwt = c.writethru
        /\ PageFor(e, c).nx = c.no_execute /\ PageFor(e, c).frame = c.pa
    BY DEF PageFor, PageEntry
  <2>3. QED
    BY <2>1, <2>2 DEF PageEntry
<1>2. NoEntry \in PageEntry
  BY DEF NoEntry, PageEntry
<1>3. /\ RequestFor(va).pa \in Nat
      /\ RequestFor(va).is_supervisor \in BOOLEAN /\ RequestFor(va).writable \in BOOLEAN
      /\ RequestFor(va).no_execute \in BOOLEAN /\ RequestFor(va).writethru \in BOOLEAN
  <2>1. OnScreen(va) \in BOOLEAN
    BY DEF OnScreen
  <2>2. va \in Int /\ Hhdm <= va
    BY LayoutFacts DEF Mappable
  <2>3. CASE va < KernelVma
    <3>1. RequestFor(va) = Request(va, va - Hhdm, ~OnScreen(va), TRUE, TRUE, OnScreen(va))
      BY <2>3 DEF RequestFor
    <3>2. QED
      BY <2>1, <2>2, <3>1, LayoutFacts DEF Request
  <2>4. CASE ~(va < KernelVma)
    <3>1. RequestFor(va) =
            Request(va, machine.physical_base + (va - KernelVma), TRUE, TRUE, FALSE, FALSE)
      BY <2>4 DEF RequestFor
    <3>2. QED
      BY <2>2, <2>4, <3>1, LayoutFacts DEF Request
  <2>5. QED
    BY <2>3, <2>4
<1>4. [present |-> TRUE, rw |-> RequestFor(va).writable,
       us |-> RequestFor(va).is_supervisor, pwt |-> RequestFor(va).writethru,
       nx |-> RequestFor(va).no_execute, frame |-> RequestFor(va).pa] \in PageEntry
  BY <1>3 DEF PageEntry
<1>5. QED
  <2>1. \A e \in PageEntry :
          PageFor(e, RequestFor(va)) =
            [present |-> TRUE, rw |-> RequestFor(va).writable,
             us |-> RequestFor(va).is_supervisor, pwt |-> RequestFor(va).writethru,
             nx |-> RequestFor(va).no_execute, frame |-> RequestFor(va).pa]
    BY <1>1, <1>3
  <2>2. PageFor(NoEntry, RequestFor(va)).present
    BY <1>2, <2>1
  <2>3. QED
    BY <1>2, <1>4, <2>1, <2>2

LEMMA WritePageFacts ==
  ASSUME IndInv, WritePage
  PROVE  /\ level = 1 /\ level' = 0 /\ table' = 0 /\ call' = NoCall
         /\ Writes
         /\ UNCHANGED <<machine, progress, pml4, cr3, free, owned>>
<1>1. TypeOK /\ WalkOnPath
  BY DEF IndInv
<1>2. /\ level = 1 /\ level' = 0 /\ table' = 0 /\ call' = NoCall
      /\ UNCHANGED <<machine, progress, pml4, cr3, free, owned>>
      /\ tables' = [tables EXCEPT ![table][Index(call.va, 1)] = PageFor(@, call)]
  BY DEF WritePage
<1>3. /\ table \in owned /\ Index(call.va, 1) \in Indices
      /\ machine \in Machines /\ tables \in [owned -> [Indices -> PageEntry]]
  BY <1>1, <1>2, WalkFacts DEF TypeOK
<1>4. call.va \in Mappable /\ call = RequestFor(call.va)
  BY <1>1, <1>2 DEF WalkOnPath
<1>5. /\ PageFor(NoEntry, RequestFor(call.va)) \in PageEntry
      /\ \A e \in PageEntry :
           PageFor(e, RequestFor(call.va)) = PageFor(NoEntry, RequestFor(call.va))
  BY <1>3, <1>4, PageForType
<1>6. tables[table] \in [Indices -> PageEntry]
  BY <1>3
<1>7. PageFor(tables[table][Index(call.va, 1)], call) = PageFor(NoEntry, RequestFor(call.va))
  <2>1. tables[table][Index(call.va, 1)] \in PageEntry
    BY <1>3, <1>6
  <2>2. QED
    BY <1>4, <1>5, <2>1
<1>8. tables' = [tables EXCEPT ![table] =
                   [tables[table] EXCEPT ![Index(call.va, 1)] =
                      PageFor(tables[table][Index(call.va, 1)], call)]]
  BY <1>2, <1>3
<1>9. [tables[table] EXCEPT ![Index(call.va, 1)] =
         PageFor(NoEntry, RequestFor(call.va))] \in [Indices -> PageEntry]
  BY <1>3, <1>5, <1>6
<1>10. Writes
  BY <1>3, <1>6, <1>7, <1>8, <1>9 DEF Writes
<1>11. QED
  BY <1>2, <1>10

\* Only the last level of the tree is touched.
LEMMA WrittenTree ==
  ASSUME IndInv, level = 1, Writes, owned' = owned, pml4' = pml4
  PROVE  /\ Tables4' = Tables4 /\ Tables3' = Tables3
         /\ Tables2' = Tables2 /\ Tables1' = Tables1
         /\ \A t \in Upper, k \in Indices : tables'[t][k] = tables[t][k]
         /\ Tree' /\ AbsentClear'
<1>1. Tree /\ AbsentClear /\ table \in Tables1 /\ table \in owned
  BY WalkFacts DEF IndInv
<1>2. LevelsApart /\ PointersDiffer /\ PointersOpen
      /\ owned = Tables4 \cup Tables3 \cup Tables2 \cup Tables1
  BY <1>1 DEF Tree
<1>3. table \notin Upper /\ Upper \subseteq owned
  BY <1>1, <1>2, LevelsOwned DEF LevelsApart, Upper
<1>4. \A t \in Upper, k \in Indices : tables'[t][k] = tables[t][k]
  BY <1>3 DEF Writes
<1>5. ASSUME NEW s \in SUBSET Upper PROVE Below(tables', s) = Below(tables, s)
  <2>1. \A t \in s, k \in Indices : tables'[t][k] = tables[t][k]
    BY <1>4
  <2>2. \A x : x \in Below(tables', s) <=> x \in Below(tables, s)
    BY <2>1, BelowMember
  <2>3. QED
    BY <2>2
<1>6. /\ Tables4' = Tables4 /\ Tables3' = Tables3
      /\ Tables2' = Tables2 /\ Tables1' = Tables1
  <2>1. Tables4' = Tables4
    BY DEF Tables4
  <2>2. Tables4 \subseteq Upper /\ Tables3 \subseteq Upper /\ Tables2 \subseteq Upper
    BY DEF Upper
  <2>3. /\ Tables3' = Below(tables', Tables4') /\ Tables2' = Below(tables', Tables3')
        /\ Tables1' = Below(tables', Tables2')
    BY DEF Tables3, Tables2, Tables1
  <2>4. /\ Tables3 = Below(tables, Tables4) /\ Tables2 = Below(tables, Tables3)
        /\ Tables1 = Below(tables, Tables2)
    BY DEF Tables3, Tables2, Tables1
  <2>5. QED
    BY <1>5, <2>1, <2>2, <2>3, <2>4
<1>7. Upper' = Upper
  BY <1>6 DEF Upper
<1>8. LevelsApart' /\ PointersDiffer' /\ PointersOpen'
  <2>1. LevelsApart'
    BY <1>2, <1>6 DEF LevelsApart
  <2>2. PointersDiffer'
    BY <1>2, <1>4, <1>7 DEF PointersDiffer, Indices
  <2>3. PointersOpen'
    BY <1>2, <1>4, <1>7 DEF PointersOpen, Indices
  <2>4. QED
    BY <2>1, <2>2, <2>3
<1>9. Tree'
  BY <1>2, <1>6, <1>8 DEF Tree
<1>10. AbsentClear'
  <2>1. SUFFICES ASSUME NEW t \in owned, NEW k \in Indices, ~tables'[t][k].present
                 PROVE  tables'[t][k] = NoEntry
    BY DEF AbsentClear, Indices
  <2>2. PageFor(NoEntry, RequestFor(call.va)).present
    BY WalkFacts, PageForType DEF IndInv, TypeOK, WalkOnPath
  <2>3. QED
    BY <1>1, <2>1, <2>2 DEF AbsentClear, Writes
<1>11. QED
  BY <1>4, <1>6, <1>9, <1>10

\* No page but the one being mapped is affected.
LEMMA WrittenPaths ==
  ASSUME IndInv, level = 1, Writes, owned' = owned, pml4' = pml4,
         NEW va \in VirtualPages
  PROVE  /\ Mapped(va)' <=> Mapped(va) \/ va = call.va
         /\ va # call.va /\ Mapped(va) =>
              E4(va)' = E4(va) /\ E3(va)' = E3(va) /\ E2(va)' = E2(va) /\ E1(va)' = E1(va)
         /\ va = call.va =>
              /\ E4(va)' = E4(va) /\ E3(va)' = E3(va) /\ E2(va)' = E2(va)
              /\ E4(va).present /\ E3(va).present /\ E2(va).present
              /\ E1(va)' = PageFor(NoEntry, RequestFor(va))
<1>1. /\ pml4 # 0 /\ Tree /\ table \in owned /\ va \in Nat
      /\ call.va \in VirtualPages /\ call.va \in Nat
      /\ WalkOnPath /\ machine \in Machines
  BY WalkFacts, VirtualPagesDown DEF IndInv, TypeOK, VirtualPages
<1>2. /\ Tables1 \subseteq owned /\ pml4 \in Upper
      /\ Tables3 \subseteq Upper /\ Tables2 \subseteq Upper
      /\ PointersDiffer
  BY <1>1, LevelsOwned DEF Tables4, Upper, Tree
<1>3. Index(va, 4) \in Indices /\ Index(va, 3) \in Indices
      /\ Index(va, 2) \in Indices /\ Index(va, 1) \in Indices
  BY <1>1, IndexType
<1>4. \A t \in Upper, k \in Indices : tables'[t][k] = tables[t][k]
  BY WrittenTree
<1>5. /\ E4(va)' = tables'[pml4][Index(va, 4)]
      /\ E3(va)' = tables'[E4(va)'.frame][Index(va, 3)]
      /\ E2(va)' = tables'[E3(va)'.frame][Index(va, 2)]
      /\ E1(va)' = tables'[E2(va)'.frame][Index(va, 1)]
  BY DEF E4, E3, E2, E1, Index, Reach
<1>6. E4(va)' = E4(va)
  BY <1>2, <1>3, <1>4, <1>5 DEF E4
<1>7. E4(va).present => E3(va)' = E3(va)
  BY <1>1, <1>2, <1>3, <1>4, <1>5, <1>6, PathLevels DEF E3
<1>8. E4(va).present /\ E3(va).present => E2(va)' = E2(va)
  <2>1. E4(va).present /\ E3(va).present => E3(va).frame \in Upper
    BY <1>1, <1>2, PathLevels
  <2>2. E2(va) = tables[E3(va).frame][Index(va, 2)]
    BY DEF E2, Index, Reach
  <2>3. QED
    BY <1>3, <1>4, <1>5, <1>7, <2>1, <2>2
<1>9. E4(va).present /\ E3(va).present /\ E2(va).present => E2(va).frame \in owned
  BY <1>1, <1>2, PathLevels
<1>10. /\ E4(call.va).present /\ E3(call.va).present /\ E2(call.va).present
       /\ table = E2(call.va).frame /\ call.va \in Mappable
  BY <1>1 DEF WalkOnPath
<1>11. ASSUME va = call.va
       PROVE  E1(va)' = PageFor(NoEntry, RequestFor(va)) /\ E1(va)'.present
  <2>1. E1(va)' = PageFor(NoEntry, RequestFor(va))
    BY <1>5, <1>6, <1>7, <1>8, <1>10, <1>11 DEF Writes
  <2>2. QED
    BY <1>1, <1>10, <1>11, <2>1, PageForType
<1>12. ASSUME va # call.va, E4(va).present, E3(va).present, E2(va).present
       PROVE  E1(va)' = E1(va)
  <2>1. ASSUME E2(va).frame = table, Index(va, 1) = Index(call.va, 1) PROVE FALSE
    <3>1. \A l \in 2 .. 4 : Index(va, l) = Index(call.va, l)
      BY <1>1, <1>2, <1>10, <1>12, <2>1, PathsMeet
    <3>2. \A l \in 1 .. 4 : Index(va, l) = Index(call.va, l)
      BY <2>1, <3>1
    <3>3. QED
      BY <1>1, <1>12, <3>2, IndicesDiffer
  <2>2. QED
    BY <1>3, <1>5, <1>6, <1>7, <1>8, <1>9, <1>12, <2>1 DEF Writes, E1
<1>13. Mapped(va)' <=> Mapped(va) \/ va = call.va
  <2>1. CASE va = call.va
    BY <1>1, <1>6, <1>7, <1>8, <1>10, <1>11, <2>1 DEF Mapped
  <2>2. CASE va # call.va
    BY <1>1, <1>6, <1>7, <1>8, <1>12, <2>2 DEF Mapped
  <2>3. QED
    BY <2>1, <2>2
<1>14. QED
  BY <1>6, <1>7, <1>8, <1>10, <1>11, <1>12, <1>13 DEF Mapped

-----------------------------------------------------------------------------
(* Steps that leave parts of the state alone *)

\* What depends on the tables alone.
LEMMA SameTables ==
  ASSUME IndInv, UNCHANGED <<machine, tables, pml4, owned>>
  PROVE  /\ \A va \in Nat : /\ E4(va)' = E4(va) /\ E3(va)' = E3(va)
                            /\ E2(va)' = E2(va) /\ E1(va)' = E1(va)
                            /\ Mapped(va)' <=> Mapped(va)
         /\ AbsentClear' /\ PagesAsRequested' /\ IsFiniteSet(owned)'
         /\ pml4' # 0 => Tree'
<1>1. ASSUME NEW va
      PROVE  /\ E4(va)' = E4(va) /\ E3(va)' = E3(va)
             /\ E2(va)' = E2(va) /\ E1(va)' = E1(va)
             /\ Mapped(va)' <=> Mapped(va)
  BY DEF E4, E3, E2, E1, Index, Reach, Mapped
<1>2. AbsentClear' /\ IsFiniteSet(owned)'
  BY DEF IndInv, AbsentClear, Indices
<1>3. ASSUME NEW va \in VirtualPages, Mapped(va)'
      PROVE  (va \in Mappable /\ E1(va) = PageFor(NoEntry, RequestFor(va)))'
  <2>1. va \in Mappable /\ E1(va) = PageFor(NoEntry, RequestFor(va))
    BY <1>1, <1>3 DEF IndInv, PagesAsRequested
  <2>2. Mappable' = Mappable
    BY DEF Mappable
  <2>3. OnScreen(va)' = OnScreen(va)
    BY DEF OnScreen, FramebufferPages
  <2>4. RequestFor(va)' = RequestFor(va)
    BY <2>3 DEF RequestFor
  <2>5. QED
    BY <1>1, <2>1, <2>2, <2>4
<1>4. PagesAsRequested'
  BY <1>3 DEF PagesAsRequested, VirtualPages, Reach
<1>5. ASSUME pml4' # 0 PROVE Tree'
  <2>1. Tree
    BY <1>5 DEF IndInv
  <2>2. /\ Tables4' = Tables4 /\ Tables3' = Tables3 /\ Tables2' = Tables2
        /\ Tables1' = Tables1 /\ Upper' = Upper
    BY DEF Tables4, Tables3, Tables2, Tables1, Upper, Below, Indices
  <2>3. QED
    BY <2>1, <2>2 DEF Tree, LevelsApart, PointersDiffer, PointersOpen, Indices
<1>6. QED
  BY <1>1, <1>2, <1>4, <1>5

\* The pages that the loops map, and the calls they make for them.
LEMMA LoopPages ==
  ASSUME machine \in Machines
  PROVE  /\ \A j \in 0 .. StackPages - 1 :
              /\ machine.rsp - j \in VirtualPages \cap Mappable \cap StackOf(machine)
              /\ RequestFor(machine.rsp - j) =
                   Request(machine.rsp - j, machine.rsp - Hhdm - j, TRUE, TRUE, TRUE, FALSE)
         /\ \A va \in StackOf(machine) :
              va \in VirtualPages /\ \E j \in 0 .. StackPages - 1 : va = machine.rsp - j
         /\ \A k \in 1 .. Len(machine.map) : IsScreen(k) =>
              \A j \in 0 .. machine.map[k].length - 1 :
                LET f == machine.map[k].base + j
                IN  /\ Hhdm + f \in VirtualPages \cap Mappable
                    /\ RequestFor(Hhdm + f) = Request(Hhdm + f, f, FALSE, TRUE, TRUE, TRUE)
         /\ \A k \in 1 .. Len(machine.map) :
              /\ machine.map[k].length \in Nat
              /\ \A f \in PagesOf(machine.map[k]) :
                   \E j \in 0 .. machine.map[k].length - 1 : f = machine.map[k].base + j
         /\ \A j \in 0 .. machine.kernel_pages :
              /\ KernelVma + j \in VirtualPages \cap Mappable
              /\ RequestFor(KernelVma + j) =
                   Request(KernelVma + j, machine.physical_base + j, TRUE, TRUE, FALSE, FALSE)
         /\ \A f \in UsablePages(machine.map) :
              /\ Hhdm + f \in VirtualPages \cap Mappable
              /\ RequestFor(Hhdm + f) = Request(Hhdm + f, f, TRUE, TRUE, TRUE, FALSE)
<1>1. ASSUME NEW j \in 0 .. StackPages - 1
      PROVE  /\ machine.rsp - j \in VirtualPages \cap Mappable \cap StackOf(machine)
             /\ RequestFor(machine.rsp - j) =
                  Request(machine.rsp - j, machine.rsp - Hhdm - j, TRUE, TRUE, TRUE, FALSE)
  <2>1. machine.rsp - j \in VirtualPages \cap Mappable \cap StackOf(machine)
    BY LayoutFacts DEF Mappable, StackOf
  <2>2. OnScreen(machine.rsp - j) = FALSE
    BY <2>1, MemoryFacts DEF OnScreen
  <2>3. machine.rsp - j < KernelVma /\ (machine.rsp - j) - Hhdm = machine.rsp - Hhdm - j
    BY LayoutFacts
  <2>4. QED
    BY <2>1, <2>2, <2>3 DEF RequestFor
<1>2. ASSUME NEW va \in StackOf(machine)
      PROVE  va \in VirtualPages /\ \E j \in 0 .. StackPages - 1 : va = machine.rsp - j
  <2>1. machine.rsp - va \in 0 .. StackPages - 1 /\ va = machine.rsp - (machine.rsp - va)
    BY LayoutFacts DEF StackOf
  <2>2. QED
    BY <1>1, <2>1
<1>3. ASSUME NEW k \in 1 .. Len(machine.map)
      PROVE  /\ machine.map[k].length \in Nat
             /\ \A f \in PagesOf(machine.map[k]) :
                  \E j \in 0 .. machine.map[k].length - 1 : f = machine.map[k].base + j
  <2>1. machine.map[k].base \in Nat /\ machine.map[k].length \in Nat
    BY MemoryFacts
  <2>2. ASSUME NEW f \in PagesOf(machine.map[k])
        PROVE  \E j \in 0 .. machine.map[k].length - 1 : f = machine.map[k].base + j
    <3>1. /\ f - machine.map[k].base \in 0 .. machine.map[k].length - 1
          /\ f = machine.map[k].base + (f - machine.map[k].base)
      BY <2>1 DEF PagesOf, EntryEnd
    <3>2. QED
      BY <3>1
  <2>3. QED
    BY <2>1, <2>2
<1>4. ASSUME NEW f \in Nat, Hhdm + f < KernelVma
      PROVE  /\ Hhdm + f \in VirtualPages \cap Mappable
             /\ (Hhdm + f) - Hhdm = f
  BY <1>4, LayoutFacts DEF Mappable
<1>5. ASSUME NEW k \in 1 .. Len(machine.map), IsScreen(k),
             NEW j \in 0 .. machine.map[k].length - 1
      PROVE  LET f == machine.map[k].base + j
             IN  /\ Hhdm + f \in VirtualPages \cap Mappable
                 /\ RequestFor(Hhdm + f) = Request(Hhdm + f, f, FALSE, TRUE, TRUE, TRUE)
  <2> DEFINE f == machine.map[k].base + j
  <2>1. machine.map[k].base \in Nat /\ machine.map[k].length \in Nat
    BY MemoryFacts
  <2>2. f \in PagesOf(machine.map[k])
    BY <2>1 DEF PagesOf, EntryEnd
  <2>3. f \in FramebufferPages(machine)
    BY <1>5, <2>2 DEF FramebufferPages, IsScreen
  <2>4. OnScreen(Hhdm + f) = TRUE
    BY <2>3 DEF OnScreen
  <2>5. f \in Nat /\ Hhdm + f < KernelVma
    BY <2>3, MemoryFacts
  <2> HIDE DEF f
  <2>6. /\ Hhdm + f \in VirtualPages \cap Mappable
        /\ RequestFor(Hhdm + f) = Request(Hhdm + f, f, FALSE, TRUE, TRUE, TRUE)
    BY <1>4, <2>4, <2>5 DEF RequestFor
  <2>7. QED
    BY <2>6 DEF f
<1>6. ASSUME NEW j \in 0 .. machine.kernel_pages
      PROVE  /\ KernelVma + j \in VirtualPages \cap Mappable
             /\ RequestFor(KernelVma + j) =
                  Request(KernelVma + j, machine.physical_base + j, TRUE, TRUE, FALSE, FALSE)
  <2>1. Hhdm <= KernelVma
    BY LayoutFacts
  <2>2. KernelVma + j \in VirtualPages \cap Mappable
    BY <2>1, LayoutFacts DEF Mappable
  <2>3. ~(KernelVma + j < KernelVma) /\ (KernelVma + j) - KernelVma = j
    BY LayoutFacts
  <2>4. QED
    BY <2>2, <2>3 DEF RequestFor
<1>7. ASSUME NEW f \in UsablePages(machine.map)
      PROVE  /\ Hhdm + f \in VirtualPages \cap Mappable
             /\ RequestFor(Hhdm + f) = Request(Hhdm + f, f, TRUE, TRUE, TRUE, FALSE)
  <2>1. f \in Nat /\ Hhdm + f < KernelVma /\ f \notin FramebufferPages(machine)
    BY MemoryFacts
  <2>2. OnScreen(Hhdm + f) = FALSE
    BY <2>1, LayoutFacts, MemoryFacts DEF OnScreen
  <2>3. QED
    BY <1>4, <2>1, <2>2 DEF RequestFor
<1>8. QED
  BY <1>1, <1>2, <1>3, <1>5, <1>6, <1>7

\* The loops have got as far as before if no page is lost.
LEMMA LoopsKept ==
  ASSUME IndInv, UNCHANGED <<machine, progress>>,
         \A va \in VirtualPages : Have(va) => Have(va)'
  PROVE  (StackSoFar /\ ScreenSoFar /\ ImageSoFar)'
<1>1. /\ TypeOK /\ Stages /\ StackSoFar /\ ScreenSoFar /\ ImageSoFar
      /\ UNCHANGED machine /\ UNCHANGED pc /\ UNCHANGED entry /\ UNCHANGED done
      /\ machine \in Machines
  BY DEF IndInv, progress, TypeOK
<1>2. StackSoFar'
  <2>1. CASE pc = "stack"
    <3>1. ASSUME NEW j \in 0 .. done - 1 PROVE Have(machine.rsp - j)'
      <4>1. j \in 0 .. StackPages - 1
        BY <1>1, <2>1, LayoutFacts DEF StackSoFar, TypeOK
      <4>2. Have(machine.rsp - j) /\ machine.rsp - j \in VirtualPages
        BY <1>1, <2>1, <4>1, LoopPages DEF StackSoFar
      <4>3. QED
        BY <1>1, <4>2
    <3>2. QED
      BY <1>1, <2>1, <3>1 DEF StackSoFar
  <2>2. CASE pc \in {"framebuffer", "kernel", "done"}
    <3>1. \A va \in StackOf(machine) : va \in VirtualPages
      BY <1>1, LoopPages
    <3>2. QED
      BY <1>1, <2>2, <3>1 DEF StackSoFar, StackOf
  <2>3. QED
    BY <1>1, <2>1, <2>2 DEF StackSoFar
<1>3. \A k \in 1 .. Len(machine.map) :
        IsScreen(k) <=> machine.map[k].type = "framebuffer"
  BY DEF IsScreen
<1>4. ASSUME pc = "framebuffer", NEW k \in 1 .. Len(machine.map), k < entry, IsScreen(k),
             NEW f \in PagesOf(machine.map[k])
      PROVE  Have(Hhdm + f)'
  <2>1. Have(Hhdm + f)
    BY <1>1, <1>4 DEF ScreenSoFar
  <2>2. Hhdm + f \in VirtualPages
    BY <1>1, <1>4, LoopPages
  <2>3. QED
    BY <2>1, <2>2
<1>5. ASSUME pc = "framebuffer", NEW k \in 1 .. Len(machine.map), k = entry,
             NEW j \in 0 .. done - 1
      PROVE  Have(Hhdm + machine.map[k].base + j)'
  <2>1. IsScreen(k) /\ j \in 0 .. machine.map[k].length - 1
    BY <1>1, <1>5, LoopPages DEF ScreenSoFar, TypeOK
  <2>2. Have(Hhdm + machine.map[k].base + j)
    BY <1>1, <1>5 DEF ScreenSoFar
  <2>3. Hhdm + machine.map[k].base + j \in VirtualPages
    <3>1. Hhdm + (machine.map[k].base + j) \in VirtualPages
      BY <1>1, <2>1, LoopPages
    <3>2. Hhdm + (machine.map[k].base + j) = Hhdm + machine.map[k].base + j
      BY <1>1, <2>1, LayoutFacts, MemoryFacts
    <3>3. QED
      BY <3>1, <3>2
  <2>4. QED
    BY <2>2, <2>3
<1>6. ASSUME pc \in {"kernel", "done"}, NEW f \in FramebufferPages(machine)
      PROVE  Have(Hhdm + f)'
  <2>1. PICK k \in 1 .. Len(machine.map) :
          IsScreen(k) /\ f \in PagesOf(machine.map[k])
    BY <1>3 DEF FramebufferPages
  <2>2. Hhdm + f \in VirtualPages
    BY <1>1, <2>1, LoopPages
  <2>3. QED
    BY <1>1, <1>6, <2>2 DEF ScreenSoFar
<1>7. ScreenSoFar'
  BY <1>1, <1>4, <1>5, <1>6 DEF ScreenSoFar, IsScreen, FramebufferPages, PagesOf, EntryEnd
<1>8. ASSUME pc \in {"kernel", "done"}, NEW j \in Nat, j <= machine.kernel_pages,
             pc = "kernel" => j < done
      PROVE  Have(KernelVma + j)'
  <2>1. Have(KernelVma + j)
    BY <1>1, <1>8, LayoutFacts DEF ImageSoFar, TypeOK
  <2>2. KernelVma + j \in VirtualPages
    BY <1>1, <1>8, LoopPages, LayoutFacts
  <2>3. QED
    BY <2>1, <2>2
<1>9. ImageSoFar'
  BY <1>1, <1>8, LayoutFacts DEF ImageSoFar, TypeOK
<1>10. QED
  BY <1>2, <1>7, <1>9

-----------------------------------------------------------------------------
(* Invariance *)

\* A call for page va begins: its walk starts at the root.
LEMMA NewCall ==
  ASSUME IndInv, level = 0, pml4 # 0, UNCHANGED <<machine, tables, pml4, owned>>,
         NEW va \in Mappable, Calls(RequestFor(va))
  PROVE  /\ WalkOnPath' /\ Have(va)'
         /\ \A vb \in VirtualPages : Have(vb) => Have(vb)'
         /\ level' \in 0 .. 4 /\ table' \in owned'
<1>1. level' = 4 /\ table' = pml4 /\ call' = RequestFor(va)
  BY DEF Calls
<1>2. RequestFor(va).va = va
  BY DEF RequestFor, Request
<1>3. call'.va = va
  BY <1>1, <1>2
<1>4. RequestFor(va)' = RequestFor(va)
  <2>1. OnScreen(va)' = OnScreen(va)
    BY DEF OnScreen, FramebufferPages
  <2>2. QED
    BY <2>1 DEF RequestFor
<1>5. va \in Mappable'
  BY DEF Mappable
<1>6. WalkOnPath'
  BY <1>1, <1>3, <1>4, <1>5 DEF WalkOnPath
<1>7. Have(va)'
  BY <1>1, <1>3 DEF Have
<1>8. ASSUME NEW vb \in VirtualPages, Have(vb) PROVE Have(vb)'
  <2>1. vb \in Nat
    BY VirtualPagesDown DEF VirtualPages
  <2>2. Mapped(vb)' <=> Mapped(vb)
    BY <2>1, SameTables
  <2>3. QED
    BY <1>8, <2>2 DEF Have
<1>9. table' \in owned'
  BY <1>1 DEF IndInv, TypeOK
<1>10. QED
  BY <1>1, <1>6, <1>7, <1>8, <1>9

\* No call is in progress and none begins.
LEMMA NoNewCall ==
  ASSUME IndInv, level = 0, UNCHANGED <<machine, walk, tables, pml4, owned>>
  PROVE  /\ WalkOnPath'
         /\ \A vb \in VirtualPages : Have(vb) => Have(vb)'
<1>1. level' = 0
  BY DEF walk
<1>2. ASSUME NEW vb \in VirtualPages, Have(vb) PROVE Have(vb)'
  <2>1. vb \in Nat
    BY VirtualPagesDown DEF VirtualPages
  <2>2. Mapped(vb)' <=> Mapped(vb)
    BY <2>1, SameTables
  <2>3. QED
    BY <1>2, <2>2 DEF Have
<1>3. QED
  BY <1>1, <1>2 DEF WalkOnPath

\* TypeOK in a step that leaves the tables alone.
LEMMA TypeKept ==
  ASSUME TypeOK, UNCHANGED <<machine, tables, pml4, free, owned>>,
         pc' \in {"self", "stack", "framebuffer", "kernel", "done", "halted"},
         entry' \in Nat, done' \in Nat, level' \in 0 .. 4, cr3' \in {0, pml4},
         table' \in owned \cup {0}, level' > 0 => table' \in owned
  PROVE  TypeOK'
  BY DEF TypeOK, Indices, PageEntry

LEMMA FinishedSteps ==
  ASSUME IndInv
  PROVE  /\ Stages /\ TypeOK /\ machine \in Machines
         /\ pc \in {"self", "stack", "framebuffer", "kernel"} => pml4 # 0 /\ cr3 = 0
         /\ pc = "done" => pml4 # 0
  BY DEF IndInv, TypeOK, Stages

LEMMA AllocPml4Keeps == IndInv /\ AllocPml4 => IndInv'
<1> SUFFICES ASSUME IndInv, AllocPml4 PROVE IndInv'
  OBVIOUS
<1>1. /\ TypeOK /\ Stages /\ WalkOnPath /\ PagesAsRequested
  BY DEF IndInv
<1>2. /\ pc = "pml4" /\ pc' = "self"
      /\ UNCHANGED <<machine, entry, done, walk, cr3>>
      /\ pml4 = 0 /\ level = 0 /\ owned = {} /\ cr3 = 0 /\ entry = 1 /\ done = 0
  BY <1>1 DEF AllocPml4, Stages
<1>3. PICK f \in free :
        /\ Supply!Alloc(f) /\ pml4' = f /\ tables' = [g \in {f} |-> ZeroedTable]
  BY DEF AllocPml4
<1>4. owned' = {f} /\ free' = free \ {f}
  BY <1>2, <1>3 DEF Supply!Alloc
<1>5. f \in UsablePages(machine.map) /\ f \in Nat /\ f # 0
  <2>1. f \in UsablePages(machine.map) /\ machine \in Machines
    BY <1>1 DEF TypeOK
  <2>2. QED
    BY <2>1, MemoryFacts
<1>6. tables'[f] = ZeroedTable /\ \A k \in Indices : tables'[f][k] = NoEntry
  BY <1>3 DEF ZeroedTable
<1>7. ~NoEntry.present /\ NoEntry \in PageEntry
  BY DEF NoEntry, PageEntry
<1>8. TypeOK'
  <2>1. ZeroedTable \in [Indices -> PageEntry]
    BY <1>7 DEF ZeroedTable
  <2>2. tables' \in [owned' -> [Indices -> PageEntry]] /\ DOMAIN tables' = owned'
    BY <1>3, <1>4, <2>1
  <2>3. UNCHANGED machine /\ UNCHANGED entry /\ UNCHANGED done
        /\ level' = 0 /\ table' = table /\ cr3' = 0 /\ table = 0
    BY <1>1, <1>2 DEF walk, TypeOK
  <2>4. QED
    BY <1>1, <1>2, <1>3, <1>4, <1>5, <2>2, <2>3 DEF TypeOK, Indices, PageEntry
<1>9. IsFiniteSet(owned)'
  BY <1>4, FS_Singleton
<1>10. AbsentClear'
  BY <1>4, <1>6 DEF AbsentClear, Indices
<1>11. Stages'
  BY <1>2, <1>3, <1>5 DEF Stages, walk
<1>12. Tree'
  <2>1. \A s : (s \subseteq {f}) => Below(tables', s) = {}
    <3>1. ASSUME NEW s, s \subseteq {f}, NEW x \in Below(tables', s) PROVE FALSE
      BY <1>6, <1>7, <3>1, BelowMember
    <3>2. QED
      BY <3>1
  <2>2. Tables4' = {f} /\ Tables3' = {} /\ Tables2' = {} /\ Tables1' = {} /\ Upper' = {f}
    BY <1>3, <2>1 DEF Tables4, Tables3, Tables2, Tables1, Upper
  <2>3. \A k \in Indices : ~tables'[f][k].present
    BY <1>6, <1>7
  <2>4. LevelsApart'
    BY <2>2 DEF LevelsApart
  <2>5. PointersDiffer' /\ PointersOpen'
    BY <2>2, <2>3 DEF PointersDiffer, PointersOpen, Indices
  <2>6. QED
    BY <1>4, <2>2, <2>4, <2>5 DEF Tree
<1>13. WalkOnPath'
  BY <1>2 DEF WalkOnPath, walk
<1>14. PagesAsRequested'
  <2>1. ASSUME NEW va \in VirtualPages PROVE ~Mapped(va)'
    <3>1. Index(va, 4) \in Indices
      BY IndexType DEF VirtualPages
    <3>2. E4(va)' = tables'[f][Index(va, 4)]
      BY <1>3 DEF E4, Index, Reach
    <3>3. QED
      BY <1>6, <1>7, <3>1, <3>2 DEF Mapped
  <2>2. QED
    BY <2>1 DEF PagesAsRequested, VirtualPages, Reach
<1>15. (StackSoFar /\ ScreenSoFar /\ ImageSoFar)'
  BY <1>2 DEF StackSoFar, ScreenSoFar, ImageSoFar
<1>16. QED
  BY <1>8, <1>9, <1>10, <1>11, <1>12, <1>13, <1>14, <1>15 DEF IndInv

LEMMA MapSelfKeeps == IndInv /\ MapSelf => IndInv'
<1> SUFFICES ASSUME IndInv, MapSelf PROVE IndInv'
  OBVIOUS
<1>1. TypeOK /\ Stages /\ machine \in Machines
  BY FinishedSteps
<1>2. /\ pc = "self" /\ pc' = "stack"
      /\ UNCHANGED <<machine, entry, done, tables, pml4, cr3, free, owned>>
      /\ pml4 # 0 /\ level = 0 /\ cr3 = 0 /\ entry = 1 /\ done = 0
      /\ Calls(Request(pml4 + Hhdm, pml4, TRUE, TRUE, TRUE, FALSE))
  BY <1>1 DEF MapSelf, Stages
<1>3. /\ Hhdm + pml4 \in Mappable
      /\ Calls(RequestFor(Hhdm + pml4))
  <2>1. pml4 \in UsablePages(machine.map)
    BY <1>1, <1>2 DEF TypeOK
  <2>2. pml4 + Hhdm = Hhdm + pml4
    BY <1>1, <2>1, MemoryFacts, LayoutFacts
  <2>3. QED
    BY <1>1, <1>2, <2>1, <2>2, LoopPages
<1>4. /\ WalkOnPath' /\ level' \in 0 .. 4 /\ table' \in owned'
  BY <1>2, <1>3, NewCall
<1>5. TypeOK'
  BY <1>1, <1>2, <1>4, TypeKept DEF TypeOK
<1>6. Stages'
  BY <1>2 DEF Stages
<1>7. (StackSoFar /\ ScreenSoFar /\ ImageSoFar)'
  BY <1>1, <1>2, LayoutFacts DEF StackSoFar, ScreenSoFar, ImageSoFar
<1>8. QED
  BY <1>2, <1>4, <1>5, <1>6, <1>7, SameTables DEF IndInv

LEMMA MapStackPageKeeps == IndInv /\ MapStackPage => IndInv'
<1> SUFFICES ASSUME IndInv, MapStackPage PROVE IndInv'
  OBVIOUS
<1>1. TypeOK /\ Stages /\ machine \in Machines /\ StackSoFar
  BY FinishedSteps DEF IndInv
<1>2. /\ pc = "stack" /\ level = 0 /\ done < StackPages /\ done' = done + 1
      /\ UNCHANGED <<machine, pc, entry, tables, pml4, cr3, free, owned>>
      /\ pml4 # 0 /\ cr3 = 0 /\ done \in Nat
      /\ Calls(Request(machine.rsp - done, machine.rsp - Hhdm - done, TRUE, TRUE, TRUE, FALSE))
  BY <1>1, FinishedSteps DEF MapStackPage, TypeOK
<1>3. done \in 0 .. StackPages - 1
  BY <1>1, <1>2, LayoutFacts
<1>4. PICK va \in Mappable : va = machine.rsp - done /\ Calls(RequestFor(va))
  BY <1>1, <1>2, <1>3, LoopPages
<1>5. /\ WalkOnPath' /\ level' \in 0 .. 4 /\ table' \in owned'
      /\ Have(va)'
      /\ \A vb \in VirtualPages : Have(vb) => Have(vb)'
  BY <1>2, <1>4, NewCall
<1>6. TypeOK'
  BY <1>1, <1>2, <1>5, TypeKept DEF TypeOK
<1>7. Stages'
  BY <1>1, <1>2 DEF Stages
<1>8. StackSoFar'
  <2>1. ASSUME NEW j \in 0 .. done' - 1 PROVE Have(machine.rsp - j)'
    <3>1. CASE j = done
      BY <1>2, <1>4, <1>5, <3>1
    <3>2. CASE j # done
      <4>1. j \in 0 .. done - 1 /\ j \in 0 .. StackPages - 1
        BY <1>2, <1>3, <2>1, <3>2, LayoutFacts, <1>1
      <4>2. machine.rsp - j \in VirtualPages /\ Have(machine.rsp - j)
        BY <1>1, <1>2, <4>1, LoopPages DEF StackSoFar
      <4>3. QED
        BY <1>2, <1>5, <4>2
    <3>3. QED
      BY <3>1, <3>2
  <2>2. done' <= StackPages
    BY <1>1, <1>2, LayoutFacts
  <2>3. QED
    BY <1>2, <2>1, <2>2 DEF StackSoFar
<1>9. (ScreenSoFar /\ ImageSoFar)'
  BY <1>2 DEF ScreenSoFar, ImageSoFar
<1>10. QED
  BY <1>2, <1>5, <1>6, <1>7, <1>8, <1>9, SameTables DEF IndInv

LEMMA EndStackKeeps == IndInv /\ EndStack => IndInv'
<1> SUFFICES ASSUME IndInv, EndStack PROVE IndInv'
  OBVIOUS
<1>1. TypeOK /\ Stages /\ machine \in Machines /\ StackSoFar
  BY FinishedSteps DEF IndInv
<1>2. /\ pc = "stack" /\ level = 0 /\ done = StackPages /\ done' = 0
      /\ pc' = "framebuffer" /\ entry = 1
      /\ UNCHANGED <<machine, entry, walk, tables, pml4, cr3, free, owned>>
      /\ pml4 # 0 /\ cr3 = 0
  BY <1>1, FinishedSteps DEF EndStack, Stages
<1>3. /\ WalkOnPath' /\ level' = 0 /\ table' = table /\ call' = call
      /\ \A vb \in VirtualPages : Have(vb) => Have(vb)'
  BY <1>2, NoNewCall DEF walk
<1>4. TypeOK'
  BY <1>1, <1>2, <1>3, TypeKept DEF TypeOK
<1>5. Stages'
  BY <1>1, <1>2, <1>3 DEF Stages
<1>6. StackSoFar'
  <2>1. ASSUME NEW va \in StackOf(machine) PROVE Have(va)'
    <3>1. PICK j \in 0 .. StackPages - 1 : va = machine.rsp - j
      BY <1>1, LoopPages
    <3>2. va \in VirtualPages /\ Have(va)
      BY <1>1, <1>2, <3>1, LoopPages DEF StackSoFar
    <3>3. QED
      BY <1>3, <3>2
  <2>2. QED
    BY <1>2, <2>1 DEF StackSoFar, StackOf
<1>7. ScreenSoFar'
  <2>1. Len(machine.map) \in Nat
        /\ \A k \in 1 .. Len(machine.map) : machine.map[k].length \in Nat
    BY <1>1, MemoryFacts
  <2>2. QED
    BY <1>2, <2>1 DEF ScreenSoFar, IsScreen
<1>8. ImageSoFar'
  BY <1>2 DEF ImageSoFar
<1>9. QED
  BY <1>2, <1>3, <1>4, <1>5, <1>6, <1>7, <1>8, SameTables DEF IndInv

\* The stack, once mapped, stays mapped.
LEMMA StackStays ==
  ASSUME IndInv, pc \in {"framebuffer", "kernel"},
         pc' \in {"framebuffer", "kernel", "done"}, machine' = machine,
         \A vb \in VirtualPages : Have(vb) => Have(vb)'
  PROVE  StackSoFar'
<1>1. StackSoFar /\ machine \in Machines
  BY FinishedSteps DEF IndInv
<1>2. ASSUME NEW va \in StackOf(machine) PROVE Have(va)'
  BY <1>1, <1>2, LoopPages DEF StackSoFar
<1>3. QED
  BY <1>2 DEF StackSoFar, StackOf

\* So do the entries of framebuffers that are done.
LEMMA ScreensStay ==
  ASSUME IndInv, pc = "framebuffer", machine' = machine,
         \A vb \in VirtualPages : Have(vb) => Have(vb)',
         NEW k \in 1 .. Len(machine.map), k < entry, IsScreen(k),
         NEW f \in PagesOf(machine.map[k])
  PROVE  Have(Hhdm + f)'
<1>1. ScreenSoFar /\ machine \in Machines
  BY FinishedSteps DEF IndInv
<1>2. Hhdm + f \in VirtualPages /\ Have(Hhdm + f)
  BY <1>1, LoopPages DEF ScreenSoFar
<1>3. QED
  BY <1>2

LEMMA MapFramebufferPageKeeps == IndInv /\ MapFramebufferPage => IndInv'
<1> SUFFICES ASSUME IndInv, MapFramebufferPage PROVE IndInv'
  OBVIOUS
<1>1. TypeOK /\ Stages /\ machine \in Machines /\ ScreenSoFar
  BY FinishedSteps DEF IndInv
<1> DEFINE e == machine.map[entry]
<1>2. /\ pc = "framebuffer" /\ level = 0 /\ done < e.length /\ done' = done + 1
      /\ entry <= Len(machine.map) /\ e.type = "framebuffer"
      /\ UNCHANGED <<machine, pc, entry, tables, pml4, cr3, free, owned>>
      /\ pml4 # 0 /\ cr3 = 0 /\ done \in Nat
      /\ Calls(Request(e.base + Hhdm + done, e.base + done, FALSE, TRUE, TRUE, TRUE))
  BY <1>1, FinishedSteps DEF MapFramebufferPage, TypeOK
<1>3. /\ entry \in 1 .. Len(machine.map) /\ IsScreen(entry)
      /\ e.base \in Nat /\ e.length \in Nat /\ done \in 0 .. e.length - 1
  <2>1. entry \in 1 .. Len(machine.map) /\ IsScreen(entry)
    BY <1>1, <1>2, MemoryFacts DEF ScreenSoFar, IsScreen
  <2>2. QED
    BY <1>1, <1>2, <2>1, MemoryFacts
<1>4. PICK va \in Mappable : va = Hhdm + (e.base + done) /\ Calls(RequestFor(va))
  <2>1. e.base + Hhdm + done = Hhdm + (e.base + done)
    BY <1>1, <1>3, LayoutFacts
  <2>2. /\ Hhdm + (e.base + done) \in Mappable
        /\ RequestFor(Hhdm + (e.base + done)) =
             Request(Hhdm + (e.base + done), e.base + done, FALSE, TRUE, TRUE, TRUE)
    BY <1>1, <1>3, LoopPages
  <2>3. QED
    BY <1>2, <2>1, <2>2
<1>5. /\ WalkOnPath' /\ level' \in 0 .. 4 /\ table' \in owned'
      /\ Have(va)'
      /\ \A vb \in VirtualPages : Have(vb) => Have(vb)'
  BY <1>2, <1>4, NewCall
<1>6. TypeOK'
  BY <1>1, <1>2, <1>5, TypeKept DEF TypeOK
<1>7. Stages'
  BY <1>1, <1>2 DEF Stages
<1>8. StackSoFar'
  BY <1>2, <1>5, StackStays
<1>9. ScreenSoFar'
  <2>1. ASSUME NEW j \in 0 .. done' - 1, NEW vb, vb = Hhdm + machine.map[entry].base + j
        PROVE  Have(vb)'
    <3>1. CASE j = done
      BY <1>1, <1>3, <1>4, <1>5, <2>1, <3>1, LayoutFacts
    <3>2. CASE j # done
      <4>1. j \in 0 .. done - 1 /\ j \in 0 .. e.length - 1
        BY <1>2, <1>3, <2>1, <3>2
      <4>2. Have(vb)
        BY <1>1, <1>2, <1>3, <2>1, <4>1 DEF ScreenSoFar
      <4>3. vb = Hhdm + (e.base + j)
        BY <1>1, <1>3, <2>1, <4>1, LayoutFacts
      <4>4. vb \in VirtualPages
        BY <1>1, <1>3, <4>1, <4>3, LoopPages
      <4>5. QED
        BY <1>5, <4>2, <4>4
    <3>3. QED
      BY <3>1, <3>2
  <2>2. done' <= machine.map[entry].length
    BY <1>2, <1>3
  <2>3. ASSUME NEW k \in 1 .. Len(machine.map), k < entry, IsScreen(k),
               NEW f \in PagesOf(machine.map[k])
        PROVE  Have(Hhdm + f)'
    BY <1>2, <1>5, <2>3, ScreensStay
  <2>4. \A j \in 0 .. done' - 1 : Have(Hhdm + machine.map[entry].base + j)'
    BY <1>2, <2>1
  <2>5. \A k \in 1 .. Len(machine.map) : IsScreen(k)' <=> IsScreen(k)
    BY <1>2 DEF IsScreen
  <2>6. ASSUME NEW k \in 1 .. Len(machine.map), k = entry
        PROVE  /\ IsScreen(k)' /\ done' <= machine'.map[k].length
               /\ \A j \in 0 .. done' - 1 : Have(Hhdm + machine.map[k].base + j)'
    BY <1>2, <1>3, <2>2, <2>4, <2>5, <2>6
  <2>7. entry' \in 1 .. Len(machine'.map) + 1
    BY <1>1, <1>2, <1>3, MemoryFacts
  <2>8. QED
    BY <1>2, <2>3, <2>5, <2>6, <2>7 DEF ScreenSoFar, PagesOf, EntryEnd
<1>10. ImageSoFar'
  BY <1>2 DEF ImageSoFar
<1>11. QED
  BY <1>2, <1>5, <1>6, <1>7, <1>8, <1>9, <1>10, SameTables DEF IndInv

LEMMA NextEntryKeeps == IndInv /\ NextEntry => IndInv'
<1> SUFFICES ASSUME IndInv, NextEntry PROVE IndInv'
  OBVIOUS
<1>1. TypeOK /\ Stages /\ machine \in Machines /\ ScreenSoFar
  BY FinishedSteps DEF IndInv
<1>2. /\ pc = "framebuffer" /\ level = 0 /\ entry <= Len(machine.map)
      /\ machine.map[entry].type # "framebuffer" \/ done = machine.map[entry].length
      /\ entry' = entry + 1 /\ done' = 0
      /\ UNCHANGED <<machine, pc, walk, tables, pml4, cr3, free, owned>>
      /\ pml4 # 0 /\ cr3 = 0
  BY <1>1, FinishedSteps DEF NextEntry
<1>3. /\ WalkOnPath' /\ level' = 0 /\ table' = table /\ call' = call
      /\ \A vb \in VirtualPages : Have(vb) => Have(vb)'
  BY <1>2, NoNewCall DEF walk
<1>4. entry \in 1 .. Len(machine.map) /\ Len(machine.map) \in Nat
  BY <1>1, <1>2, MemoryFacts DEF ScreenSoFar
<1>5. TypeOK'
  BY <1>1, <1>2, <1>3, <1>4, TypeKept DEF TypeOK
<1>6. Stages'
  BY <1>1, <1>2, <1>3 DEF Stages
<1>7. StackSoFar'
  BY <1>2, <1>3, StackStays
<1>8. ScreenSoFar'
  <2>1. ASSUME NEW k \in 1 .. Len(machine.map), k < entry', IsScreen(k),
               NEW f \in PagesOf(machine.map[k])
        PROVE  Have(Hhdm + f)'
    <3>1. CASE k < entry
      BY <1>2, <1>3, <2>1, <3>1, ScreensStay
    <3>2. CASE k = entry
      <4>1. PICK j \in 0 .. machine.map[k].length - 1 : f = machine.map[k].base + j
        BY <1>1, LoopPages
      <4>2. done = machine.map[k].length /\ machine.map[k].base \in Nat /\ j \in Nat
        BY <1>1, <1>2, <2>1, <3>2, MemoryFacts DEF IsScreen
      <4>3. Have(Hhdm + machine.map[k].base + j)
        BY <1>1, <1>2, <3>2, <4>1, <4>2 DEF ScreenSoFar
      <4>4. Hhdm + machine.map[k].base + j = Hhdm + f
        BY <1>1, <4>1, <4>2, LayoutFacts
      <4>5. Hhdm + f \in VirtualPages
        BY <1>1, <2>1, <4>1, LoopPages
      <4>6. QED
        BY <1>3, <4>3, <4>4, <4>5
    <3>3. QED
      BY <1>2, <1>4, <2>1, <3>1, <3>2
  <2>2. \A k \in 1 .. Len(machine.map) :
          (IsScreen(k)' <=> IsScreen(k)) /\ machine.map[k].length \in Nat
    BY <1>1, <1>2, MemoryFacts DEF IsScreen
  <2>3. entry' \in 1 .. Len(machine.map) + 1
    BY <1>2, <1>4
  <2>4. QED
    BY <1>2, <2>1, <2>2, <2>3 DEF ScreenSoFar, PagesOf, EntryEnd
<1>9. ImageSoFar'
  BY <1>2 DEF ImageSoFar
<1>10. QED
  BY <1>2, <1>3, <1>5, <1>6, <1>7, <1>8, <1>9, SameTables DEF IndInv

LEMMA EndFramebufferKeeps == IndInv /\ EndFramebuffer => IndInv'
<1> SUFFICES ASSUME IndInv, EndFramebuffer PROVE IndInv'
  OBVIOUS
<1>1. TypeOK /\ Stages /\ machine \in Machines /\ ScreenSoFar
  BY FinishedSteps DEF IndInv
<1>2. /\ pc = "framebuffer" /\ level = 0 /\ entry = Len(machine.map) + 1
      /\ pc' = "kernel" /\ done' = 0
      /\ UNCHANGED <<machine, entry, walk, tables, pml4, cr3, free, owned>>
      /\ pml4 # 0 /\ cr3 = 0
  BY <1>1, FinishedSteps DEF EndFramebuffer
<1>3. /\ WalkOnPath' /\ level' = 0 /\ table' = table /\ call' = call
      /\ \A vb \in VirtualPages : Have(vb) => Have(vb)'
  BY <1>2, NoNewCall DEF walk
<1>4. TypeOK'
  BY <1>1, <1>2, <1>3, TypeKept DEF TypeOK
<1>5. Stages'
  BY <1>1, <1>2, <1>3 DEF Stages
<1>6. StackSoFar'
  BY <1>2, <1>3, StackStays
<1>7. ScreenSoFar'
  <2>1. ASSUME NEW f \in FramebufferPages(machine) PROVE Have(Hhdm + f)'
    <3>1. PICK k \in 1 .. Len(machine.map) : IsScreen(k) /\ f \in PagesOf(machine.map[k])
      BY DEF FramebufferPages, IsScreen
    <3>2. k < entry
      BY <1>1, <1>2, MemoryFacts
    <3>3. QED
      BY <1>2, <1>3, <3>1, <3>2, ScreensStay
  <2>2. QED
    BY <1>2, <2>1 DEF ScreenSoFar, FramebufferPages
<1>8. ImageSoFar'
  <2>1. machine.kernel_pages \in Nat
    BY <1>1, LayoutFacts
  <2>2. QED
    BY <1>2, <2>1 DEF ImageSoFar
<1>9. QED
  BY <1>2, <1>3, <1>4, <1>5, <1>6, <1>7, <1>8, SameTables DEF IndInv

\* All framebuffers stay mapped.
LEMMA ScreenStays ==
  ASSUME IndInv, pc = "kernel", pc' \in {"kernel", "done"}, machine' = machine,
         \A vb \in VirtualPages : Have(vb) => Have(vb)'
  PROVE  ScreenSoFar'
<1>1. ScreenSoFar /\ machine \in Machines
  BY FinishedSteps DEF IndInv
<1>2. ASSUME NEW f \in FramebufferPages(machine) PROVE Have(Hhdm + f)'
  <2>1. PICK k \in 1 .. Len(machine.map) : IsScreen(k) /\ f \in PagesOf(machine.map[k])
    BY DEF FramebufferPages, IsScreen
  <2>2. Hhdm + f \in VirtualPages
    BY <1>1, <2>1, LoopPages
  <2>3. QED
    BY <1>1, <1>2, <2>2 DEF ScreenSoFar
<1>3. QED
  BY <1>2 DEF ScreenSoFar, FramebufferPages

LEMMA MapKernelPageKeeps == IndInv /\ MapKernelPage => IndInv'
<1> SUFFICES ASSUME IndInv, MapKernelPage PROVE IndInv'
  OBVIOUS
<1>1. TypeOK /\ Stages /\ machine \in Machines /\ ImageSoFar
  BY FinishedSteps DEF IndInv
<1>2. /\ pc = "kernel" /\ level = 0 /\ KernelLeft /\ done' = done + 1
      /\ UNCHANGED <<machine, pc, entry, tables, pml4, cr3, free, owned>>
      /\ pml4 # 0 /\ cr3 = 0 /\ done \in Nat
      /\ Calls(Request(KernelVma + done, machine.physical_base + done, TRUE, TRUE, FALSE, FALSE))
  BY <1>1, FinishedSteps DEF MapKernelPage, TypeOK
<1>3. done \in 0 .. machine.kernel_pages
  BY <1>1, <1>2, LayoutFacts DEF KernelLeft
<1>4. PICK va \in Mappable : va = KernelVma + done /\ Calls(RequestFor(va))
  BY <1>1, <1>2, <1>3, LoopPages
<1>5. /\ WalkOnPath' /\ level' \in 0 .. 4 /\ table' \in owned'
      /\ Have(va)'
      /\ \A vb \in VirtualPages : Have(vb) => Have(vb)'
  BY <1>2, <1>4, NewCall
<1>6. TypeOK'
  BY <1>1, <1>2, <1>5, TypeKept DEF TypeOK
<1>7. Stages'
  BY <1>1, <1>2 DEF Stages
<1>8. StackSoFar'
  BY <1>2, <1>5, StackStays
<1>9. ScreenSoFar'
  BY <1>2, <1>5, ScreenStays
<1>10. ImageSoFar'
  <2>1. ASSUME NEW j \in 0 .. done' - 1, NEW vb, vb = KernelVma + j PROVE Have(vb)'
    <3>1. CASE j = done
      BY <1>4, <1>5, <2>1, <3>1
    <3>2. CASE j # done
      <4>1. j \in 0 .. done - 1 /\ j \in 0 .. machine.kernel_pages
        BY <1>1, <1>2, <1>3, <2>1, <3>2, LayoutFacts
      <4>2. vb \in VirtualPages /\ Have(vb)
        BY <1>1, <1>2, <2>1, <4>1, LoopPages DEF ImageSoFar
      <4>3. QED
        BY <1>5, <4>2
    <3>3. QED
      BY <3>1, <3>2
  <2>2. done' <= machine.kernel_pages + 1
    BY <1>1, <1>2, <1>3, LayoutFacts
  <2>3. QED
    BY <1>2, <2>1, <2>2 DEF ImageSoFar
<1>11. QED
  BY <1>2, <1>5, <1>6, <1>7, <1>8, <1>9, <1>10, SameTables DEF IndInv

LEMMA LoadCr3Keeps == IndInv /\ LoadCr3 => IndInv'
<1> SUFFICES ASSUME IndInv, LoadCr3 PROVE IndInv'
  OBVIOUS
<1>1. TypeOK /\ Stages /\ machine \in Machines /\ ImageSoFar
  BY FinishedSteps DEF IndInv
<1>2. /\ pc = "kernel" /\ level = 0 /\ ~KernelLeft /\ cr3' = pml4 /\ pc' = "done"
      /\ UNCHANGED <<machine, entry, done, walk, tables, pml4, free, owned>>
      /\ pml4 # 0 /\ cr3 = 0 /\ done \in Nat
  BY <1>1, FinishedSteps DEF LoadCr3, TypeOK
<1>3. /\ WalkOnPath' /\ level' = 0 /\ table' = table /\ call' = call
      /\ \A vb \in VirtualPages : Have(vb) => Have(vb)'
  BY <1>2, NoNewCall DEF walk
<1>4. TypeOK'
  BY <1>1, <1>2, <1>3, TypeKept DEF TypeOK
<1>5. Stages'
  BY <1>1, <1>2, <1>3 DEF Stages
<1>6. StackSoFar'
  BY <1>2, <1>3, StackStays
<1>7. ScreenSoFar'
  BY <1>2, <1>3, ScreenStays
<1>8. ImageSoFar'
  <2>1. done > machine.kernel_pages
    BY <1>1, <1>2, LayoutFacts DEF KernelLeft
  <2>2. ASSUME NEW j \in 0 .. machine.kernel_pages PROVE Have(KernelVma + j)'
    <3>1. KernelVma + j \in VirtualPages
      BY <1>1, LoopPages
    <3>2. j \in 0 .. done - 1
      BY <1>1, <1>2, <2>1, LayoutFacts
    <3>3. Have(KernelVma + j)
      BY <1>1, <1>2, <3>2 DEF ImageSoFar
    <3>4. QED
      BY <1>3, <3>1, <3>3
  <2>3. QED
    BY <1>2, <2>2 DEF ImageSoFar
<1>9. QED
  BY <1>2, <1>3, <1>4, <1>5, <1>6, <1>7, <1>8, SameTables DEF IndInv

\* The path of the page being mapped is as it was when the tables are.
LEMMA SamePath ==
  ASSUME IndInv, UNCHANGED <<machine, tables, pml4, owned, call>>
  PROVE  /\ call' = call /\ E4(call.va)' = E4(call.va) /\ E3(call.va)' = E3(call.va)
         /\ E2(call.va)' = E2(call.va)
         /\ (call.va \in Mappable)' <=> call.va \in Mappable
         /\ RequestFor(call.va)' = RequestFor(call.va)
<1>1. /\ E4(call.va)' = E4(call.va) /\ E3(call.va)' = E3(call.va)
      /\ E2(call.va)' = E2(call.va)
  BY DEF E4, E3, E2, Index, Reach
<1>2. OnScreen(call.va)' = OnScreen(call.va)
  BY DEF OnScreen, FramebufferPages
<1>3. QED
  BY <1>1, <1>2 DEF RequestFor, Mappable

LEMMA StutterKeeps == IndInv /\ UNCHANGED vars => IndInv'
<1> SUFFICES ASSUME IndInv, UNCHANGED vars PROVE IndInv'
  OBVIOUS
<1>1. /\ UNCHANGED <<machine, progress, pc, entry, done>>
      /\ UNCHANGED <<walk, call, level, table>>
      /\ UNCHANGED <<machine, tables, pml4, owned>> /\ UNCHANGED <<cr3, free>>
  BY DEF vars, progress, walk
<1>2. TypeOK /\ Stages /\ WalkOnPath
  BY DEF IndInv
<1>3. TypeOK'
  BY <1>1, <1>2 DEF TypeOK, Indices, PageEntry
<1>4. Stages'
  BY <1>1, <1>2 DEF Stages
<1>5. WalkOnPath'
  BY <1>1, <1>2, SamePath DEF WalkOnPath
<1>6. ASSUME NEW va \in VirtualPages, Have(va) PROVE Have(va)'
  <2>1. va \in Nat
    BY DEF VirtualPages
  <2>2. QED
    BY <1>1, <1>6, <2>1, SameTables DEF Have
<1>7. QED
  BY <1>1, <1>3, <1>4, <1>5, <1>6, SameTables, LoopsKept DEF IndInv

LEMMA AllocFailsKeeps == IndInv /\ AllocFails => IndInv'
<1> SUFFICES ASSUME IndInv, AllocFails PROVE IndInv'
  OBVIOUS
<1>1. TypeOK /\ Stages /\ WalkOnPath
  BY DEF IndInv
<1>2. /\ pc = "pml4" \/ level > 1
      /\ pc' = "halted" /\ UNCHANGED <<machine, entry, done, walk, tables, pml4, cr3>>
      /\ UNCHANGED <<free, owned>> /\ UNCHANGED <<call, level, table>>
  BY DEF AllocFails, Supply!Halt, walk
<1>3. cr3 = 0
  BY <1>1, <1>2 DEF Stages, TypeOK
<1>4. TypeOK'
  BY <1>1, <1>2, TypeKept DEF TypeOK
<1>5. Stages'
  BY <1>1, <1>2, <1>3 DEF Stages
<1>6. WalkOnPath'
  BY <1>1, <1>2, SamePath DEF WalkOnPath
<1>7. (StackSoFar /\ ScreenSoFar /\ ImageSoFar)'
  BY <1>2 DEF StackSoFar, ScreenSoFar, ImageSoFar
<1>8. QED
  BY <1>2, <1>4, <1>5, <1>6, <1>7, SameTables DEF IndInv

\* The walk goes down to a table that is there: the 40 bits of the pointer
\* are enough for its frame.
LEMMA DescendFacts ==
  ASSUME IndInv, Descend
  PROVE  /\ level \in 2 .. 4 /\ level' = level - 1
         /\ Current.present /\ table' = Current.frame /\ table' \in owned
         /\ UNCHANGED <<machine, progress, call, tables, pml4, cr3, free, owned>>
<1>1. TypeOK
  BY DEF IndInv
<1>2. /\ level > 1 /\ level' = level - 1 /\ Current.present
      /\ table' = Current.frame % PointerReach
      /\ UNCHANGED <<machine, progress, call, tables, pml4, cr3, free, owned>>
  BY DEF Descend
<1>3. level \in 2 .. 4
  BY <1>1, <1>2 DEF TypeOK
<1>4. /\ Tree /\ table \in Upper /\ Index(call.va, level) \in Indices
  BY <1>3, WalkFacts DEF Upper
<1>5. Current.frame \in owned
  BY <1>2, <1>4, LevelsOwned DEF Current
<1>6. Current.frame \in Nat /\ Current.frame < PointerReach
  BY <1>1, <1>5, MemoryFacts DEF TypeOK
<1>7. Current.frame % PointerReach = Current.frame
  BY <1>6, LayoutAssumption
<1>8. QED
  BY <1>2, <1>3, <1>5, <1>7

LEMMA DescendKeeps == IndInv /\ Descend => IndInv'
<1> SUFFICES ASSUME IndInv, Descend PROVE IndInv'
  OBVIOUS
<1>1. TypeOK /\ Stages /\ WalkOnPath
  BY DEF IndInv
<1>2. /\ level \in 2 .. 4 /\ level' = level - 1
      /\ Current.present /\ table' = Current.frame /\ table' \in owned
      /\ UNCHANGED <<machine, progress, call, tables, pml4, cr3, free, owned>>
      /\ UNCHANGED <<pc, entry, done>>
  BY DescendFacts DEF progress
<1>3. TypeOK'
  BY <1>1, <1>2 DEF TypeOK, Indices, PageEntry
<1>4. Stages'
  BY <1>1, <1>2 DEF Stages
<1>5. WalkOnPath'
  <2>1. /\ level = 4 => Current = E4(call.va)
        /\ level = 3 => Current = E3(call.va)
        /\ level = 2 => Current = E2(call.va)
    <3>1. /\ level = 4 => table = pml4
          /\ level = 3 => table = E4(call.va).frame
          /\ level = 2 => table = E3(call.va).frame
      BY <1>1, <1>2 DEF WalkOnPath
    <3>2. Current = tables[table][Index(call.va, level)]
      BY DEF Current
    <3>3. /\ E4(call.va) = tables[pml4][Index(call.va, 4)]
          /\ E3(call.va) = tables[E4(call.va).frame][Index(call.va, 3)]
          /\ E2(call.va) = tables[E3(call.va).frame][Index(call.va, 2)]
      BY DEF E4, E3, E2
    <3>4. QED
      BY <3>1, <3>2, <3>3
  <2>2. call.va \in Mappable /\ call = RequestFor(call.va)
    BY <1>1, <1>2 DEF WalkOnPath
  <2>3. CASE level = 4
    BY <1>1, <1>2, <2>1, <2>2, <2>3, SamePath DEF WalkOnPath
  <2>4. CASE level = 3
    BY <1>1, <1>2, <2>1, <2>2, <2>4, SamePath DEF WalkOnPath
  <2>5. CASE level = 2
    BY <1>1, <1>2, <2>1, <2>2, <2>5, SamePath DEF WalkOnPath
  <2>6. QED
    BY <1>2, <2>3, <2>4, <2>5
<1>6. ASSUME NEW va \in VirtualPages, Have(va) PROVE Have(va)'
  <2>1. va \in Nat
    BY DEF VirtualPages
  <2>2. QED
    BY <1>2, <1>6, <2>1, SameTables DEF Have
<1>7. QED
  BY <1>2, <1>3, <1>4, <1>5, <1>6, SameTables, LoopsKept DEF IndInv

LEMMA AddTableKeeps == IndInv /\ AddTable => IndInv'
<1> SUFFICES ASSUME IndInv, AddTable PROVE IndInv'
  OBVIOUS
<1>1. TypeOK /\ Stages /\ WalkOnPath /\ PagesAsRequested /\ IsFiniteSet(owned)
  BY DEF IndInv
<1>2. /\ level \in 2 .. 4 /\ level' = level - 1 /\ level > 0
      /\ tables[table][Index(call.va, level)] = NoEntry
      /\ tables' \in [owned' -> [Indices -> PageEntry]]
      /\ UNCHANGED <<machine, progress, call, pml4, cr3>> /\ UNCHANGED <<pc, entry, done>>
  BY AddTableFacts DEF progress
<1>3. PICK f \in free : /\ Adds(f) /\ table' = f /\ free' = free \ {f}
                        /\ f \in UsablePages(machine.map)
  BY AddTableFacts
<1>4. owned' = owned \cup {f} /\ f # 0
  BY <1>3 DEF Adds
<1>5. TypeOK'
  BY <1>1, <1>2, <1>3, <1>4 DEF TypeOK, Indices, PageEntry
<1>6. IsFiniteSet(owned)'
  BY <1>1, <1>4, FS_AddElement
<1>7. Stages'
  BY <1>1, <1>2 DEF Stages
<1>8. Tree' /\ AbsentClear'
  BY <1>2, <1>3, AddedTree
<1>9. WalkOnPath'
  <2>1. PICK va \in Nat : va = call.va
    BY <1>2, WalkFacts
  <2>2. va \in Mappable /\ call = RequestFor(va)
    BY <1>1, <1>2, <2>1 DEF WalkOnPath
  <2>3. Mappable' = Mappable /\ RequestFor(va)' = RequestFor(va)
    <3>1. OnScreen(va)' = OnScreen(va)
      BY <1>2 DEF OnScreen, FramebufferPages
    <3>2. QED
      BY <1>2, <3>1 DEF RequestFor, Mappable
  <2>4. /\ E4(va)'.present
        /\ level = 4 => E4(va)'.frame = f
        /\ level < 4 => E3(va)'.present
        /\ level = 3 => E3(va)'.frame = f
        /\ level < 3 => E2(va)'.present /\ E2(va)'.frame = f
    BY <1>2, <1>3, <2>1, AddedWalk
  <2>5. QED
    BY <1>2, <1>3, <2>1, <2>2, <2>3, <2>4 DEF WalkOnPath
<1>10. ASSUME NEW va \in VirtualPages
       PROVE  /\ va \in Nat /\ (Mapped(va)' <=> Mapped(va))
              /\ Mapped(va) => E1(va)' = E1(va)
  <2>1. va \in Nat
    BY DEF VirtualPages
  <2>2. QED
    BY <1>2, <1>3, <2>1, AddedPaths
<1>11. PagesAsRequested'
  <2>1. ASSUME NEW va \in VirtualPages, Mapped(va)'
        PROVE  va \in Mappable' /\ E1(va)' = PageFor(NoEntry, RequestFor(va)')
    <3>1. va \in Mappable /\ E1(va) = PageFor(NoEntry, RequestFor(va)) /\ E1(va)' = E1(va)
      BY <1>1, <1>10, <2>1 DEF PagesAsRequested
    <3>2. OnScreen(va)' = OnScreen(va)
      BY <1>2 DEF OnScreen, FramebufferPages
    <3>3. Mappable' = Mappable /\ RequestFor(va)' = RequestFor(va)
      BY <1>2, <3>2 DEF RequestFor, Mappable
    <3>4. QED
      BY <3>1, <3>3
  <2>2. QED
    BY <2>1 DEF PagesAsRequested, VirtualPages, Reach, PageFor, NoEntry
<1>12. \A va \in VirtualPages : Have(va) => Have(va)'
  BY <1>2, <1>10 DEF Have
<1>13. (StackSoFar /\ ScreenSoFar /\ ImageSoFar)'
  BY <1>2, <1>12, LoopsKept
<1>14. QED
  BY <1>5, <1>6, <1>7, <1>8, <1>9, <1>11, <1>13 DEF IndInv

LEMMA WritePageKeeps == IndInv /\ WritePage => IndInv'
<1> SUFFICES ASSUME IndInv, WritePage PROVE IndInv'
  OBVIOUS
<1>1. TypeOK /\ Stages /\ WalkOnPath /\ PagesAsRequested /\ IsFiniteSet(owned)
  BY DEF IndInv
<1>2. /\ level = 1 /\ level' = 0 /\ table' = 0 /\ Writes
      /\ UNCHANGED <<machine, progress, pml4, cr3, free, owned>>
      /\ UNCHANGED <<pc, entry, done>>
  BY WritePageFacts DEF progress
<1>3. TypeOK'
  BY <1>1, <1>2 DEF TypeOK, Writes, Indices, PageEntry
<1>4. IsFiniteSet(owned)'
  BY <1>1, <1>2
<1>5. Stages'
  BY <1>1, <1>2 DEF Stages
<1>6. Tree' /\ AbsentClear'
  BY <1>2, WrittenTree
<1>7. WalkOnPath'
  BY <1>2 DEF WalkOnPath
<1>8. PagesAsRequested'
  <2>1. ASSUME NEW va \in VirtualPages, Mapped(va)'
        PROVE  va \in Mappable' /\ E1(va)' = PageFor(NoEntry, RequestFor(va)')
    <3>1. OnScreen(va)' = OnScreen(va)
      BY <1>2 DEF OnScreen, FramebufferPages
    <3>2. Mappable' = Mappable /\ RequestFor(va)' = RequestFor(va)
      BY <1>2, <3>1 DEF RequestFor, Mappable
    <3>3. CASE va = call.va
      <4>1. E1(va)' = PageFor(NoEntry, RequestFor(va))
        BY <1>2, <3>3, WrittenPaths
      <4>2. va \in Mappable
        BY <1>1, <1>2, <3>3 DEF WalkOnPath
      <4>3. QED
        BY <3>2, <4>1, <4>2
    <3>4. CASE va # call.va
      <4>1. Mapped(va) /\ E1(va)' = E1(va)
        BY <1>2, <2>1, <3>4, WrittenPaths
      <4>2. QED
        BY <1>1, <3>2, <4>1 DEF PagesAsRequested
    <3>5. QED
      BY <3>3, <3>4
  <2>2. QED
    BY <2>1 DEF PagesAsRequested, VirtualPages, Reach, PageFor, NoEntry
<1>9. \A va \in VirtualPages : Have(va) => Have(va)'
  BY <1>2, WrittenPaths DEF Have
<1>10. (StackSoFar /\ ScreenSoFar /\ ImageSoFar)'
  BY <1>2, <1>9, LoopsKept
<1>11. QED
  BY <1>3, <1>4, <1>5, <1>6, <1>7, <1>8, <1>10 DEF IndInv

\* The invariant holds at the start, and in every step.
LEMMA InitHolds == Init => IndInv
<1> SUFFICES ASSUME Init PROVE IndInv
  OBVIOUS
<1>1. TypeOK /\ Stages
  BY DEF Init, TypeOK, Stages
<1>2. IsFiniteSet(owned)
  BY FS_EmptySet DEF Init
<1>3. AbsentClear /\ WalkOnPath /\ PagesAsRequested /\ pml4 = 0
  BY DEF Init, AbsentClear, WalkOnPath, PagesAsRequested, Mapped
<1>4. StackSoFar /\ ScreenSoFar /\ ImageSoFar
  BY DEF Init, StackSoFar, ScreenSoFar, ImageSoFar
<1>5. QED
  BY <1>1, <1>2, <1>3, <1>4 DEF IndInv

LEMMA NextKeeps == IndInv /\ [Next]_vars => IndInv'
  BY AllocPml4Keeps, MapSelfKeeps, MapStackPageKeeps, EndStackKeeps,
     MapFramebufferPageKeeps, NextEntryKeeps, EndFramebufferKeeps, MapKernelPageKeeps,
     LoadCr3Keeps, DescendKeeps, AddTableKeeps, WritePageKeeps, AllocFailsKeeps,
     StutterKeeps
  DEF Next, InitializePaging, MapPage, Stopped

(* After every turn of a loop of initialize_paging or map_page the tables  *)
(* are a tree, the walk is on a path of it, and everything mapped so far   *)
(* is what was requested.                                                  *)
THEOREM Invariance == Spec => []IndInv
  BY InitHolds, NextKeeps, PTL DEF Spec

-----------------------------------------------------------------------------
(* What the tables say *)

\* What the processor makes of the entries on the path of a page.
LEMMA Translated ==
  ASSUME IndInv, NEW va \in VirtualPages, Mapped(va)
  PROVE  /\ Translate(va) = Translation(E1(va).frame, E1(va).rw, FALSE, E1(va).nx)
         /\ va \in Mappable /\ E1(va) = PageFor(NoEntry, RequestFor(va))
         /\ E1(va).frame = RequestFor(va).pa /\ E1(va).rw = RequestFor(va).writable
         /\ E1(va).nx = RequestFor(va).no_execute /\ E1(va).pwt = RequestFor(va).writethru
         /\ E1(va).frame \in Nat
<1>1. /\ va \in Mappable /\ E1(va) = PageFor(NoEntry, RequestFor(va))
      /\ TypeOK /\ Tree /\ pml4 # 0 /\ machine \in Machines
      /\ E4(va).present /\ E3(va).present /\ E2(va).present
  BY DEF IndInv, PagesAsRequested, Mapped, TypeOK
<1>2. E1(va) \in PageEntry
  BY <1>1, PageForType
<1>3. /\ E1(va).frame = RequestFor(va).pa /\ E1(va).rw = RequestFor(va).writable
      /\ E1(va).nx = RequestFor(va).no_execute /\ E1(va).pwt = RequestFor(va).writethru
  BY <1>1 DEF PageFor, NoEntry
<1>4. /\ E4(va).rw /\ E3(va).rw /\ E2(va).rw
      /\ ~E4(va).us /\ ~E3(va).us /\ ~E2(va).us
      /\ ~E4(va).nx /\ ~E3(va).nx /\ ~E2(va).nx
  <2>1. va \in Nat
    BY DEF VirtualPages
  <2>2. /\ pml4 \in Upper /\ E4(va).frame \in Upper /\ E3(va).frame \in Upper
    BY <1>1, <2>1, PathLevels DEF Upper, Tables4
  <2>3. Index(va, 4) \in Indices /\ Index(va, 3) \in Indices /\ Index(va, 2) \in Indices
    BY <2>1, IndexType
  <2>4. PointersOpen
    BY <1>1 DEF Tree
  <2>5. E4(va).rw /\ ~E4(va).us /\ ~E4(va).nx
    BY <1>1, <2>2, <2>3, <2>4 DEF PointersOpen, E4
  <2>6. E3(va).rw /\ ~E3(va).us /\ ~E3(va).nx
    BY <1>1, <2>2, <2>3, <2>4 DEF PointersOpen, E3
  <2>7. E2(va).rw /\ ~E2(va).us /\ ~E2(va).nx
    BY <1>1, <2>2, <2>3, <2>4 DEF PointersOpen, E2
  <2>8. QED
    BY <2>5, <2>6, <2>7
<1>5. /\ (\A e \in {E4(va), E3(va), E2(va), E1(va)} : e.rw) = E1(va).rw
      /\ (\A e \in {E4(va), E3(va), E2(va), E1(va)} : e.us) = FALSE
      /\ (\E e \in {E4(va), E3(va), E2(va), E1(va)} : e.nx) = E1(va).nx
  <2>1. E1(va).rw \in BOOLEAN /\ E1(va).nx \in BOOLEAN
    BY <1>2 DEF PageEntry
  <2>2. QED
    BY <1>4, <2>1
<1>6. QED
  BY <1>1, <1>2, <1>3, <1>5 DEF Translate, PageEntry

\* The members of the call for a page.
LEMMA RequestMembers ==
  ASSUME machine \in Machines, NEW va \in Mappable
  PROVE  /\ va < KernelVma =>
              RequestFor(va).pa = va - Hhdm /\ RequestFor(va).no_execute = TRUE
         /\ ~(va < KernelVma) =>
              /\ RequestFor(va).pa = machine.physical_base + (va - KernelVma)
              /\ RequestFor(va).no_execute = FALSE
         /\ RequestFor(va).writable = TRUE
         /\ RequestFor(va).writethru = OnScreen(va)
         /\ OnScreen(va) => va < KernelVma
<1>1. OnScreen(va) \in BOOLEAN /\ va \in Int /\ KernelVma \in Int
  BY LayoutFacts DEF OnScreen, Mappable
<1>2. OnScreen(va) => va < KernelVma
  BY MemoryFacts DEF OnScreen
<1>3. ASSUME va < KernelVma
      PROVE  /\ RequestFor(va).pa = va - Hhdm /\ RequestFor(va).writable = TRUE
             /\ RequestFor(va).no_execute = TRUE
             /\ RequestFor(va).writethru = OnScreen(va)
  BY <1>1, <1>3 DEF RequestFor, Request
<1>4. ASSUME ~(va < KernelVma)
      PROVE  /\ RequestFor(va).pa = machine.physical_base + (va - KernelVma)
             /\ RequestFor(va).writable = TRUE
             /\ RequestFor(va).no_execute = FALSE /\ RequestFor(va).writethru = FALSE
  BY <1>1, <1>4 DEF RequestFor, Request
<1>5. RequestFor(va).writable = TRUE
  BY <1>3, <1>4
<1>6. RequestFor(va).writethru = OnScreen(va)
  BY <1>1, <1>2, <1>3, <1>4
<1>7. QED
  BY <1>2, <1>3, <1>4, <1>5, <1>6

LEMMA InvSupervisorOnly == IndInv => SupervisorOnly
  BY Translated DEF SupervisorOnly, Translation

LEMMA InvDirectMapKept == IndInv => DirectMapKept
<1> SUFFICES ASSUME IndInv, NEW va \in VirtualPages, Mapped(va)
             PROVE  IF va < KernelVma THEN Translate(va).frame = va - Hhdm
                    ELSE /\ va <= KernelVma + machine.kernel_pages
                         /\ Translate(va).frame = machine.physical_base + (va - KernelVma)
  BY DEF DirectMapKept
<1>1. machine \in Machines
  BY DEF IndInv, TypeOK
<1>2. va \in Mappable /\ Translate(va).frame = RequestFor(va).pa
  BY Translated DEF Translation
<1>3. va <= KernelVma + machine.kernel_pages
  BY <1>1, <1>2, LayoutFacts DEF Mappable
<1>4. QED
  BY <1>1, <1>2, <1>3, RequestMembers

LEMMA InvFramebufferWrittenThrough == IndInv => FramebufferWrittenThrough
<1> SUFFICES ASSUME IndInv, NEW va \in VirtualPages, Mapped(va)
             PROVE  E1(va).pwt <=> OnScreen(va)
  BY DEF FramebufferWrittenThrough, OnScreen
<1>1. machine \in Machines
  BY DEF IndInv, TypeOK
<1>2. QED
  BY <1>1, Translated, RequestMembers

LEMMA InvTablesFormTree == IndInv => TablesFormTree
<1> SUFFICES ASSUME IndInv, pml4 # 0
             PROVE  LET l4 == {pml4}
                        l3 == PointedBy(l4)
                        l2 == PointedBy(l3)
                        l1 == PointedBy(l2)
                    IN  /\ owned = l4 \cup l3 \cup l2 \cup l1
                        /\ Cardinality(owned) = 1 + Cardinality(Pointers(l4 \cup l3 \cup l2))
  BY DEF TablesFormTree
<1>1. Tree /\ IsFiniteSet(owned)
  BY DEF IndInv
<1>2. \A s : PointedBy(s) = Below(tables, s)
  BY DEF PointedBy, Pointers, Below
<1> DEFINE P == Pointers(Upper)
           T == owned \ {pml4}
           F == [p \in P |-> tables[p[1]][p[2]].frame]
<1>3. \A p : p \in P <=> p \in Upper \X Indices /\ tables[p[1]][p[2]].present
  BY DEF Pointers
<1>4. T = Tables3 \cup Tables2 \cup Tables1
  BY <1>1 DEF Tree, LevelsApart, Tables4
<1>5. ASSUME NEW p \in P
      PROVE  /\ p[1] \in Upper /\ p[2] \in Indices /\ p = <<p[1], p[2]>>
             /\ tables[p[1]][p[2]].present
             /\ tables[p[1]][p[2]].frame \in T
  <2>1. /\ p[1] \in Upper /\ p[2] \in Indices /\ p = <<p[1], p[2]>>
        /\ tables[p[1]][p[2]].present
    BY <1>3
  <2>2. tables[p[1]][p[2]].frame \in Tables3 \cup Tables2 \cup Tables1
    BY <2>1, BelowMember DEF Upper, Tables3, Tables2, Tables1
  <2>3. QED
    BY <1>4, <2>1, <2>2
<1>6. F \in [P -> T]
  BY <1>5
<1>7. ASSUME NEW p \in P, NEW q \in P, F[p] = F[q] PROVE p = q
  <2>1. tables[p[1]][p[2]].frame = tables[q[1]][q[2]].frame
    BY <1>7
  <2>2. p[1] = q[1] /\ p[2] = q[2]
    BY <1>1, <1>5, <2>1 DEF Tree, PointersDiffer
  <2>3. QED
    BY <1>5, <2>2
<1>8. ASSUME NEW x \in T PROVE \E p \in P : F[p] = x
  <2>1. PICK t \in Upper, k \in Indices : tables[t][k].present /\ x = tables[t][k].frame
    BY <1>4, BelowMember DEF Upper, Tables3, Tables2, Tables1
  <2>2. <<t, k>> \in P /\ F[<<t, k>>] = x
    BY <1>3, <2>1
  <2>3. QED
    BY <2>2
<1> HIDE DEF P, F, T
<1>9. F \in Injection(P, T)
  BY <1>6, <1>7, Fun_IsInj
<1>10. F \in Surjection(P, T)
  BY <1>6, <1>8, Fun_IsSurj
<1>11. IsFiniteSet(T) /\ Cardinality(T) = Cardinality(owned) - 1
  <2>1. pml4 \in owned
    BY <1>1 DEF Tree, Tables4
  <2>2. QED
    BY <1>1, <2>1, FS_RemoveElement DEF T
<1>12. Cardinality(P) = Cardinality(T)
  BY <1>9, <1>10, <1>11, FS_Injection
<1>13. Cardinality(owned) \in Nat
  BY <1>1, FS_CardinalityType
<1>14. Cardinality(owned) = 1 + Cardinality(Pointers(Upper))
  BY <1>11, <1>12, <1>13 DEF P
<1>15. QED
  BY <1>1, <1>2, <1>14 DEF Tree, Upper, Tables4, Tables3, Tables2, Tables1

-----------------------------------------------------------------------------
(* What the steps do to the translation *)

\* A page keeps its translation when its path is left alone.
LEMMA TranslationKept ==
  ASSUME NEW va, Mapped(va)' <=> Mapped(va),
         Mapped(va) => E4(va)' = E4(va) /\ E3(va)' = E3(va)
                       /\ E2(va)' = E2(va) /\ E1(va)' = E1(va)
  PROVE  Translate(va)' = Translate(va)
<1>1. CASE Mapped(va)
  BY <1>1 DEF Translate
<1>2. CASE ~Mapped(va)
  BY <1>2 DEF Translate
<1>3. QED
  BY <1>1, <1>2

\* Only WritePage changes a translation, of one page.
LEMMA TranslationsKept ==
  ASSUME IndInv, [Next]_vars, ~WritePage, NEW va \in VirtualPages
  PROVE  Translate(va)' = Translate(va)
<1>1. va \in Nat
  BY DEF VirtualPages
<1>2. ASSUME UNCHANGED <<machine, tables, pml4, owned>>
      PROVE  Translate(va)' = Translate(va)
  BY <1>1, <1>2, SameTables, TranslationKept
<1>3. CASE AddTable
  <2>1. /\ level \in 2 .. 4 /\ tables[table][Index(call.va, level)] = NoEntry
        /\ pml4' = pml4
    BY <1>3, AddTableFacts
  <2>2. PICK f \in free : Adds(f)
    BY <1>3, AddTableFacts
  <2>3. /\ Mapped(va) => E4(va)' = E4(va) /\ E3(va)' = E3(va)
                         /\ E2(va)' = E2(va) /\ E1(va)' = E1(va)
        /\ Mapped(va)' <=> Mapped(va)
    BY <1>1, <2>1, <2>2, AddedPaths DEF Mapped
  <2>4. QED
    BY <2>3, TranslationKept
<1>4. CASE AllocPml4
  <2>1. IndInv'
    BY <1>4, AllocPml4Keeps
  <2>2. PICK f \in free : pml4' = f /\ tables' = [g \in {f} |-> ZeroedTable]
    BY <1>4 DEF AllocPml4
  <2>3. ~E4(va)'.present
    <3>1. Index(va, 4) \in Indices
      BY <1>1, IndexType
    <3>2. E4(va)' = tables'[f][Index(va, 4)]
      BY <2>2 DEF E4, Index, Reach
    <3>3. QED
      BY <2>2, <3>1, <3>2 DEF ZeroedTable, NoEntry
  <2>4. pml4 = 0
    BY <1>4 DEF IndInv, Stages, AllocPml4
  <2>5. ~Mapped(va) /\ ~Mapped(va)'
    BY <2>3, <2>4 DEF Mapped
  <2>6. QED
    BY <2>5, TranslationKept
<1>5. CASE Next /\ ~AddTable /\ ~AllocPml4
  <2>1. UNCHANGED <<machine, tables, pml4, owned>>
    BY <1>5 DEF Next, InitializePaging, MapPage, MapSelf, MapStackPage, EndStack,
                MapFramebufferPage, NextEntry, EndFramebuffer, MapKernelPage, LoadCr3,
                AllocFails, Supply!Halt, Descend, Stopped, vars
  <2>2. QED
    BY <1>2, <2>1
<1>6. CASE UNCHANGED vars
  BY <1>2, <1>6 DEF vars
<1>7. QED
  BY <1>3, <1>4, <1>5, <1>6

AllTranslated ==
  \A va \in VirtualPages :
    Mapped(va) => /\ Translate(va) = Translation(E1(va).frame, E1(va).rw, FALSE, E1(va).nx)
                  /\ E1(va).frame \in Nat

LEMMA InvAllTranslated == IndInv => AllTranslated
  BY Translated DEF AllTranslated

LEMMA NextAllTranslated == IndInv' => AllTranslated'
  BY InvAllTranslated, PTL

\* WritePage gives the page of the call the translation asked for, and leaves
\* every other page as it was.
LEMMA TranslationWritten ==
  ASSUME IndInv, WritePage
  PROVE  /\ call.va \in VirtualPages
         /\ \A va \in VirtualPages : va # call.va => Translate(va)' = Translate(va)
         /\ \A va \in VirtualPages : va = call.va =>
              Translate(va)' = Translation(call.pa, call.writable, FALSE, call.no_execute)
         /\ call.pa \in Nat
<1>1. /\ level = 1 /\ level > 0 /\ Writes
      /\ UNCHANGED <<machine, progress, pml4, cr3, free, owned>>
  BY WritePageFacts
<1>2. call.va \in VirtualPages /\ WalkOnPath
  BY <1>1, WalkFacts DEF IndInv
<1>3. ASSUME NEW va \in VirtualPages, va # call.va
      PROVE  Translate(va)' = Translate(va)
  BY <1>1, <1>3, WrittenPaths, TranslationKept
<1>4. call = RequestFor(call.va)
  BY <1>1, <1>2 DEF WalkOnPath
<1>5. ASSUME NEW va \in VirtualPages, va = call.va
      PROVE  /\ Translate(va)' = Translation(call.pa, call.writable, FALSE, call.no_execute)
             /\ call.pa \in Nat
  <2>1. Mapped(va)' /\ IndInv'
    BY <1>1, <1>5, WrittenPaths, WritePageKeeps
  <2>2. VirtualPages' = VirtualPages
    BY DEF VirtualPages, Reach
  <2>3. /\ Translate(va)' = Translation(E1(va)'.frame, E1(va)'.rw, FALSE, E1(va)'.nx)
        /\ E1(va)'.frame \in Nat
    BY <2>1, <2>2, NextAllTranslated DEF AllTranslated, Translation
  <2>4. E1(va)' = PageFor(NoEntry, call)
    BY <1>1, <1>4, <1>5, WrittenPaths
  <2>5. /\ E1(va)'.frame = call.pa /\ E1(va)'.rw = call.writable
        /\ E1(va)'.nx = call.no_execute
    BY <2>4 DEF PageFor, NoEntry
  <2>6. QED
    BY <2>3, <2>5
<1>6. QED
  BY <1>2, <1>3, <1>5

-----------------------------------------------------------------------------
(* The tables implement AddressSpace *)

LEMMA SpaceInit == Init => Space!Init
<1> SUFFICES ASSUME Init PROVE Space!Init
  OBVIOUS
<1>1. \A va \in VirtualPages : Translate(va) = Unmapped
  BY DEF Init, Translate, Mapped
<1>2. (cr3 # 0) = FALSE
  BY DEF Init
<1>3. QED
  BY <1>1, <1>2 DEF Space!Init

\* When cr3 is loaded, everything that matters is in place.
LEMMA WantedInPlace ==
  ASSUME IndInv, LoadCr3
  PROVE  \A va \in DOMAIN Wanted(machine) :
           va \in VirtualPages /\ Translate(va) = Wanted(machine)[va]
<1>1. /\ pc = "kernel" /\ level = 0 /\ ~KernelLeft
      /\ machine \in Machines /\ done \in Nat /\ StackSoFar /\ ScreenSoFar /\ ImageSoFar
  BY DEF IndInv, TypeOK, LoadCr3
<1>2. \A va : Have(va) <=> Mapped(va)
  BY <1>1 DEF Have
<1> DEFINE Image == KernelVma .. KernelVma + machine.kernel_pages - 1
           Screen == {Hhdm + f : f \in FramebufferPages(machine)}
<1>3. ASSUME NEW va \in Image PROVE Mapped(va) /\ ~(va < KernelVma)
  <2>1. /\ va - KernelVma \in 0 .. done - 1 /\ KernelVma + (va - KernelVma) = va
        /\ ~(va < KernelVma)
    BY <1>1, LayoutFacts DEF KernelLeft
  <2>2. Have(KernelVma + (va - KernelVma))
    BY <1>1, <2>1 DEF ImageSoFar
  <2>3. QED
    BY <1>2, <2>1, <2>2
<1>4. ASSUME NEW va \in StackOf(machine) PROVE Mapped(va) /\ va < KernelVma
  BY <1>1, <1>2, LayoutFacts DEF StackSoFar, StackOf
<1>5. ASSUME NEW va \in Screen PROVE Mapped(va) /\ va < KernelVma
  BY <1>1, <1>2, MemoryFacts DEF ScreenSoFar
<1>6. /\ DOMAIN Wanted(machine) = Image \cup StackOf(machine) \cup Screen
      /\ \A va \in Image \cup StackOf(machine) \cup Screen :
           Wanted(machine)[va] =
             IF va >= KernelVma
             THEN Translation(machine.physical_base + (va - KernelVma), TRUE, FALSE, FALSE)
             ELSE Translation(va - Hhdm, TRUE, FALSE, TRUE)
  BY DEF Wanted
<1>7. ASSUME NEW va, va \in Image \cup StackOf(machine) \cup Screen
      PROVE  va \in VirtualPages /\ Translate(va) = Wanted(machine)[va]
  <2>1. va \in VirtualPages /\ Mapped(va)
    <3>0. va \in Image \/ va \in StackOf(machine) \/ va \in Screen
      BY <1>7
    <3>1. CASE va \in Image
      <4>1. va \in Hhdm .. KernelVma + machine.kernel_pages
        BY <1>1, <3>1, LayoutFacts
      <4>2. QED
        BY <1>1, <1>3, <3>1, <4>1, LayoutFacts
    <3>2. CASE va \in StackOf(machine)
      BY <1>1, <1>4, <3>2, LoopPages
    <3>3. CASE va \in Screen
      <4>1. va \in Hhdm .. KernelVma + machine.kernel_pages
        BY <1>1, <3>3, LayoutFacts, MemoryFacts
      <4>2. QED
        BY <1>1, <1>5, <3>3, <4>1, LayoutFacts
    <3>4. QED
      BY <3>0, <3>1, <3>2, <3>3
  <2>2. /\ Translate(va) = Translation(RequestFor(va).pa, TRUE, FALSE,
                                       RequestFor(va).no_execute)
        /\ va \in Mappable
    BY <1>1, <2>1, Translated, RequestMembers
  <2>3. CASE va < KernelVma
    <3>1. Wanted(machine)[va] = Translation(va - Hhdm, TRUE, FALSE, TRUE)
      <4>1. ~(va >= KernelVma)
        BY <1>1, <2>2, <2>3, LayoutFacts DEF Mappable
      <4>2. QED
        BY <1>6, <1>7, <4>1
    <3>2. QED
      BY <1>1, <2>1, <2>2, <2>3, <3>1, RequestMembers
  <2>4. CASE ~(va < KernelVma)
    <3>1. Wanted(machine)[va] =
            Translation(machine.physical_base + (va - KernelVma), TRUE, FALSE, FALSE)
      <4>1. va >= KernelVma
        BY <1>1, <2>2, <2>4, LayoutFacts DEF Mappable
      <4>2. QED
        BY <1>6, <1>7, <4>1
    <3>2. QED
      BY <1>1, <2>1, <2>2, <2>4, <3>1, RequestMembers
  <2>5. QED
    BY <2>3, <2>4
<1>8. QED
  BY <1>6, <1>7

LEMMA SpaceStep == IndInv /\ [Next]_vars => [Space!Next]_Space!vars
<1> SUFFICES ASSUME IndInv, [Next]_vars PROVE [Space!Next]_Space!vars
  OBVIOUS
<1> DEFINE sp == [va \in VirtualPages |-> Translate(va)]
<1>1. VirtualPages' = VirtualPages
  BY DEF VirtualPages, Reach
<1>2. sp' = [va \in VirtualPages |-> Translate(va)']
  BY <1>1
<1>3. machine' = machine
  BY DEF Next, InitializePaging, MapPage, AllocPml4, MapSelf, MapStackPage, EndStack,
         MapFramebufferPage, NextEntry, EndFramebuffer, MapKernelPage, LoadCr3,
         AllocFails, Descend, AddTable, WritePage, Stopped, vars
<1>4. Wanted(machine)' = Wanted(machine)
  BY <1>3
<1>5. CASE WritePage
  <2>1. /\ call.va \in VirtualPages
        /\ \A va \in VirtualPages : va # call.va => Translate(va)' = Translate(va)
        /\ \A va \in VirtualPages : va = call.va =>
             Translate(va)' = Translation(call.pa, call.writable, FALSE, call.no_execute)
        /\ call.pa \in Nat
    BY <1>5, TranslationWritten
  <2>2. cr3' = cr3 /\ cr3 = 0
    BY <1>5, WritePageFacts, WalkFacts
  <2>3. PICK vb \in VirtualPages : vb = call.va
    BY <2>1
  <2>4. \A va \in VirtualPages : va # vb => Translate(va)' = Translate(va)
    BY <2>1, <2>3
  <2>5. Translate(vb)' # Unmapped
    <3>1. Translate(vb)'.frame \in Nat
      BY <2>1, <2>3 DEF Translation
    <3>2. QED
      BY <3>1 DEF Unmapped
  <2>6. CASE Translate(vb)' = Translate(vb)
    <3>1. sp' = sp
      BY <1>2, <2>4, <2>6
    <3>2. QED
      BY <1>4, <2>2, <3>1 DEF Space!vars
  <2>7. CASE Translate(vb)' # Translate(vb)
    <3>1. sp'[vb] = Translate(vb)' /\ sp[vb] = Translate(vb)
      BY <1>2
    <3>2. sp' = [sp EXCEPT ![vb] = sp'[vb]]
      BY <1>2, <2>4, <3>1
    <3>3. Space!Map(vb)
      BY <1>4, <2>2, <2>5, <2>7, <3>1, <3>2 DEF Space!Map
    <3>4. QED
      BY <3>3 DEF Space!Next
  <2>8. QED
    BY <2>6, <2>7
<1>6. CASE ~WritePage
  <2>1. sp' = sp
    BY <1>2, <1>6, TranslationsKept
  <2>2. CASE LoadCr3
    <3>1. cr3 = 0 /\ cr3' # 0
      BY <2>2, FinishedSteps DEF LoadCr3
    <3>2. \A va \in DOMAIN Wanted(machine) : sp[va] = Wanted(machine)[va]
      BY <2>2, WantedInPlace
    <3>3. Space!Activate
      BY <1>4, <2>1, <3>1, <3>2 DEF Space!Activate
    <3>4. QED
      BY <3>3 DEF Space!Next
  <2>3. CASE ~LoadCr3
    <3>1. cr3' = cr3
      BY <1>6, <2>3 DEF Next, InitializePaging, MapPage, AllocPml4, MapSelf, MapStackPage,
         EndStack, MapFramebufferPage, NextEntry, EndFramebuffer, MapKernelPage,
         AllocFails, Descend, AddTable, Stopped, vars
    <3>2. QED
      BY <1>4, <2>1, <3>1 DEF Space!vars
  <2>4. QED
    BY <2>2, <2>3
<1>7. QED
  BY <1>5, <1>6

-----------------------------------------------------------------------------
(* Theorems.  Every machine with a legal memory map, every number of        *)
(* entries in a table, every choice of the boot loader.                     *)

(* Every variable keeps its type, and the tables are the frames handed out. *)
THEOREM TypeCorrectness == Spec => []TypeOK
  BY Invariance, PTL DEF IndInv

(* The frames handed out form a tree of four levels.                        *)
THEOREM TreeTheorem == Spec => []TablesFormTree
  BY Invariance, InvTablesFormTree, PTL

(* No page that is mapped is open to user mode.                             *)
THEOREM SupervisorTheorem == Spec => []SupervisorOnly
  BY Invariance, InvSupervisorOnly, PTL

(* What is mapped is where the direct map or the image has it.              *)
THEOREM DirectMapTheorem == Spec => []DirectMapKept
  BY Invariance, InvDirectMapKept, PTL

(* The framebuffer, and only the framebuffer, is written through.           *)
THEOREM FramebufferTheorem == Spec => []FramebufferWrittenThrough
  BY Invariance, InvFramebufferWrittenThrough, PTL

(* When map_page returns, its page is mapped as its caller asked.           *)
THEOREM MapPageTheorem == Spec => MapPageAsAsked
<1>1. IndInv /\ [Next]_vars => [\A c \in {call} : level = 1 => AsAsked(c)']_vars
  <2> SUFFICES ASSUME IndInv, [Next]_vars, level = 1, NEW c, c = call, ~UNCHANGED vars
               PROVE  AsAsked(c)'
    OBVIOUS
  <2>1. WritePage
    <3>1. pc # "pml4" /\ pc # "self"
      BY DEF IndInv, Stages
    <3>2. ~InitializePaging
      <4>1. ~AllocPml4 /\ ~MapSelf
        BY <3>1 DEF AllocPml4, MapSelf
      <4>2. ~MapStackPage /\ ~EndStack /\ ~MapFramebufferPage /\ ~NextEntry
        BY DEF MapStackPage, EndStack, MapFramebufferPage, NextEntry
      <4>3. ~EndFramebuffer /\ ~MapKernelPage /\ ~LoadCr3
        BY DEF EndFramebuffer, MapKernelPage, LoadCr3
      <4>4. QED
        BY <4>1, <4>2, <4>3 DEF InitializePaging
    <3>3. ~AllocFails /\ ~Stopped /\ ~Descend /\ ~AddTable
      BY <3>1 DEF AllocFails, Stopped, Descend, AddTable
    <3>4. QED
      BY <3>2, <3>3 DEF Next, MapPage
  <2>2. PICK va \in VirtualPages : va = c.va
    BY <2>1, TranslationWritten
  <2>3. Translate(va)' = Translation(c.pa, c.writable, FALSE, c.no_execute)
    BY <2>1, <2>2, TranslationWritten
  <2>4. QED
    BY <2>2, <2>3 DEF AsAsked, Translation
<1>2. QED
  BY <1>1, Invariance, PTL DEF Spec, MapPageAsAsked

(* initialize_paging and map_page implement AddressSpace.                   *)
THEOREM Refinement == Spec => SpaceSpec
  BY SpaceInit, SpaceStep, Invariance, PTL DEF Spec, SpaceSpec, Space!Spec
=============================================================================
