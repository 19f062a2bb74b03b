----------------------------- MODULE PhysMemProofs -----------------------------
(***************************************************************************)
(* Proofs about the physical allocator for every page size, every number   *)
(* of regions and every memory map whose entries the 32-bit casts of       *)
(* frame_alloc can address (Fits32).  The argument is the inductive        *)
(* invariants IndInv and AccountInv of PhysMemInv; each action has a lemma *)
(* of its own for each of them.                                            *)
(***************************************************************************)
EXTENDS PhysMemInv, TLAPS

-----------------------------------------------------------------------------
(* Arithmetic *)

\* Multiplication by a positive number can be cancelled.
LEMMA Cancel ==
  ASSUME NEW x \in Int, NEW y \in Int, NEW p \in Nat \ {0}, p * x < p * y
  PROVE  x < y
  OBVIOUS

\* Rounding up to whole pages gives the least number of pages that holds
\* the bytes, and every byte lies on one of them.
LEMMA RoundUp ==
  ASSUME NEW a \in Nat, NEW p \in Nat \ {0}
  PROVE  /\ (a + p - 1) \div p \in Nat
         /\ \A n \in Nat : n * p >= a => (a + p - 1) \div p <= n
         /\ \A b \in 0 .. a - 1 : b \div p \in 0 .. ((a + p - 1) \div p) - 1
<1> DEFINE q == (a + p - 1) \div p
           r == (a + p - 1) % p
<1>1. q \in Int /\ r \in 0 .. p - 1 /\ a + p - 1 = p * q + r
  OBVIOUS
<1>2. q \in Nat
  <2>1. p * (-1) < p * q
    BY <1>1
  <2>2. QED
    BY <1>1, <2>1, Cancel
<1>3. ASSUME NEW n \in Nat, n * p >= a PROVE q <= n
  <2>1. p * q < p * (n + 1)
    BY <1>1, <1>3
  <2>2. QED
    BY <1>1, <2>1, Cancel
<1>4. ASSUME NEW b \in 0 .. a - 1 PROVE b \div p \in 0 .. q - 1
  <2>1. /\ b \div p \in Int /\ b % p \in 0 .. p - 1
        /\ b = p * (b \div p) + (b % p)
    OBVIOUS
  <2>2. p * (-1) < p * (b \div p)
    BY <2>1
  <2>3. p * (b \div p) < p * q
    BY <1>1, <2>1
  <2>4. QED
    BY <1>1, <2>1, <2>2, <2>3, Cancel
<1>5. QED
  BY <1>2, <1>3, <1>4

\* Clearing AVAIL leaves a nibble, and a nibble fits its half of a byte.
LEMMA Nibbles ==
  /\ \A f \in 0 .. 15 : f % 8 \in 0 .. 7
  /\ \A b \in 0 .. 255 : /\ b \div 16 \in 0 .. 15
                         /\ b % 16 \in 0 .. 15
  /\ \A b \in 0 .. 255, f \in 0 .. 7 : /\ 16 * f + (b % 16) \in 0 .. 255
                                      /\ 16 * (b \div 16) + f \in 0 .. 255
  OBVIOUS

\* Half of a number.
LEMMA Halves == \A n \in Nat : n \div 2 \in Nat /\ n \div 2 <= n
  OBVIOUS

\* A remainder is smaller than the modulus, and a small number is its own.
LEMMA Remainder ==
  ASSUME NEW a \in Int, NEW p \in Nat \ {0}
  PROVE  /\ a % p \in 0 .. p - 1
         /\ 0 <= a /\ a < p => a % p = a
  OBVIOUS

-----------------------------------------------------------------------------
(* Constants and memory maps *)

LEMMA UintModPositive == UintMod \in Nat \ {0} /\ UintMod \div 2 \in Nat
                         /\ UintMod \div 2 <= UintMod
<1>1. WrapPages * PageSize \in Nat \ {0}
  BY SizeAssumption
<1>2. QED
  BY <1>1, Halves DEF UintMod

\* What the boot loader promises, entry by entry.
LEMMA MapFacts ==
  ASSUME NEW m \in MemoryMaps
  PROVE  /\ Len(m) \in Nat
         /\ \A k \in 1 .. Len(m) : m[k].base \in Nat /\ m[k].length \in Nat
         /\ \A k \in 1 .. Len(m) : Usable(m, k) => m[k].base > 0 /\ m[k].length > 0
         /\ \A j, k \in 1 .. Len(m) :
              j < k /\ (Usable(m, j) \/ Usable(m, k)) => EntryEnd(m[j]) <= m[k].base
<1>1. /\ m \in Seq(Entry)
      /\ \A k \in 1 .. Len(m) : Usable(m, k) => m[k].base > 0 /\ m[k].length > 0
      /\ \A j, k \in 1 .. Len(m) :
           j < k /\ (Usable(m, j) \/ Usable(m, k)) => EntryEnd(m[j]) <= m[k].base
  BY MapAssumption DEF LimineMap
<1>2. Len(m) \in Nat /\ \A k \in 1 .. Len(m) : m[k] \in Entry
  BY <1>1
<1>3. QED
  BY <1>1, <1>2 DEF Entry

\* The bitmap's pages, and the page offsets of its bytes.
LEMMA BitmapPagesFacts ==
  ASSUME bitmap_length \in Nat
  PROVE  /\ BitmapPages \in Nat
         /\ \A n \in Nat : n * PageSize >= bitmap_length => BitmapPages <= n
         /\ BitmapSpan \subseteq 0 .. BitmapPages - 1
  BY SizeAssumption, RoundUp DEF BitmapPages, BitmapSpan

\* get_frame_flags returns a nibble.
LEMMA FlagsNibble ==
  ASSUME TypeOK, NEW f \in Int
  PROVE  Flags(f) \subseteq 0 .. 15
  BY Nibbles DEF TypeOK, Flags

\* set_frame_flags keeps the bitmap a table of bytes.
LEMMA WithFlagsType ==
  ASSUME TypeOK, NEW f \in Int, NEW n \in 0 .. 7
  PROVE  /\ DOMAIN WithFlags(f, n) = DOMAIN bitmap
         /\ WithFlags(f, n) \in [DOMAIN bitmap -> 0 .. 255]
  BY Nibbles DEF TypeOK, WithFlags
-----------------------------------------------------------------------------
(* Parts of the invariant that whole groups of actions leave alone *)

\* What the boot established about regions and bitmap.
BootFacts ==
  /\ FramesBounded
  /\ Unvisited
  /\ Visited
  /\ RegionsSorted
  /\ FramesNumbered
  /\ BitmapApart

\* While nothing has been handed out there is nothing to say about it.
LEMMA NothingHanded ==
  ASSUME handed' = <<>>
  PROVE  HandedAscending' /\ HandedClear' /\ HandedBelow'
  BY DEF HandedAscending, HandedClear, HandedBelow, Owned

\* Once the regions are settled, steps that leave them alone keep all of it.
LEMMA BootFactsKept ==
  ASSUME BootFacts, UNCHANGED boot_vars,
         pc \notin {"scan", "locate"}, pc' \notin {"scan", "locate"}
  PROVE  BootFacts'
<1> USE DEF boot_vars
<1>1. Scanned' = Scanned /\ Located' = Located
  BY DEF Scanned, Located
<1>2. FramesBounded'
  BY DEF BootFacts, FramesBounded
<1>3. Unvisited'
  BY <1>1 DEF BootFacts, Unvisited
<1>4. Visited'
  BY <1>1 DEF BootFacts, Visited
<1>5. RegionsSorted' /\ FramesNumbered'
  BY DEF BootFacts, RegionsSorted, FramesNumbered
<1>6. BitmapApart'
  BY <1>1 DEF BootFacts, BitmapApart, BitmapPages
<1>7. QED
  BY <1>2, <1>3, <1>4, <1>5, <1>6 DEF BootFacts

\* Steps that hand out nothing keep what is known of the frames handed out.
LEMMA HandedKept ==
  ASSUME UNCHANGED <<boot_vars, handed>>
  PROVE  /\ HandedAscending => HandedAscending'
         /\ HandedClear => HandedClear'
         /\ HandedBelow /\ index' = index => HandedBelow'
  BY DEF boot_vars, HandedAscending, HandedClear, HandedBelow, Owned, BitmapSpan

\* Halting keeps everything: nothing is claimed of a halted processor but
\* its type and what it handed out.
LEMMA HaltedInv ==
  ASSUME TypeOK', HandedAscending', HandedClear', pc' = "halted"
  PROVE  IndInv'
  BY DEF IndInv, Running
-----------------------------------------------------------------------------
(* The boot *)

LEMMA InitInv == Init => IndInv
<1> SUFFICES ASSUME Init PROVE IndInv
  OBVIOUS
<1> USE DEF Init
<1>1. TypeOK
  <2>1. region_info \in [0 .. MaxRegions - 1 -> Region]
    BY SizeAssumption DEF Region
  <2>2. bitmap \in [DOMAIN bitmap -> 0 .. 255] /\ DOMAIN bitmap \subseteq Nat
    OBVIOUS
  <2>3. QED
    BY <2>1, <2>2, SizeAssumption DEF TypeOK, Assertions
<1>2. HandedAscending /\ HandedClear
  BY DEF HandedAscending, HandedClear, Owned
<1>3. QED
  BY <1>1, <1>2, SizeAssumption DEF IndInv, Running

LEMMA InitializeMemmapInv ==
  ASSUME IndInv, InitializeMemmap, \A m \in MemoryMaps : Fits32(m)
  PROVE  IndInv'
<1> USE DEF InitializeMemmap, Chassert, boot_vars, alloc_vars
<1>1. TypeOK'
  BY DEF IndInv, TypeOK, Assertions
<1>2. handed' = <<>>
  BY DEF IndInv
<1>3. CASE pc' = "halted"
  BY <1>1, <1>2, <1>3, NothingHanded, HaltedInv
<1>4. CASE pc' = "scan"
  <2>1. map \in MemoryMaps /\ map' = map
    BY DEF IndInv, TypeOK
  <2>2. i' = 0 /\ max_frames' = 0 /\ num_regions' = 0 /\ usable_idx' = 0
        /\ frame_map' = 0 /\ index' = 0 /\ first'[0] = 0
    BY DEF IndInv
  <2>3. Scanned' = 0 /\ Located' = 0
    BY <1>4, <2>2 DEF Scanned, Located
  <2>4. Counters'
    BY <1>2, <1>4, <2>1, <2>2, <2>3, MapFacts DEF Counters, Serving, Booting
  <2>5. FramesBounded'
    BY <1>4, <2>1, <2>2, MapFacts, UintModPositive DEF FramesBounded, UintMod
  <2>6. Unvisited' /\ Visited' /\ RegionsSorted'
    BY <2>2, <2>3 DEF Unvisited, Visited, RegionsSorted
  <2>7. FramesNumbered' /\ BitmapApart' /\ WalkCounts'
    BY <1>4, <2>2, <2>3 DEF FramesNumbered, BitmapApart, WalkCounts
  <2>8. QED
    BY <1>1, <1>2, <1>4, <2>4, <2>5, <2>6, <2>7, NothingHanded DEF IndInv, Running
<1>5. QED
  BY <1>3, <1>4

\* A usable entry recorded: it goes above the regions recorded before it.
LEMMA RecordEntryInv ==
  ASSUME IndInv, RecordEntry, \A m \in MemoryMaps : Fits32(m)
  PROVE  IndInv'
<1> DEFINE e == map[i + 1]
<1>1. /\ pc = "scan" /\ pc' = "scan" /\ map' = map /\ map \in MemoryMaps
      /\ i \in Nat /\ i < Len(map) /\ i' = i + 1 /\ i + 1 \in 1 .. Len(map)
      /\ Scanned = i /\ Scanned' = i + 1 /\ Located = 0 /\ Located' = 0
      /\ handed = <<>> /\ handed' = <<>> /\ index' = index
      /\ Len(map) \in Nat /\ max_frames \in Nat /\ num_regions \in 0 .. MaxRegions
      /\ usable_idx = 0 /\ usable_idx' = 0
      /\ region_info \in [0 .. MaxRegions - 1 -> Region]
  BY MapFacts DEF IndInv, Running, TypeOK, Counters, Booting, Scanned, Located, alloc_vars, RecordEntry
<1>2. Counters /\ FramesBounded /\ Unvisited /\ RegionsSorted /\ FramesNumbered
  BY <1>1 DEF IndInv, Running
<1>3. num_regions <= i /\ Len(map) <= MaxRegions
  BY <1>1, <1>2 DEF Counters
<1>4. /\ e.base \in Nat /\ e.length \in Nat
      /\ Usable(map, i + 1) => RegionOf(e) \in Region
  BY <1>1, MapFacts DEF RegionOf, Region, EntryEnd
<1>5. Usable(map, i + 1) =>
         /\ max_frames' = max_frames + e.length
         /\ num_regions' = num_regions + 1
         /\ region_info' = [region_info EXCEPT ![num_regions] = RegionOf(e)]
         /\ region_info'[num_regions] = RegionOf(e)
         /\ \A k \in 0 .. num_regions - 1 : region_info'[k] = region_info[k]
  <2>1. num_regions \in 0 .. MaxRegions - 1
    BY <1>1, <1>3, SizeAssumption
  <2>2. Usable(map, i + 1) =>
          /\ max_frames' = max_frames + e.length
          /\ num_regions' = num_regions + 1
          /\ region_info' = [region_info EXCEPT ![num_regions] = RegionOf(e)]
    BY DEF RecordEntry
  <2>3. MaxRegions \in Nat /\ region_info \in [0 .. MaxRegions - 1 -> Region] 
    BY <1>1, SizeAssumption
  <2>4. Usable(map, i + 1) => region_info'[num_regions] = RegionOf(e)
    BY <2>1, <2>2, <2>3
  <2>5. Usable(map, i + 1) => \A k \in 0 .. num_regions - 1 : region_info'[k] = region_info[k]
    BY <2>1, <2>2, <2>3
  <2>6. QED
    BY <2>2, <2>4, <2>5
<1>6. ~Usable(map, i + 1) => UNCHANGED <<max_frames, num_regions, region_info>>
  BY DEF RecordEntry
<1>7. TypeOK'
  <2>1. num_regions' \in 0 .. MaxRegions /\ max_frames' \in Nat
    BY <1>1, <1>3, <1>4, <1>5, <1>6, SizeAssumption
  <2>2. region_info' \in [0 .. MaxRegions - 1 -> Region]
    BY <1>1, <1>4, <1>5, <1>6
  <2>3. /\ pc' = pc /\ map' = map /\ i' \in Nat /\ usable_idx' = usable_idx
        /\ UNCHANGED <<failed, bitmap_length, frame_map, first, bitmap>>
        /\ UNCHANGED <<index, flag, copy, map_idx, result, handed>>
    BY <1>1 DEF RecordEntry, alloc_vars
  <2>4. TypeOK
    BY DEF IndInv
  <2>5. QED
    BY <2>1, <2>2, <2>3, <2>4 DEF TypeOK
<1>8. Counters'
  <2>1. frame_map' = 0
    BY <1>1, <1>2 DEF Counters, RecordEntry
  <2>2. num_regions' <= Scanned' /\ usable_idx' <= num_regions'
    BY <1>1, <1>3, <1>5, <1>6
  <2>3. Len(map') <= MaxRegions /\ i' <= Len(map')
    BY <1>1, <1>3
  <2>4. index' = 0
    BY <1>1, <1>2 DEF Counters, Booting
  <2>5. QED
    BY <1>1, <2>1, <2>2, <2>3, <2>4 DEF Counters
<1>9. FramesBounded'
  <2>1. CASE Usable(map, i + 1)
    <3>1. max_frames' = max_frames + e.length /\ max_frames <= e.base
      BY <1>1, <1>2, <1>5, <2>1 DEF FramesBounded
    <3>2. max_frames' \in Nat /\ max_frames' <= EntryEnd(e) /\ EntryEnd(e) \in Nat
      BY <1>1, <1>4, <3>1 DEF EntryEnd
    <3>3. EntryEnd(e) <= UintMod \div 2
      BY <1>1, <2>1 DEF Fits32
    <3>4. \A j \in i + 2 .. Len(map) : Usable(map, j) => EntryEnd(e) <= map[j].base
      BY <1>1, MapFacts
    <3>5. \A j \in i + 2 .. Len(map) : map[j].base \in Nat
      BY <1>1, MapFacts
    <3>6. max_frames' <= UintMod \div 2
      BY <3>2, <3>3, UintModPositive
    <3>7. \A j \in i + 2 .. Len(map) : Usable(map, j) => max_frames' <= map[j].base
      BY <1>1, <3>1, <3>2, <3>4, <3>5
    <3>8. QED
      BY <1>1, <3>6, <3>7 DEF FramesBounded
  <2>2. CASE ~Usable(map, i + 1)
    BY <1>1, <1>2, <1>6, <2>2 DEF FramesBounded
  <2>3. QED
    BY <2>1, <2>2
<1>10. /\ \A k \in 0 .. num_regions' - 1 :
           \E j \in 1 .. i + 1 : Usable(map, j) /\ region_info'[k] = RegionOf(map[j])
      /\ \A j \in 1 .. i + 1 : Usable(map, j) =>
           \E k \in 0 .. num_regions' - 1 : region_info'[k] = RegionOf(map[j])
  <2>1. /\ \A k \in 0 .. num_regions - 1 :
             \E j \in 1 .. i : Usable(map, j) /\ region_info[k] = RegionOf(map[j])
        /\ \A j \in 1 .. i : Usable(map, j) =>
             \E k \in 0 .. num_regions - 1 : region_info[k] = RegionOf(map[j])
    BY <1>1, <1>2 DEF Unvisited
  <2>2. CASE Usable(map, i + 1)
    <3>1. /\ num_regions' = num_regions + 1
          /\ region_info'[num_regions] = RegionOf(e)
          /\ \A k \in 0 .. num_regions - 1 : region_info'[k] = region_info[k]
      BY <1>5, <2>2
    <3>2. i \in Nat /\ num_regions \in Nat
      BY <1>1
    <3>3. ASSUME NEW k \in 0 .. num_regions
          PROVE  \E j \in 1 .. i + 1 : Usable(map, j) /\ region_info'[k] = RegionOf(map[j])
      <4>1. CASE k = num_regions
        <5>1. i + 1 \in 1 .. i + 1
          BY <3>2
        <5>2. QED
          BY <2>2, <3>1, <4>1, <5>1
      <4>2. CASE k # num_regions
        <5>1. k \in 0 .. num_regions - 1 /\ 1 .. i \subseteq 1 .. i + 1
          BY <3>2, <4>2
        <5>2. QED
          BY <2>1, <3>1, <5>1
      <4>3. QED
        BY <4>1, <4>2
    <3>4. ASSUME NEW j \in 1 .. i + 1, Usable(map, j)
          PROVE  \E k \in 0 .. num_regions : region_info'[k] = RegionOf(map[j])
      <4>1. CASE j = i + 1
        <5>1. num_regions \in 0 .. num_regions
          BY <3>2
        <5>2. QED
          BY <3>1, <4>1, <5>1
      <4>2. CASE j # i + 1
        <5>1. j \in 1 .. i /\ 0 .. num_regions - 1 \subseteq 0 .. num_regions
          BY <3>2, <4>2
        <5>2. QED
          BY <2>1, <3>1, <3>4, <5>1
      <4>3. QED
        BY <4>1, <4>2
    <3>5. num_regions' - 1 = num_regions
      BY <3>1, <3>2
    <3>6. QED
      BY <3>3, <3>4, <3>5
  <2>3. CASE ~Usable(map, i + 1)
    BY <1>1, <1>6, <2>1, <2>3
  <2>4. QED
    BY <2>2, <2>3
<1>11. RegionsSorted'
  <2>1. CASE Usable(map, i + 1)
    <3>1. /\ num_regions' = num_regions + 1
          /\ region_info'[num_regions] = RegionOf(e)
          /\ \A k \in 0 .. num_regions - 1 : region_info'[k] = region_info[k]
      BY <1>5, <2>1
    <3>2. \A k \in 0 .. num_regions - 1 :
            region_info[k].start + region_info[k].pages <= e.base
      <4> SUFFICES ASSUME NEW k \in 0 .. num_regions - 1
                   PROVE  region_info[k].start + region_info[k].pages <= e.base
        OBVIOUS
      <4>1. PICK j \in 1 .. i : Usable(map, j) /\ region_info[k] = RegionOf(map[j])
        BY <1>1, <1>2 DEF Unvisited
      <4>2. EntryEnd(map[j]) <= e.base
        BY <1>1, <4>1, MapFacts
      <4>3. QED
        BY <4>1, <4>2 DEF RegionOf, EntryEnd
    <3>3. QED
      BY <1>1, <1>2, <3>1, <3>2 DEF RegionsSorted, RegionOf
  <2>2. CASE ~Usable(map, i + 1)
    BY <1>2, <1>6, <2>2 DEF RegionsSorted
  <2>3. QED
    BY <2>1, <2>2
<1>12. Unvisited' /\ Visited'
  BY <1>1, <1>10 DEF Unvisited, Visited
<1>13. FramesNumbered' /\ BitmapApart' /\ WalkCounts'
  <2>1. first' = first /\ frame_map' = 0
    BY <1>1, <1>2 DEF RecordEntry, Counters
  <2>2. first[0] = 0
    BY <1>2 DEF FramesNumbered
  <2>3. QED
    BY <1>1, <2>1, <2>2 DEF FramesNumbered, BitmapApart, WalkCounts
<1>14. QED
  BY <1>1, <1>7, <1>8, <1>9, <1>11, <1>12, <1>13, NothingHanded DEF IndInv, Running

LEMMA EndScanInv ==
  ASSUME IndInv, EndScan, \A m \in MemoryMaps : Fits32(m)
  PROVE  IndInv'
<1>1. /\ pc = "scan" /\ pc' = "locate" /\ i = Len(map) /\ i' = 0
      /\ UNCHANGED <<map, max_frames, num_regions, region_info, usable_idx, frame_map, first>>
      /\ UNCHANGED <<failed, bitmap, index, flag, copy, map_idx, result, handed>>
      /\ bitmap_length' = max_frames \div 2
  BY DEF EndScan, BitmapBytes, alloc_vars
<1>2. TypeOK /\ Counters /\ FramesBounded /\ Unvisited /\ RegionsSorted /\ FramesNumbered
  BY <1>1 DEF IndInv, Running
<1>3. map \in MemoryMaps /\ max_frames \in Nat
  BY <1>2 DEF TypeOK
<1>4. Len(map) \in Nat
  BY <1>3, MapFacts
<1>5. Scanned = Len(map) /\ Located = 0 /\ Scanned' = Len(map) /\ Located' = 0
  BY <1>1 DEF Scanned, Located
<1>6. handed' = <<>> /\ index' = 0 /\ usable_idx = 0 /\ frame_map = 0
  BY <1>1, <1>2 DEF Counters, Booting
<1>7. TypeOK'
  BY <1>1, <1>2, <1>3, Halves DEF TypeOK
<1>8. Counters'
  BY <1>1, <1>2, <1>4, <1>5, <1>6 DEF Counters, Serving, Booting
<1>9. FramesBounded'
  BY <1>1, <1>2 DEF FramesBounded
<1>10. Unvisited' /\ Visited'
  BY <1>1, <1>2, <1>5, <1>6 DEF Unvisited, Visited
<1>11. RegionsSorted' /\ FramesNumbered'
  BY <1>1, <1>2 DEF RegionsSorted, FramesNumbered
<1>12. BitmapApart' /\ WalkCounts'
  BY <1>1, <1>6 DEF BitmapApart, WalkCounts
<1>13. QED
  BY <1>1, <1>6, <1>7, <1>8, <1>9, <1>10, <1>11, <1>12, NothingHanded DEF IndInv, Running

\* The loop over the entries ends with a place for the bitmap, or halts.
LEMMA EndLocateInv ==
  ASSUME IndInv, EndLocate, \A m \in MemoryMaps : Fits32(m)
  PROVE  IndInv'
<1>1. /\ pc = "locate" /\ i = Len(map) /\ i' = 0
      /\ UNCHANGED <<map, max_frames, num_regions, region_info, usable_idx,
                     bitmap_length, frame_map, first>>
      /\ UNCHANGED <<bitmap, index, flag, copy, map_idx, result, handed>>
      /\ pc' = IF frame_map # 0 THEN "fill" ELSE "halted"
      /\ failed' = IF frame_map # 0 THEN failed ELSE "no_bitmap"
  BY DEF EndLocate, Chassert, alloc_vars, boot_vars
<1>2. /\ TypeOK /\ Counters /\ FramesBounded /\ Unvisited /\ Visited
      /\ RegionsSorted /\ FramesNumbered /\ BitmapApart
  BY <1>1 DEF IndInv, Running
<1>3. Len(map) \in Nat
  BY <1>2, MapFacts DEF TypeOK
<1>4. handed' = <<>> /\ index' = 0
  BY <1>1, <1>2 DEF Counters, Booting
<1>5. TypeOK'
  BY <1>1, <1>2 DEF TypeOK, Assertions
<1>6. CASE frame_map = 0
  BY <1>1, <1>4, <1>5, <1>6, NothingHanded, HaltedInv
<1>7. CASE frame_map # 0
  <2>1. pc' = "fill"
    BY <1>1, <1>7
  <2>2. /\ Scanned = Len(map) /\ Located = Len(map)
        /\ Scanned' = Len(map) /\ Located' = Len(map)
    BY <1>1, <2>1 DEF Scanned, Located
  <2>3. usable_idx = num_regions
    <3>1. ~(usable_idx < num_regions)
      <4> SUFFICES ASSUME usable_idx < num_regions PROVE FALSE
        OBVIOUS
      <4>1. usable_idx \in usable_idx .. num_regions - 1
        BY <1>2 DEF TypeOK
      <4>2. PICK j \in Len(map) + 1 .. Len(map) : TRUE
        BY <1>2, <2>2, <4>1 DEF Unvisited
      <4>3. QED
        BY <1>3, <4>2
    <3>2. QED
      BY <1>2, <3>1 DEF Counters, TypeOK
  <2>4. Counters'
    BY <1>1, <1>2, <1>3, <1>4, <2>1, <2>2, <2>3 DEF Counters, Serving, Booting
  <2>5. FramesBounded'
    BY <1>1, <1>2, <2>1 DEF FramesBounded
  <2>6. Unvisited' /\ Visited'
    BY <1>1, <1>2, <2>2 DEF Unvisited, Visited
  <2>7. RegionsSorted' /\ FramesNumbered'
    BY <1>1, <1>2 DEF RegionsSorted, FramesNumbered
  <2>8. BitmapApart' /\ WalkCounts'
    BY <1>1, <1>2, <2>1, <2>2 DEF BitmapApart, BitmapPages, WalkCounts
  <2>9. QED
    BY <1>4, <1>5, <2>1, <2>4, <2>5, <2>6, <2>7, <2>8, NothingHanded DEF IndInv, Running
<1>8. QED
  BY <1>6, <1>7

LEMMA FillByteInv ==
  ASSUME IndInv, FillByte
  PROVE  IndInv'
<1>1. /\ pc = "fill" /\ pc' = "fill" /\ failed' = failed
      /\ i' = NextByte /\ UNCHANGED <<boot_vars, alloc_vars>>
      /\ bitmap' = [b \in DOMAIN bitmap \cup {i} |->
                      IF b = i THEN BothAvail ELSE bitmap[b]]
  BY DEF FillByte
<1>2. TypeOK /\ BootFacts /\ Counters
  BY <1>1 DEF IndInv, Running, BootFacts
<1>3. i' \in Nat
  <2>1. i + 1 \in Int
    BY <1>2 DEF TypeOK
  <2>2. (i + 1) % UintMod \in 0 .. UintMod - 1
    BY <2>1, UintModPositive, Remainder
  <2>3. QED
    BY <1>1, <2>2, UintModPositive DEF NextByte
<1>4. TypeOK'
  <2>1. bitmap' \in [DOMAIN bitmap' -> 0 .. 255] /\ DOMAIN bitmap' \subseteq Nat
    BY <1>1, <1>2 DEF TypeOK, BothAvail
  <2>2. QED
    BY <1>1, <1>2, <1>3, <2>1 DEF TypeOK, boot_vars, alloc_vars
<1>5. handed' = <<>> /\ index' = index
  BY <1>1, <1>2 DEF Counters, Booting, alloc_vars
<1>6. BootFacts'
  BY <1>1, <1>2, BootFactsKept
<1>7. Counters'
  BY <1>1, <1>2 DEF Counters, Serving, Booting, Scanned, boot_vars, alloc_vars
<1>8. WalkCounts'
  BY <1>1 DEF WalkCounts
<1>9. QED
  BY <1>1, <1>4, <1>5, <1>6, <1>7, <1>8, NothingHanded DEF IndInv, Running, BootFacts

LEMMA EndFillInv ==
  ASSUME IndInv, EndFill
  PROVE  IndInv'
<1>1. /\ pc = "fill" /\ pc' = "ready"
      /\ UNCHANGED <<failed, i, bitmap, boot_vars, alloc_vars>>
  BY DEF EndFill
<1>2. TypeOK /\ BootFacts /\ Counters
  BY <1>1 DEF IndInv, Running, BootFacts
<1>3. TypeOK'
  BY <1>1, <1>2 DEF TypeOK, boot_vars, alloc_vars
<1>4. handed' = <<>> /\ index' = index
  BY <1>1, <1>2 DEF Counters, Booting, alloc_vars
<1>5. BootFacts'
  BY <1>1, <1>2, BootFactsKept
<1>6. Counters'
  BY <1>1, <1>2 DEF Counters, Serving, Booting, Scanned, boot_vars, alloc_vars
<1>7. WalkCounts'
  BY <1>1 DEF WalkCounts
<1>8. QED
  BY <1>1, <1>3, <1>4, <1>5, <1>6, <1>7, NothingHanded DEF IndInv, Running, BootFacts

\* The entry under the loop and the region at usable_idx belong together:
\* both are the first of those not yet visited.
LEMMA EntryMeetsRegion ==
  ASSUME IndInv, pc = "locate", i < Len(map), Usable(map, i + 1)
  PROVE  usable_idx < num_regions /\ region_info[usable_idx] = RegionOf(map[i + 1])
<1>1. /\ TypeOK /\ Counters /\ Unvisited /\ RegionsSorted
      /\ Scanned = Len(map) /\ Located = i
  BY DEF IndInv, Running, Scanned, Located
<1>2. /\ map \in MemoryMaps /\ i \in Nat
      /\ usable_idx \in Nat /\ num_regions \in Nat
  BY <1>1 DEF TypeOK
<1>3. Len(map) \in Nat /\ i + 1 \in 1 .. Len(map) /\ i + 1 \in i + 1 .. Len(map)
  BY <1>2, MapFacts
<1>4. PICK k \in usable_idx .. num_regions - 1 : region_info[k] = RegionOf(map[i + 1])
  BY <1>1, <1>3 DEF Unvisited
<1>5. usable_idx \in usable_idx .. num_regions - 1
  BY <1>2, <1>4
<1>6. PICK j \in i + 1 .. Len(map) :
        Usable(map, j) /\ region_info[usable_idx] = RegionOf(map[j])
  BY <1>1, <1>5 DEF Unvisited
<1>7. k = usable_idx
  <2> SUFFICES ASSUME k # usable_idx PROVE FALSE
    OBVIOUS
  <2>1. k \in 0 .. num_regions - 1 /\ usable_idx \in 0 .. k - 1
    BY <1>2, <1>4
  <2>2. region_info[usable_idx].start + region_info[usable_idx].pages
          <= region_info[k].start
    BY <1>1, <2>1 DEF RegionsSorted
  <2>3. EntryEnd(map[j]) <= map[i + 1].base
    BY <1>4, <1>6, <2>2 DEF RegionOf, EntryEnd
  <2>4. j = i + 1 \/ i + 1 < j
    BY <1>2, <1>6
  <2>5. /\ map[i + 1].base \in Nat /\ map[i + 1].length \in Nat
        /\ map[j].base \in Nat /\ map[j].length \in Nat /\ map[j].length > 0
    BY <1>2, <1>3, <1>6, MapFacts
  <2>6. i + 1 < j => EntryEnd(map[i + 1]) <= map[j].base
    BY <1>2, <1>3, <1>6, MapFacts
  <2>7. QED
    BY <2>3, <2>4, <2>5, <2>6 DEF EntryEnd
<1>8. QED
  BY <1>2, <1>4, <1>7

\* What PlaceBitmap makes of the region: its first d pages are gone.
LEMMA PlaceBitmapFacts ==
  ASSUME IndInv, pc = "locate", i < Len(map), Usable(map, i + 1), PlaceBitmap(map[i + 1])
  PROVE  \E d \in 0 .. map[i + 1].length :
           /\ region_info' = [region_info EXCEPT ![usable_idx] =
                                [start |-> map[i + 1].base + d,
                                 end   |-> EntryEnd(map[i + 1]),
                                 pages |-> map[i + 1].length - d]]
           /\ d = PagesAside(map[i + 1])
           /\ \/ d = BitmapPages /\ frame_map' = map[i + 1].base
              \/ /\ d = 0 /\ frame_map' = frame_map
                 /\ map[i + 1].length * PageSize < bitmap_length
<1> DEFINE e == map[i + 1]
           cut(d) == [start |-> e.base + d, end |-> EntryEnd(e), pages |-> e.length - d]
<1>1. /\ map \in MemoryMaps /\ i \in Nat /\ bitmap_length \in Nat
      /\ usable_idx \in Nat /\ num_regions \in 0 .. MaxRegions
      /\ region_info \in [0 .. MaxRegions - 1 -> Region]
  BY DEF IndInv, TypeOK
<1>2. i + 1 \in 1 .. Len(map) /\ e.base \in Nat /\ e.length \in Nat
  BY <1>1, MapFacts
<1>3. usable_idx < num_regions /\ region_info[usable_idx] = RegionOf(e)
  BY EntryMeetsRegion
<1>4. usable_idx \in 0 .. MaxRegions - 1
  BY <1>1, <1>3, SizeAssumption
<1>5. CASE e.length * PageSize >= bitmap_length
  <2>1. BitmapPages \in 0 .. e.length
    BY <1>1, <1>2, <1>5, BitmapPagesFacts
  <2>2. Shrunk(RegionOf(e)) = cut(BitmapPages)
    BY <1>2, <2>1 DEF Shrunk, RegionOf, EntryEnd
  <2>3. frame_map' = e.base
        /\ region_info' = [region_info EXCEPT ![usable_idx] = Shrunk(region_info[usable_idx])]
    BY <1>5 DEF PlaceBitmap
  <2>4. region_info' = [region_info EXCEPT ![usable_idx] = cut(BitmapPages)]
    BY <1>3, <2>2, <2>3
  <2>5. BitmapPages = PagesAside(e)
    BY <1>5 DEF PagesAside
  <2>6. QED
    BY <2>1, <2>3, <2>4, <2>5
<1>6. CASE ~(e.length * PageSize >= bitmap_length)
  <2>1. frame_map' = frame_map /\ region_info' = region_info
    BY <1>6 DEF PlaceBitmap
  <2>2. cut(0) = RegionOf(e)
    BY <1>2 DEF RegionOf
  <2>3. region_info' = [region_info EXCEPT ![usable_idx] = cut(0)]
    BY <1>1, <1>3, <1>4, <2>1, <2>2
  <2>4. 0 \in 0 .. e.length /\ e.length * PageSize < bitmap_length
    <3>1. e.length * PageSize \in Nat
      BY <1>2, SizeAssumption
    <3>2. QED
      BY <1>1, <1>2, <1>6, <3>1
  <2>5. PagesAside(e) = 0
    BY <1>6 DEF PagesAside
  <2>6. QED
    BY <2>1, <2>3, <2>4, <2>5
<1>7. QED
  BY <1>5, <1>6

\* A visited entry: its region is settled, below those still to come and
\* clear of the bitmap.
LEMMA LocateForBitmapInv ==
  ASSUME IndInv, LocateForBitmap, \A m \in MemoryMaps : Fits32(m)
  PROVE  IndInv'
<1> DEFINE e == map[i + 1]
           u == usable_idx
<1>1. /\ pc = "locate" /\ pc' = "locate" /\ i' = i + 1 /\ i < Len(map)
      /\ UNCHANGED <<map, failed, max_frames, num_regions, bitmap_length, bitmap>>
      /\ UNCHANGED <<index, flag, copy, map_idx, result, handed>>
  BY DEF LocateForBitmap, alloc_vars
<1>2. /\ TypeOK /\ Counters /\ FramesBounded /\ Unvisited /\ Visited
      /\ RegionsSorted /\ FramesNumbered /\ BitmapApart
  BY <1>1 DEF IndInv, Running
<1>3. /\ map \in MemoryMaps /\ i \in Nat /\ bitmap_length \in Nat /\ frame_map \in Nat
      /\ u \in Nat /\ num_regions \in 0 .. MaxRegions /\ u <= num_regions
      /\ region_info \in [0 .. MaxRegions - 1 -> Region]
      /\ first \in [0 .. MaxRegions -> Nat]
  BY <1>2 DEF TypeOK, Counters
<1>4. /\ Len(map) \in Nat /\ i + 1 \in 1 .. Len(map)
      /\ e.base \in Nat /\ e.length \in Nat /\ EntryEnd(e) = e.base + e.length
  BY <1>1, <1>3, MapFacts DEF EntryEnd
<1>5. Scanned = Len(map) /\ Scanned' = Len(map) /\ Located = i /\ Located' = i + 1
  BY <1>1 DEF Scanned, Located
<1>6. handed = <<>> /\ handed' = <<>> /\ index' = 0
  BY <1>1, <1>2 DEF Counters, Booting
<1>7. BitmapPages' = BitmapPages /\ BitmapPages \in Nat
  BY <1>1, <1>3, BitmapPagesFacts DEF BitmapPages
<1>8. FramesBounded' /\ WalkCounts'
  BY <1>1, <1>2 DEF FramesBounded, WalkCounts
<1>9. CASE ~Usable(map, i + 1)
  <2>1. UNCHANGED <<frame_map, region_info, usable_idx, first>>
    BY <1>9 DEF LocateForBitmap
  <2>2. TypeOK'
    <3>1. i' \in Nat
      BY <1>1, <1>3
    <3>2. QED
      BY <1>1, <1>2, <2>1, <3>1 DEF TypeOK
  <2>3. Counters'
    BY <1>1, <1>2, <1>3, <1>4, <1>5, <1>6, <2>1 DEF Counters, Booting, Serving
  <2>4. \A j \in i + 1 .. Len(map) : Usable(map, j) => j \in i + 2 .. Len(map)
    BY <1>3, <1>4, <1>9
  <2>5. Unvisited'
    <3>1. \A k \in u .. num_regions - 1 : \E j \in i + 2 .. Len(map) :
            Usable(map, j) /\ region_info[k] = RegionOf(map[j])
      BY <1>2, <1>5, <2>4 DEF Unvisited
    <3>2. \A j \in i + 2 .. Len(map) : Usable(map, j) =>
            \E k \in u .. num_regions - 1 : region_info[k] = RegionOf(map[j])
      BY <1>2, <1>3, <1>5 DEF Unvisited
    <3>3. i + 1 + 1 = i + 2
      BY <1>3
    <3>4. QED
      BY <1>1, <1>5, <2>1, <3>1, <3>2, <3>3 DEF Unvisited
  <2>6. 1 .. i \subseteq 1 .. i + 1
    BY <1>3
  <2>7. Visited'
    BY <1>1, <1>2, <1>5, <2>1, <2>6 DEF Visited
  <2>8. RegionsSorted' /\ FramesNumbered'
    BY <1>1, <1>2, <2>1 DEF RegionsSorted, FramesNumbered
  <2>9. BitmapApart'
    BY <1>1, <1>2, <1>5, <1>7, <2>1, <2>6 DEF BitmapApart
  <2>10. QED
    BY <1>1, <1>6, <1>8, <2>2, <2>3, <2>5, <2>7, <2>8, <2>9, NothingHanded
       DEF IndInv, Running
<1>10. CASE Usable(map, i + 1)
  <2>1. u < num_regions /\ region_info[u] = RegionOf(e)
    BY <1>1, <1>10, EntryMeetsRegion
  <2>2. /\ PlaceBitmap(e) /\ usable_idx' = u + 1
        /\ first' = [first EXCEPT ![u + 1] = first[u] + region_info'[u].pages]
    BY <1>10 DEF LocateForBitmap
  <2>3. PICK d \in 0 .. e.length :
          /\ region_info' = [region_info EXCEPT ![u] =
               [start |-> e.base + d, end |-> EntryEnd(e), pages |-> e.length - d]]
          /\ (d = BitmapPages /\ frame_map' = e.base) \/ frame_map' = frame_map
    BY <1>1, <1>10, <2>2, PlaceBitmapFacts
  <2>4. u \in 0 .. MaxRegions - 1 /\ u \in 0 .. MaxRegions /\ u + 1 \in 0 .. MaxRegions
    BY <1>3, <2>1, SizeAssumption
  <2>5. /\ region_info'[u].start = e.base + d
        /\ region_info'[u].pages = e.length - d
        /\ region_info'[u].start + region_info'[u].pages = EntryEnd(e)
    BY <1>3, <1>4, <2>3, <2>4
  <2>6. \A k \in 0 .. num_regions - 1 : k # u => region_info'[k] = region_info[k]
    BY <1>3, <2>3, SizeAssumption
  <2>7. /\ first'[u + 1] = first[u] + (e.length - d)
        /\ \A k \in 0 .. u : first'[k] = first[k]
    BY <1>3, <2>2, <2>4, <2>5
  <2>8. e.base > 0 /\ e.length > 0
    BY <1>3, <1>4, <1>10, MapFacts
  <2>9. TypeOK'
    <3>1. region_info' \in [0 .. MaxRegions - 1 -> Region]
      <4>1. [start |-> e.base + d, end |-> EntryEnd(e), pages |-> e.length - d] \in Region
        BY <1>4 DEF Region
      <4>2. QED
        BY <1>3, <2>3, <4>1
    <3>2. first' \in [0 .. MaxRegions -> Nat]
      <4>1. first[u] + region_info'[u].pages \in Nat
        <5>1. first[u] \in Nat
          BY <1>3, <2>4
        <5>2. region_info'[u].pages \in Nat
          BY <1>4, <2>5
        <5>3. QED
          BY <5>1, <5>2
      <4>2. QED
        BY <1>3, <2>2, <4>1
    <3>3. usable_idx' \in 0 .. MaxRegions /\ frame_map' \in Nat /\ i' \in Nat
      <4>1. usable_idx' \in 0 .. MaxRegions
        BY <2>2, <2>4
      <4>2. frame_map' \in Nat
        BY <1>3, <1>4, <2>3
      <4>3. i' \in Nat
        BY <1>1, <1>3
      <4>4. QED
        BY <4>1, <4>2, <4>3
    <3>4. QED
      BY <1>1, <1>2, <3>1, <3>2, <3>3 DEF TypeOK
  <2>10. Counters'
    BY <1>1, <1>2, <1>3, <1>4, <1>5, <1>6, <2>1, <2>2 DEF Counters, Booting, Serving
  <2>11. Unvisited'
    <3>1. ASSUME NEW k \in u + 1 .. num_regions - 1
          PROVE  \E j \in i + 2 .. Len(map) :
                   Usable(map, j) /\ region_info'[k] = RegionOf(map[j])
      <4>1. k \in u .. num_regions - 1 /\ k \in 0 .. num_regions - 1 /\ u \in 0 .. k - 1
        BY <1>3, <3>1
      <4>2. PICK j \in i + 1 .. Len(map) :
              Usable(map, j) /\ region_info[k] = RegionOf(map[j])
        BY <1>2, <1>5, <4>1 DEF Unvisited
      <4>3. region_info[u].start + region_info[u].pages <= region_info[k].start
        BY <1>2, <4>1 DEF RegionsSorted
      <4>4. j # i + 1
        BY <1>4, <2>1, <2>8, <4>2, <4>3 DEF RegionOf
      <4>5. region_info'[k] = region_info[k]
        BY <1>3, <2>6, <4>1
      <4>6. QED
        BY <1>3, <4>2, <4>4, <4>5
    <3>2. ASSUME NEW j \in i + 2 .. Len(map), Usable(map, j)
          PROVE  \E k \in u + 1 .. num_regions - 1 : region_info'[k] = RegionOf(map[j])
      <4>1. j \in i + 1 .. Len(map) /\ j \in 1 .. Len(map) /\ i + 1 < j
        BY <1>3
      <4>2. PICK k \in u .. num_regions - 1 : region_info[k] = RegionOf(map[j])
        BY <1>2, <1>5, <3>2, <4>1 DEF Unvisited
      <4>3. EntryEnd(e) <= map[j].base /\ map[j].base \in Nat
        BY <1>3, <1>4, <3>2, <4>1, MapFacts
      <4>4. k # u
        BY <1>4, <2>1, <2>8, <4>2, <4>3 DEF RegionOf
      <4>5. region_info'[k] = region_info[k]
        BY <1>3, <2>6, <4>2, <4>4
      <4>6. QED
        BY <1>3, <4>2, <4>4, <4>5
    <3>3. i + 1 + 1 = i + 2
      BY <1>3
    <3>4. QED
      BY <1>1, <1>5, <2>2, <3>1, <3>2, <3>3 DEF Unvisited
  <2>12. Visited'
    <3>1. ASSUME NEW k \in 0 .. u
          PROVE  \E j \in 1 .. i + 1 :
                   /\ Usable(map, j)
                   /\ map[j].base <= region_info'[k].start
                   /\ region_info'[k].start + region_info'[k].pages = EntryEnd(map[j])
      <4>1. CASE k = u
        <5>1. i + 1 \in 1 .. i + 1
          BY <1>3
        <5>2. e.base <= region_info'[u].start
          BY <1>4, <2>5
        <5>3. QED
          BY <1>10, <2>5, <4>1, <5>1, <5>2
      <4>2. CASE k # u
        <5>1. k \in 0 .. u - 1 /\ region_info'[k] = region_info[k]
          BY <1>3, <2>1, <2>6, <4>2
        <5>2. 1 .. i \subseteq 1 .. i + 1
          BY <1>3
        <5>3. QED
          BY <1>2, <1>5, <5>1, <5>2 DEF Visited
      <4>3. QED
        BY <4>1, <4>2
    <3>2. usable_idx' - 1 = u /\ map' = map /\ Located' = i + 1
      BY <1>1, <1>3, <1>5, <2>2
    <3>3. QED
      BY <3>1, <3>2 DEF Visited
  <2>13. RegionsSorted'
    <3>1. ASSUME NEW l \in 0 .. num_regions - 1, NEW k \in 0 .. l - 1
          PROVE  region_info'[k].start + region_info'[k].pages <= region_info'[l].start
      <4>1. region_info[k].start + region_info[k].pages <= region_info[l].start
        BY <1>2 DEF RegionsSorted
      <4>2. /\ region_info[u].start = e.base
            /\ region_info[u].start + region_info[u].pages = EntryEnd(e)
        BY <1>4, <2>1 DEF RegionOf
      <4>3. k \in 0 .. num_regions - 1 /\ k # l
        BY <1>3
      <4>4. CASE k = u
        BY <2>5, <2>6, <4>1, <4>2, <4>3, <4>4
      <4>5. CASE l = u
        <5>1. region_info'[k] = region_info[k]
          BY <2>6, <4>3, <4>5
        <5>2. /\ region_info[k].start \in Nat /\ region_info[k].pages \in Nat
          BY <1>3, <4>3, SizeAssumption DEF Region
        <5>3. region_info[l].start = e.base /\ region_info'[l].start = e.base + d
          BY <2>5, <4>2, <4>5
        <5>4. e.base \in Nat /\ d \in Nat
          BY <1>4
        <5>5. QED
          BY <4>1, <5>1, <5>2, <5>3, <5>4
      <4>6. CASE k # u /\ l # u
        BY <2>6, <4>1, <4>3, <4>6
      <4>7. QED
        BY <4>4, <4>5, <4>6
    <3>2. QED
      BY <1>1, <3>1 DEF RegionsSorted
  <2>14. FramesNumbered'
    <3>1. first'[0] = 0
      BY <1>2, <1>3, <2>7 DEF FramesNumbered
    <3>2. ASSUME NEW k \in 0 .. u
          PROVE  first'[k + 1] = first'[k] + region_info'[k].pages
      <4>1. CASE k = u
        BY <2>5, <2>7, <4>1
      <4>2. CASE k # u
        <5>1. k \in 0 .. u - 1 /\ k + 1 \in 0 .. u /\ region_info'[k] = region_info[k]
          BY <1>3, <2>1, <2>6, <4>2
        <5>2. QED
          BY <1>2, <2>7, <5>1 DEF FramesNumbered
      <4>3. QED
        BY <4>1, <4>2
    <3>3. ASSUME NEW l \in 0 .. u + 1, NEW k \in 0 .. l - 1
          PROVE  first'[k] + region_info'[k].pages <= first'[l]
      <4>1. k \in 0 .. u /\ k \in 0 .. MaxRegions
        BY <1>3, <2>4, SizeAssumption
      <4>2. CASE l = u + 1 /\ k = u
        <5>1. first[u] \in Nat
          BY <1>3, <2>4
        <5>2. first'[u] = first[u]
          BY <1>3, <2>7
        <5>3. QED
          BY <1>4, <2>5, <2>7, <4>2, <5>1, <5>2
      <4>3. CASE l = u + 1 /\ k # u
        <5>1. k \in 0 .. u - 1 /\ u \in 0 .. u /\ region_info'[k] = region_info[k]
          BY <1>3, <2>1, <2>6, <4>1, <4>3
        <5>2. first[k] + region_info[k].pages <= first[u]
          BY <1>2, <5>1 DEF FramesNumbered
        <5>3. first[u] \in Nat /\ first[k] \in Nat /\ region_info[k].pages \in Nat
          BY <1>3, <2>1, <2>4, <4>1, <5>1, SizeAssumption DEF Region
        <5>4. first'[k] = first[k] /\ first'[l] = first[u] + (e.length - d)
          BY <2>7, <4>1, <4>3
        <5>5. e.length - d \in Nat
          BY <1>4
        <5>6. QED
          BY <5>1, <5>2, <5>3, <5>4, <5>5
      <4>4. CASE l # u + 1
        <5>1. l \in 0 .. u /\ k \in 0 .. u - 1 /\ region_info'[k] = region_info[k]
          BY <1>3, <2>1, <2>6, <4>4
        <5>2. QED
          BY <1>2, <2>7, <4>1, <5>1 DEF FramesNumbered
      <4>5. QED
        BY <4>2, <4>3, <4>4
    <3>4. usable_idx' - 1 = u /\ usable_idx' = u + 1
      BY <1>3, <2>2
    <3>5. QED
      BY <3>1, <3>2, <3>3, <3>4 DEF FramesNumbered
  <2>15. BitmapApart'
    <3>1. CASE d = BitmapPages /\ frame_map' = e.base
      <4>1. ASSUME NEW k \in 0 .. u
            PROVE  \/ region_info'[k].start + region_info'[k].pages <= frame_map'
                   \/ frame_map' + BitmapPages <= region_info'[k].start
        <5>1. CASE k = u
          BY <1>4, <2>5, <3>1, <5>1
        <5>2. CASE k # u
          <6>1. k \in 0 .. u - 1 /\ u \in 0 .. num_regions - 1
                /\ region_info'[k] = region_info[k]
            BY <1>3, <2>1, <2>6, <5>2
          <6>2. region_info[k].start + region_info[k].pages <= region_info[u].start
            BY <1>2, <6>1 DEF RegionsSorted
          <6>3. QED
            BY <2>1, <3>1, <6>1, <6>2 DEF RegionOf
        <5>3. QED
          BY <5>1, <5>2
      <4>2. usable_idx' - 1 = u /\ map' = map /\ Located' = i + 1
        BY <1>1, <1>3, <1>5, <2>2
      <4>3. Usable(map, i + 1) /\ frame_map' = e.base /\ BitmapPages <= e.length
        BY <1>4, <1>10, <3>1
      <4>4. i + 1 \in 1 .. i + 1
        BY <1>3
      <4>5. QED
        BY <1>7, <4>1, <4>2, <4>3, <4>4 DEF BitmapApart
    <3>2. CASE frame_map' = frame_map
      <4> SUFFICES ASSUME frame_map # 0 PROVE BitmapApart'
        BY <3>2 DEF BitmapApart
      <4>1. PICK j \in 1 .. i :
              Usable(map, j) /\ frame_map = map[j].base /\ BitmapPages <= map[j].length
        BY <1>2, <1>5 DEF BitmapApart
      <4>2. j \in 1 .. i + 1 /\ j \in 1 .. Len(map) /\ j < i + 1
        BY <1>3, <1>4
      <4>3. frame_map + BitmapPages <= e.base
        <5>1. EntryEnd(map[j]) <= e.base
          BY <1>3, <1>4, <4>1, <4>2, MapFacts
        <5>2. map[j].base \in Nat /\ map[j].length \in Nat
          BY <1>3, <4>2, MapFacts
        <5>3. QED
          BY <1>4, <1>7, <4>1, <5>1, <5>2 DEF EntryEnd
      <4>4. ASSUME NEW k \in 0 .. u
            PROVE  \/ region_info'[k].start + region_info'[k].pages <= frame_map
                   \/ frame_map + BitmapPages <= region_info'[k].start
        <5>1. CASE k = u
          BY <1>3, <1>4, <1>7, <2>5, <4>3, <5>1
        <5>2. CASE k # u
          <6>1. k \in 0 .. u - 1 /\ region_info'[k] = region_info[k]
            BY <1>3, <2>1, <2>6, <5>2
          <6>2. QED
            BY <1>2, <6>1 DEF BitmapApart
        <5>3. QED
          BY <5>1, <5>2
      <4>5. usable_idx' - 1 = u /\ map' = map /\ Located' = i + 1
        BY <1>1, <1>3, <1>5, <2>2
      <4>6. QED
        BY <1>7, <3>2, <4>1, <4>2, <4>4, <4>5 DEF BitmapApart
    <3>3. QED
      BY <2>3, <3>1, <3>2
  <2>16. QED
    BY <1>1, <1>6, <1>8, <2>9, <2>10, <2>11, <2>12, <2>13, <2>14, <2>15, NothingHanded
       DEF IndInv, Running
<1>11. QED
  BY <1>9, <1>10

-----------------------------------------------------------------------------
(* frame_alloc and frame_free *)

\* Steps that stay among the serving states, leave the boot's results alone
\* and hand out nothing: what is left to show.
LEMMA ServingStep ==
  ASSUME IndInv, Serving, Serving', UNCHANGED <<boot_vars, handed>>, TypeOK',
         HandedBelow', WalkCounts',
         pc' \in {"search", "walk"} => index' < max_frames
  PROVE  IndInv'
<1>1. pc \notin {"start", "halted", "scan", "locate", "fill"}
      /\ pc' \notin {"start", "halted", "scan", "locate", "fill"}
  BY DEF Serving
<1>2. BootFacts /\ Counters /\ HandedAscending /\ HandedClear
  BY <1>1 DEF IndInv, Running, BootFacts
<1>3. HandedAscending' /\ HandedClear'
  BY <1>2, HandedKept
<1>4. BootFacts'
  BY <1>1, <1>2, BootFactsKept
<1>5. Counters'
  BY <1>1, <1>2 DEF Counters, Booting, Scanned, boot_vars
<1>6. QED
  BY <1>1, <1>3, <1>4, <1>5 DEF IndInv, Running, BootFacts

\* The search steps over a frame: fewer frame numbers are left to come.
LEMMA HandedBelowLater ==
  ASSUME TypeOK, HandedBelow, UNCHANGED <<boot_vars, handed>>, index' = index + 1
  PROVE  HandedBelow'
<1>1. index \in Nat /\ num_regions \in 0 .. MaxRegions
      /\ region_info \in [0 .. MaxRegions - 1 -> Region]
      /\ first \in [0 .. MaxRegions -> Nat]
  BY DEF TypeOK
<1> SUFFICES ASSUME NEW n \in DOMAIN handed, NEW k \in 0 .. num_regions - 1,
                    NEW c \in 0 .. region_info[k].pages - 1, first[k] + c >= index + 1
             PROVE  handed[n] < region_info[k].start + c
  BY DEF HandedBelow, boot_vars
<1>2. first[k] \in Nat /\ c \in Nat
  BY <1>1, SizeAssumption DEF Region
<1>3. QED
  BY <1>1, <1>2 DEF HandedBelow

LEMMA FrameAllocInv ==
  ASSUME IndInv, FrameAlloc
  PROVE  IndInv'
<1>1. /\ pc = "ready" /\ pc' \in {"ready", "search"}
      /\ UNCHANGED <<failed, i, bitmap, boot_vars, index, copy, map_idx, handed>>
      /\ \/ index >= max_frames /\ result' = -1 /\ UNCHANGED <<pc, flag>>
         \/ ~(index >= max_frames) /\ flag' \in Flags(index) /\ UNCHANGED result
  BY DEF FrameAlloc, NoFramesLeft
<1>2. TypeOK /\ HandedBelow
  BY <1>1 DEF IndInv, Running
<1>3. index \in Int /\ max_frames \in Int
  BY <1>2 DEF TypeOK
<1>4. flag' \in 0 .. 15
  BY <1>1, <1>2, <1>3, FlagsNibble DEF TypeOK
<1>5. TypeOK'
  <2>1. result' \in Nat \cup {-1}
    BY <1>1, <1>2 DEF TypeOK
  <2>2. QED
    BY <1>1, <1>2, <1>4, <2>1 DEF TypeOK, boot_vars
<1>6. HandedBelow' /\ WalkCounts'
  BY <1>1, <1>2, HandedKept DEF WalkCounts
<1>7. Serving /\ Serving'
  BY <1>1 DEF Serving
<1>8. pc' = "search" => index' < max_frames
  BY <1>1, <1>3
<1>9. QED
  BY <1>1, <1>5, <1>6, <1>7, <1>8, ServingStep

LEMMA SkipFrameInv ==
  ASSUME IndInv, SkipFrame
  PROVE  IndInv'
<1>1. /\ pc = "search" /\ index' = index + 1 /\ flag' \in Flags(index + 1)
      /\ pc' = IF index + 1 < max_frames THEN "search" ELSE "halted"
      /\ failed' = IF index + 1 < max_frames THEN failed ELSE "search_overrun"
      /\ UNCHANGED <<i, bitmap, boot_vars, copy, map_idx, result, handed>>
  BY DEF SkipFrame, NextIndex, Chassert
<1>2. TypeOK /\ HandedBelow /\ HandedAscending /\ HandedClear
  BY <1>1 DEF IndInv, Running
<1>3. index + 1 \in Nat
  BY <1>2 DEF TypeOK
<1>4. flag' \in 0 .. 15
  BY <1>1, <1>2, <1>3, FlagsNibble
<1>5. TypeOK'
  BY <1>1, <1>2, <1>3, <1>4 DEF TypeOK, Assertions, boot_vars
<1>6. HandedAscending' /\ HandedClear'
  BY <1>1, <1>2, HandedKept
<1>7. CASE pc' = "halted"
  BY <1>5, <1>6, <1>7, HaltedInv
<1>8. CASE pc' = "search"
  <2>1. HandedBelow' /\ WalkCounts'
    BY <1>1, <1>2, <1>8, HandedBelowLater DEF WalkCounts
  <2>2. Serving /\ Serving' /\ index' < max_frames
    BY <1>1, <1>8 DEF Serving
  <2>3. QED
    BY <1>1, <1>5, <2>1, <2>2, ServingStep
<1>9. QED
  BY <1>1, <1>7, <1>8

LEMMA ClaimFrameInv ==
  ASSUME IndInv, ClaimFrame
  PROVE  IndInv'
<1>1. /\ pc = "search" /\ pc' = "walk" /\ flag' = flag % 8
      /\ bitmap' = WithFlags(index, flag % 8) /\ copy' = index /\ map_idx' = 0
      /\ UNCHANGED <<failed, i, boot_vars, index, result, handed>>
  BY DEF ClaimFrame
<1>2. TypeOK /\ HandedBelow /\ Counters /\ FramesNumbered /\ Unvisited
  BY <1>1 DEF IndInv, Running
<1>3. index \in Nat /\ flag % 8 \in 0 .. 7 /\ max_frames \in Nat
  BY <1>2, Nibbles DEF TypeOK
<1>4. TypeOK'
  <2>1. bitmap' \in [DOMAIN bitmap' -> 0 .. 255] /\ DOMAIN bitmap' \subseteq Nat
    <3>1. /\ DOMAIN bitmap' = DOMAIN bitmap
          /\ bitmap' \in [DOMAIN bitmap -> 0 .. 255]
      <4>1. index \in Int
        BY <1>3
      <4>2. /\ DOMAIN WithFlags(index, flag % 8) = DOMAIN bitmap
            /\ WithFlags(index, flag % 8) \in [DOMAIN bitmap -> 0 .. 255]
        BY <1>2, <1>3, <4>1, WithFlagsType
      <4>3. QED
        BY <1>1, <4>2
    <3>2. QED
      BY <1>2, <3>1 DEF TypeOK
  <2>2. flag' \in 0 .. 15 /\ copy' \in Int /\ map_idx' \in Nat
    BY <1>1, <1>3
  <2>3. QED
    BY <1>1, <1>2, <2>1, <2>2 DEF TypeOK, boot_vars
<1>5. HandedBelow'
  BY <1>1, <1>2, HandedKept
<1>6. index' < max_frames
  BY <1>1, <1>2 DEF Counters
<1>7. 0 < num_regions
  <2>1. frame_map # 0 /\ num_regions = usable_idx
    BY <1>1, <1>2 DEF Counters
  <2>2. QED
    BY <1>2, <2>1 DEF Counters
<1>8. WalkCounts'
  BY <1>1, <1>2, <1>3, <1>7 DEF WalkCounts, FramesNumbered, boot_vars
<1>9. QED
  BY <1>1, <1>4, <1>5, <1>6, <1>8, ServingStep DEF Serving

\* The regions and frame numbers of a walk, with their types.
LEMMA WalkFacts ==
  ASSUME IndInv, pc = "walk"
  PROVE  /\ TypeOK /\ Counters /\ FramesNumbered /\ RegionsSorted /\ FramesBounded
         /\ Visited /\ BitmapApart /\ WalkCounts /\ HandedBelow /\ HandedAscending
         /\ HandedClear
         /\ Located = Len(map) /\ usable_idx = num_regions
         /\ map_idx \in 0 .. num_regions - 1
         /\ num_regions \in 0 .. MaxRegions
         /\ index \in Nat /\ max_frames \in Nat /\ index < max_frames
         /\ copy \in 0 .. index
         /\ \A k \in 0 .. num_regions - 1 : /\ region_info[k].start \in Nat
                                            /\ region_info[k].pages \in Nat
                                            /\ first[k] \in Nat
                                            /\ first[k + 1] \in Nat
<1>1. /\ TypeOK /\ Counters /\ FramesNumbered /\ RegionsSorted /\ FramesBounded
      /\ Visited /\ BitmapApart /\ WalkCounts /\ HandedBelow /\ HandedAscending
      /\ HandedClear /\ Located = Len(map)
  BY DEF IndInv, Running, Located
<1>2. /\ num_regions \in 0 .. MaxRegions /\ index \in Nat /\ max_frames \in Nat
      /\ map_idx \in Nat
      /\ region_info \in [0 .. MaxRegions - 1 -> Region]
      /\ first \in [0 .. MaxRegions -> Nat]
  BY <1>1 DEF TypeOK
<1>3. usable_idx = num_regions /\ index < max_frames
  BY <1>1 DEF Counters
<1>4. map_idx \in 0 .. num_regions - 1
  BY <1>1, <1>2 DEF WalkCounts
<1>5. ASSUME NEW k \in 0 .. num_regions - 1
      PROVE  /\ region_info[k].start \in Nat /\ region_info[k].pages \in Nat
             /\ first[k] \in Nat /\ first[k + 1] \in Nat
  <2>1. k \in 0 .. MaxRegions - 1 /\ k \in 0 .. MaxRegions /\ k + 1 \in 0 .. MaxRegions
    BY <1>2, SizeAssumption
  <2>2. QED
    BY <1>2, <2>1 DEF Region
<1>6. copy \in 0 .. index
  BY <1>1, <1>2, <1>4, <1>5 DEF WalkCounts
<1>7. QED
  BY <1>1, <1>2, <1>3, <1>4, <1>5, <1>6

\* Within the 32-bit limits the signed cast of copy changes nothing.
LEMMA BeyondRegionExact ==
  ASSUME IndInv, pc = "walk"
  PROVE  BeyondRegion(copy, region_info[map_idx].pages)
           <=> copy >= region_info[map_idx].pages
<1>1. /\ copy \in 0 .. index /\ index \in Nat /\ max_frames \in Nat
      /\ index < max_frames /\ max_frames <= UintMod \div 2
  BY WalkFacts DEF FramesBounded
<1>2. copy \in Int /\ copy < UintMod \div 2 /\ 0 <= copy /\ copy < UintMod
  BY <1>1, UintModPositive
<1>3. copy % UintMod = copy
  BY <1>2, UintModPositive, Remainder
<1>4. QED
  BY <1>2, <1>3, UintModPositive DEF BeyondRegion

LEMMA SkipRegionInv ==
  ASSUME IndInv, SkipRegion
  PROVE  IndInv'
<1>1. /\ pc = "walk"
      /\ copy' = copy - region_info[map_idx].pages /\ map_idx' = map_idx + 1
      /\ pc' = IF map_idx + 1 < num_regions THEN "walk" ELSE "halted"
      /\ failed' = IF map_idx + 1 < num_regions THEN failed ELSE "region_overrun"
      /\ UNCHANGED <<i, bitmap, boot_vars, index, flag, result, handed>>
      /\ BeyondRegion(copy, region_info[map_idx].pages)
  BY DEF SkipRegion, Chassert
<1>2. copy >= region_info[map_idx].pages
  BY <1>1, BeyondRegionExact
<1>3. /\ TypeOK /\ HandedBelow /\ HandedAscending /\ HandedClear
      /\ map_idx \in 0 .. num_regions - 1 /\ num_regions \in Nat
      /\ index \in Nat /\ index < max_frames /\ copy \in 0 .. index
      /\ region_info[map_idx].pages \in Nat
      /\ first[map_idx] \in Nat /\ first[map_idx + 1] \in Nat
  BY <1>1, WalkFacts
<1>4. TypeOK'
  <2>1. copy' \in Int /\ map_idx' \in Nat
    BY <1>1, <1>3
  <2>2. QED
    BY <1>1, <1>3, <2>1 DEF TypeOK, Assertions, boot_vars
<1>5. HandedAscending' /\ HandedClear' /\ HandedBelow'
  BY <1>1, <1>3, HandedKept
<1>6. CASE pc' = "halted"
  BY <1>4, <1>5, <1>6, HaltedInv
<1>7. CASE pc' = "walk"
  <2>1. map_idx' < num_regions'
    BY <1>1, <1>7 DEF boot_vars
  <2>2. first[map_idx + 1] = first[map_idx] + region_info[map_idx].pages
    BY <1>1, WalkFacts DEF FramesNumbered
  <2>3. copy = index - first[map_idx]
    BY <1>1, WalkFacts DEF WalkCounts
  <2>4. first[map_idx + 1] <= index /\ copy' = index - first[map_idx + 1]
    BY <1>1, <1>2, <1>3, <2>2, <2>3
  <2>5. WalkCounts'
    BY <1>1, <2>1, <2>4 DEF WalkCounts, boot_vars
  <2>6. Serving /\ Serving' /\ index' < max_frames
    BY <1>1, <1>3, <1>7 DEF Serving
  <2>7. QED
    BY <1>1, <1>4, <1>5, <2>5, <2>6, ServingStep
<1>8. QED
  BY <1>1, <1>6, <1>7

\* Clearing a page keeps the bitmap a table of bytes.
LEMMA ZeroedType ==
  ASSUME TypeOK, NEW p
  PROVE  /\ DOMAIN Zeroed(p) = DOMAIN bitmap
         /\ Zeroed(p) \in [DOMAIN bitmap -> 0 .. 255]
  BY DEF TypeOK, Zeroed

\* The frame a walk ends on: a page of its region, which is usable memory
\* without a byte of the bitmap, above every frame handed out before.
LEMMA FrameFacts ==
  ASSUME IndInv, pc = "walk", \A m \in MemoryMaps : Fits32(m),
         ~BeyondRegion(copy, region_info[map_idx].pages)
  PROVE  LET frame == FrameAt(region_info[map_idx].start, copy)
         IN  /\ frame \in Nat
             /\ copy < region_info[map_idx].pages
             /\ frame = region_info[map_idx].start + copy
             /\ frame \in UsablePages(map)
             /\ \A o \in BitmapSpan : frame # frame_map + o
             /\ \A n \in DOMAIN handed : handed[n] < frame
<1> DEFINE r == region_info[map_idx]
           frame == FrameAt(r.start, copy)
<1>1. /\ TypeOK /\ Visited /\ BitmapApart /\ WalkCounts /\ HandedBelow /\ Counters
      /\ Located = Len(map) /\ usable_idx = num_regions
      /\ map_idx \in 0 .. num_regions - 1
      /\ index \in Nat /\ copy \in 0 .. index
      /\ r.start \in Nat /\ r.pages \in Nat /\ first[map_idx] \in Nat
  BY WalkFacts
<1>2. copy \in Nat /\ copy < r.pages
  BY <1>1, BeyondRegionExact
<1>3. PICK j \in 1 .. Len(map) : /\ Usable(map, j)
                                 /\ map[j].base <= r.start
                                 /\ r.start + r.pages = EntryEnd(map[j])
  BY <1>1 DEF Visited
<1>4. map \in MemoryMaps /\ map[j].base \in Nat /\ map[j].length \in Nat
  BY <1>1, MapFacts DEF TypeOK
<1>5. map[j].length <= WrapPages
  BY <1>3, <1>4 DEF Fits32
<1>6. copy < WrapPages
  BY <1>1, <1>2, <1>3, <1>4, <1>5, SizeAssumption DEF EntryEnd
<1>7. frame = r.start + copy
  <2>1. copy % WrapPages = copy
    <3>1. copy \in Int /\ 0 <= copy /\ WrapPages \in Nat \ {0}
      BY <1>2, SizeAssumption
    <3>2. QED
      BY <1>6, <3>1, Remainder
  <2>2. QED
    BY <2>1 DEF FrameAt
<1>8. frame \in Nat /\ frame \in map[j].base .. EntryEnd(map[j]) - 1
  BY <1>1, <1>2, <1>3, <1>4, <1>7 DEF EntryEnd
<1>9. frame \in UsablePages(map)
  BY <1>3, <1>8 DEF UsablePages, PagesOf
<1>10. ASSUME NEW o \in BitmapSpan PROVE frame # frame_map + o
  <2>1. bitmap_length \in Nat /\ frame_map \in Nat
    BY <1>1 DEF TypeOK
  <2>2. BitmapPages \in Nat /\ o \in 0 .. BitmapPages - 1
    BY <2>1, BitmapPagesFacts
  <2>3. frame_map # 0
    BY <1>1 DEF Counters
  <2>4. \/ r.start + r.pages <= frame_map
        \/ frame_map + BitmapPages <= r.start
    BY <1>1, <2>3 DEF BitmapApart
  <2>5. o \in 0 .. BitmapPages - 1 /\ r.start \in Nat /\ r.pages \in Nat
    BY <1>1, <2>2
  <2> HIDE DEF frame, r
  <2>6. QED
    BY <1>2, <1>7, <2>1, <2>2, <2>4, <2>5
<1>11. ASSUME NEW n \in DOMAIN handed PROVE handed[n] < frame
  <2>1. first[map_idx] + copy >= index
    BY <1>1 DEF WalkCounts
  <2>2. copy \in 0 .. r.pages - 1
    BY <1>1, <1>2
  <2>3. QED
    BY <1>1, <1>7, <2>1, <2>2 DEF HandedBelow
<1>12. QED
  BY <1>2, <1>7, <1>8, <1>9, <1>10, <1>11

\* Frame numbers that come after this one have addresses after its address.
LEMMA LaterFramesAbove ==
  ASSUME IndInv, pc = "walk", copy < region_info[map_idx].pages,
         NEW k \in 0 .. num_regions - 1, NEW c \in 0 .. region_info[k].pages - 1,
         first[k] + c >= index + 1
  PROVE  region_info[map_idx].start + copy < region_info[k].start + c
<1>1. /\ FramesNumbered /\ RegionsSorted /\ WalkCounts /\ usable_idx = num_regions
      /\ num_regions \in Nat
      /\ map_idx \in 0 .. num_regions - 1 /\ index \in Nat /\ copy \in 0 .. index
      /\ \A l \in 0 .. num_regions - 1 : /\ region_info[l].start \in Nat
                                         /\ region_info[l].pages \in Nat
                                         /\ first[l] \in Nat
  BY WalkFacts
<1>2. copy = index - first[map_idx]
  BY <1>1 DEF WalkCounts
<1>3. CASE k = map_idx
  BY <1>1, <1>2, <1>3
<1>4. CASE k > map_idx
  <2>1. region_info[map_idx].start + region_info[map_idx].pages <= region_info[k].start
    BY <1>1, <1>4 DEF RegionsSorted
  <2>2. QED
    BY <1>1, <2>1
<1>5. CASE k < map_idx
  <2>1. first[k] + region_info[k].pages <= first[map_idx]
    BY <1>1, <1>5 DEF FramesNumbered
  <2>2. QED
    BY <1>1, <1>2, <2>1
<1>6. QED
  BY <1>1, <1>3, <1>4, <1>5

LEMMA ReturnFrameInv ==
  ASSUME IndInv, ReturnFrame, \A m \in MemoryMaps : Fits32(m)
  PROVE  IndInv'
<1> DEFINE frame == FrameAt(region_info[map_idx].start, copy)
<1>1. /\ pc = "walk" /\ pc' = "ready" /\ index' = index + 1
      /\ ~BeyondRegion(copy, region_info[map_idx].pages)
      /\ bitmap' = Zeroed(frame) \/ bitmap' = bitmap
      /\ result' = frame /\ handed' = Append(handed, frame)
      /\ UNCHANGED <<failed, i, boot_vars, flag, copy, map_idx>>
  BY DEF ReturnFrame
<1>2. /\ frame \in Nat /\ copy < region_info[map_idx].pages
      /\ frame = region_info[map_idx].start + copy
      /\ frame \in UsablePages(map)
      /\ \A o \in BitmapSpan : frame # frame_map + o
      /\ \A n \in DOMAIN handed : handed[n] < frame
  BY <1>1, FrameFacts
<1>3. TypeOK /\ HandedBelow /\ HandedAscending /\ HandedClear /\ Counters /\ BootFacts
  BY <1>1 DEF IndInv, Running, BootFacts
<1>4. /\ handed \in Seq(Nat) /\ Len(handed) \in Nat
      /\ Len(handed') = Len(handed) + 1
      /\ DOMAIN handed = 1 .. Len(handed)
      /\ DOMAIN handed' = 1 .. Len(handed) + 1
      /\ handed'[Len(handed) + 1] = frame
      /\ \A n \in DOMAIN handed : handed'[n] = handed[n]
      /\ handed' \in Seq(Nat)
  <2>1. handed \in Seq(Nat) /\ frame \in Nat /\ handed' = Append(handed, frame)
    BY <1>1, <1>2, <1>3 DEF TypeOK
  <2> HIDE DEF frame
  <2>2. QED
    BY <2>1
<1>5. TypeOK'
  <2>1. bitmap' \in [DOMAIN bitmap' -> 0 .. 255] /\ DOMAIN bitmap' \subseteq Nat
    <3>1. /\ DOMAIN Zeroed(frame) = DOMAIN bitmap
          /\ Zeroed(frame) \in [DOMAIN bitmap -> 0 .. 255]
      BY <1>3, ZeroedType
    <3>2. bitmap \in [DOMAIN bitmap -> 0 .. 255] /\ DOMAIN bitmap \subseteq Nat
      BY <1>3 DEF TypeOK
    <3>3. CASE bitmap' = bitmap
      BY <3>2, <3>3
    <3>4. CASE bitmap' = Zeroed(frame)
      BY <3>1, <3>2, <3>4
    <3>5. QED
      BY <1>1, <3>3, <3>4
  <2>2. result' \in Nat \cup {-1} /\ index' \in Nat
    BY <1>1, <1>2, <1>3 DEF TypeOK
  <2>3. QED
    BY <1>1, <1>3, <1>4, <2>1, <2>2 DEF TypeOK, boot_vars
<1>6. \A n \in DOMAIN handed' : n \in DOMAIN handed \/ n = Len(handed) + 1
  BY <1>4
<1>7. HandedAscending'
  <2> SUFFICES ASSUME NEW m \in DOMAIN handed', NEW n \in DOMAIN handed', m < n
               PROVE  handed'[m] < handed'[n]
    BY DEF HandedAscending
  <2>1. m \in DOMAIN handed
    BY <1>4
  <2>2. CASE n \in DOMAIN handed
    BY <1>3, <1>4, <2>1, <2>2 DEF HandedAscending
  <2>3. CASE n = Len(handed) + 1
    BY <1>2, <1>4, <2>1, <2>3
  <2>4. QED
    BY <1>6, <2>2, <2>3
<1>8. HandedClear'
  <2>1. map' = map /\ frame_map' = frame_map /\ bitmap_length' = bitmap_length
    BY <1>1 DEF boot_vars
  <2>2. BitmapSpan' = BitmapSpan
    BY <2>1 DEF BitmapSpan
  <2>3. ASSUME NEW n \in DOMAIN handed'
        PROVE  /\ handed'[n] \in UsablePages(map)
               /\ \A o \in BitmapSpan : handed'[n] # frame_map + o
    <3>1. CASE n \in DOMAIN handed
      BY <1>3, <1>4, <3>1 DEF HandedClear, Owned
    <3>2. CASE n = Len(handed) + 1
      BY <1>2, <1>4, <3>2
    <3>3. QED
      BY <1>6, <3>1, <3>2
  <2>4. QED
    BY <2>1, <2>2, <2>3 DEF HandedClear, Owned
<1>9. HandedBelow'
  <2> SUFFICES ASSUME NEW n \in DOMAIN handed', NEW k \in 0 .. num_regions - 1,
                      NEW c \in 0 .. region_info[k].pages - 1, first[k] + c >= index + 1
               PROVE  handed'[n] < region_info[k].start + c
    BY <1>1 DEF HandedBelow, boot_vars
  <2>1. CASE n \in DOMAIN handed
    <3>1. first[k] \in Nat /\ index \in Nat /\ c \in Nat /\ region_info[k].pages \in Nat
      BY <1>1, WalkFacts
    <3>2. first[k] + c >= index
      BY <3>1
    <3>3. QED
      BY <1>3, <1>4, <2>1, <3>2 DEF HandedBelow
  <2>2. CASE n = Len(handed) + 1
    BY <1>1, <1>2, <1>4, <2>2, LaterFramesAbove
  <2>3. QED
    BY <1>6, <2>1, <2>2
<1>10. BootFacts'
  BY <1>1, <1>3, BootFactsKept
<1>11. Counters'
  BY <1>1, <1>3 DEF Counters, Booting, Scanned, boot_vars
<1>12. WalkCounts'
  BY <1>1 DEF WalkCounts
<1>13. QED
  BY <1>1, <1>5, <1>7, <1>8, <1>9, <1>10, <1>11, <1>12 DEF IndInv, Running, BootFacts

LEMMA FrameFreeInv ==
  ASSUME IndInv, FrameFree
  PROVE  IndInv'
<1>1. /\ pc = "ready" /\ pc' = "halted"
      /\ failed' \in {"not_impl", "already_freed"}
      /\ UNCHANGED <<i, bitmap, boot_vars, index, copy, map_idx, result, handed>>
  BY DEF FrameFree
<1>2. TypeOK /\ HandedAscending /\ HandedClear
  BY DEF IndInv
<1>3. flag' \in 0 .. 15
  <2>1. PICK n \in DOMAIN handed : flag' \in Flags(handed[n] * PageSize)
    BY DEF FrameFree
  <2>2. handed[n] * PageSize \in Int
    <3>1. handed[n] \in Nat
      BY <1>2 DEF TypeOK
    <3>2. QED
      BY <3>1, SizeAssumption
  <2>3. QED
    BY <1>2, <2>1, <2>2, FlagsNibble
<1>4. TypeOK'
  BY <1>1, <1>2, <1>3 DEF TypeOK, Assertions, boot_vars
<1>5. QED
  BY <1>1, <1>2, <1>4, HandedKept, HaltedInv

LEMMA StutterInv ==
  ASSUME IndInv, UNCHANGED vars
  PROVE  IndInv'
<1> USE DEF vars, boot_vars, alloc_vars
<1>1. TypeOK'
  BY DEF IndInv, TypeOK
<1>2. HandedAscending' /\ HandedClear'
  BY HandedKept DEF IndInv
<1>3. Running => BootFacts' /\ Counters' /\ WalkCounts' /\ HandedBelow'
  <2> SUFFICES ASSUME Running PROVE BootFacts' /\ Counters' /\ WalkCounts' /\ HandedBelow'
    OBVIOUS
  <2>1. /\ FramesBounded /\ Unvisited /\ Visited /\ RegionsSorted /\ FramesNumbered
        /\ BitmapApart /\ Counters /\ WalkCounts /\ HandedBelow
    BY DEF IndInv
  <2>2. Scanned' = Scanned /\ Located' = Located /\ BitmapPages' = BitmapPages
    BY DEF Scanned, Located, BitmapPages
  <2>3. FramesBounded' /\ RegionsSorted' /\ FramesNumbered' /\ WalkCounts'
    BY <2>1 DEF FramesBounded, RegionsSorted, FramesNumbered, WalkCounts
  <2>4. Unvisited' /\ Visited' /\ BitmapApart'
    BY <2>1, <2>2 DEF Unvisited, Visited, BitmapApart
  <2>5. Counters' /\ HandedBelow'
    BY <2>1, <2>2, HandedKept DEF Counters, Booting
  <2>6. QED
    BY <2>3, <2>4, <2>5 DEF BootFacts
<1>4. QED
  BY <1>1, <1>2, <1>3 DEF IndInv, Running, BootFacts

LEMMA StepInv ==
  ASSUME IndInv, [Next]_vars, \A m \in MemoryMaps : Fits32(m)
  PROVE  IndInv'
<1>1. CASE InitializeMemmap
  BY <1>1, InitializeMemmapInv
<1>2. CASE RecordEntry
  BY <1>2, RecordEntryInv
<1>3. CASE EndScan
  BY <1>3, EndScanInv
<1>4. CASE LocateForBitmap
  BY <1>4, LocateForBitmapInv
<1>5. CASE EndLocate
  BY <1>5, EndLocateInv
<1>6. CASE FillByte
  BY <1>6, FillByteInv
<1>7. CASE EndFill
  BY <1>7, EndFillInv
<1>8. CASE FrameAlloc
  BY <1>8, FrameAllocInv
<1>9. CASE SkipFrame
  BY <1>9, SkipFrameInv
<1>10. CASE ClaimFrame
  BY <1>10, ClaimFrameInv
<1>11. CASE SkipRegion
  BY <1>11, SkipRegionInv
<1>12. CASE ReturnFrame
  BY <1>12, ReturnFrameInv
<1>13. CASE FrameFree
  BY <1>13, FrameFreeInv
<1>14. CASE Hcf \/ UNCHANGED vars
  BY <1>14, StutterInv DEF Hcf
<1>15. QED
  BY <1>1, <1>2, <1>3, <1>4, <1>5, <1>6, <1>7, <1>8, <1>9, <1>10, <1>11, <1>12,
     <1>13, <1>14 DEF Next, Boot, Alloc
-----------------------------------------------------------------------------
(* Theorems *)

\* IndInv holds throughout, on every memory map within the 32-bit limits.
THEOREM Invariance ==
  ASSUME \A m \in MemoryMaps : Fits32(m)
  PROVE  Spec => []IndInv
<1>1. Init => IndInv
  BY InitInv
<1>2. IndInv /\ [Next]_vars => IndInv'
  BY StepInv
<1>3. QED
  BY <1>1, <1>2, PTL DEF Spec

\* Every variable of the allocator keeps its type; in particular no region
\* is ever given a negative number of pages by locate_for_bitmap.
THEOREM TypeCorrectness ==
  ASSUME \A m \in MemoryMaps : Fits32(m)
  PROVE  Spec => []TypeOK
<1>1. IndInv => TypeOK
  BY DEF IndInv
<1>2. QED
  BY <1>1, Invariance, PTL

\* frame_alloc hands out every frame at most once, in ascending order.
THEOREM NeverTwice ==
  ASSUME \A m \in MemoryMaps : Fits32(m)
  PROVE  Spec => []HandedAscending
<1>1. IndInv => HandedAscending
  BY DEF IndInv
<1>2. QED
  BY <1>1, Invariance, PTL

\* frame_alloc hands out usable memory only, and never a page that holds a
\* byte of the frame bitmap.
THEOREM BitmapUntouched ==
  ASSUME \A m \in MemoryMaps : Fits32(m)
  PROVE  Spec => []HandedClear
<1>1. IndInv => HandedClear
  BY DEF IndInv
<1>2. QED
  BY <1>1, Invariance, PTL

-----------------------------------------------------------------------------
(* The allocator implements FrameSupply *)

LEMMA FailedHaltsInv ==
  /\ Init => FailedHalts
  /\ FailedHalts /\ [Next]_vars => FailedHalts'
<1>1. Init => FailedHalts
  BY DEF Init, FailedHalts
<1>2. ASSUME FailedHalts, [Next]_vars PROVE FailedHalts'
  <2> USE DEF FailedHalts, Chassert
  <2>1. CASE InitializeMemmap \/ RecordEntry \/ EndScan
    BY <1>2, <2>1 DEF InitializeMemmap, RecordEntry, EndScan
  <2>2. CASE LocateForBitmap \/ EndLocate \/ FillByte \/ EndFill
    BY <1>2, <2>2 DEF LocateForBitmap, EndLocate, FillByte, EndFill
  <2>3. CASE FrameAlloc \/ SkipFrame \/ ClaimFrame
    BY <1>2, <2>3 DEF FrameAlloc, SkipFrame, ClaimFrame
  <2>4. CASE SkipRegion \/ ReturnFrame \/ FrameFree
    BY <1>2, <2>4 DEF SkipRegion, ReturnFrame, FrameFree
  <2>5. CASE Hcf \/ UNCHANGED vars
    BY <1>2, <2>5 DEF Hcf, vars
  <2>6. QED
    BY <1>2, <2>1, <2>2, <2>3, <2>4, <2>5 DEF Next, Boot, Alloc
<1>3. QED
  BY <1>1, <1>2

\* Steps that leave regions and hand-outs alone leave the supply alone, but
\* for its state.
LEMMA SupplyKept ==
  ASSUME UNCHANGED <<map, num_regions, region_info, handed>>
  PROVE  /\ UsablePages(map)' = UsablePages(map)
         /\ Owned' = Owned
         /\ RegionPages' = RegionPages
  BY DEF Owned, RegionPages

\* When the boot is over, every page of a region is usable memory.
LEMMA RegionsUsable ==
  ASSUME IndInv, Running, pc \notin {"scan", "locate"}
  PROVE  RegionPages \subseteq UsablePages(map)
<1>1. /\ TypeOK /\ Visited /\ usable_idx = num_regions /\ Located = Len(map)
  BY DEF IndInv, Running, Counters, Located
<1> SUFFICES ASSUME NEW k \in 0 .. num_regions - 1,
                    NEW p \in region_info[k].start ..
                              region_info[k].start + region_info[k].pages - 1
             PROVE  p \in UsablePages(map)
  BY DEF RegionPages
<1>2. PICK j \in 1 .. Len(map) :
        /\ Usable(map, j)
        /\ map[j].base <= region_info[k].start
        /\ region_info[k].start + region_info[k].pages = EntryEnd(map[j])
  BY <1>1 DEF Visited
<1>3. /\ map[j].base \in Nat /\ map[j].length \in Nat
      /\ region_info[k].start \in Nat /\ region_info[k].pages \in Nat
  <2>1. map \in MemoryMaps /\ num_regions \in 0 .. MaxRegions
        /\ region_info \in [0 .. MaxRegions - 1 -> Region]
    BY <1>1 DEF TypeOK
  <2>2. region_info[k] \in Region
    BY <2>1, SizeAssumption
  <2>3. QED
    BY <2>1, <2>2, MapFacts DEF Region
<1>4. EntryEnd(map[j]) \in Nat
  BY <1>3 DEF EntryEnd
<1>5. p \in Int /\ map[j].base <= p /\ p <= EntryEnd(map[j]) - 1
  <2>1. /\ p \in Int /\ region_info[k].start <= p
        /\ p <= region_info[k].start + region_info[k].pages - 1
    BY <1>3
  <2>2. map[j].base <= p
    BY <1>2, <1>3, <2>1
  <2>3. p <= EntryEnd(map[j]) - 1
    BY <1>2, <1>3, <2>1
  <2>4. QED
    BY <2>1, <2>2, <2>3
<1>6. p \in map[j].base .. EntryEnd(map[j]) - 1
  BY <1>3, <1>4, <1>5
<1>7. QED
  BY <1>2, <1>6 DEF UsablePages, PagesOf

LEMMA SupplyStep ==
  ASSUME IndInv, FailedHalts, FailedHalts', [Next]_vars,
         \A m \in MemoryMaps : Fits32(m)
  PROVE  [Supply!Next]_(Supply!vars)
<1> USE DEF Supply!Next, Supply!vars
<1>1. CASE InitializeMemmap
  <2>1. /\ pc = "start" /\ UNCHANGED <<map, num_regions, region_info, handed>>
        /\ \/ pc' = "scan" /\ failed' = failed
           \/ pc' = "halted" /\ failed' = "entry_count"
    BY <1>1 DEF InitializeMemmap, Chassert, boot_vars, alloc_vars
  <2>2. QED
    BY <2>1, SupplyKept DEF SupplyState, SupplyFree, Booting, Supply!Halt
<1>2. CASE RecordEntry \/ EndScan \/ LocateForBitmap \/ FillByte
  <2>1. /\ pc \in {"scan", "locate", "fill"} /\ pc' \in {"scan", "locate", "fill"}
        /\ map' = map /\ handed' = handed
    BY <1>2 DEF RecordEntry, EndScan, LocateForBitmap, FillByte, boot_vars, alloc_vars
  <2>2. UsablePages(map)' = UsablePages(map) /\ Owned' = Owned
    BY <2>1 DEF Owned
  <2>3. QED
    BY <2>1, <2>2 DEF SupplyState, SupplyFree, Booting
<1>3. CASE EndLocate
  <2>1. /\ pc = "locate" /\ UNCHANGED <<map, num_regions, region_info, handed>>
        /\ \/ pc' = "fill" /\ failed' = failed
           \/ pc' = "halted" /\ failed' = "no_bitmap"
    BY <1>3 DEF EndLocate, Chassert, boot_vars, alloc_vars
  <2>2. QED
    BY <2>1, SupplyKept DEF SupplyState, SupplyFree, Booting, Supply!Halt
<1>4. CASE EndFill
  <2>1. /\ pc = "fill" /\ pc' = "ready" /\ failed' = failed
        /\ UNCHANGED <<map, num_regions, region_info, handed>>
    BY <1>4 DEF EndFill, boot_vars, alloc_vars
  <2>2. RegionPages \subseteq UsablePages(map)
    BY <2>1, RegionsUsable DEF Running
  <2>3. SupplyFree' = RegionPages' \ Owned'
    BY <2>1 DEF SupplyFree, Booting, FailedHalts
  <2>4. SupplyState = "booting" /\ SupplyState' = "ready"
    BY <2>1 DEF SupplyState, Booting
  <2>5. SupplyFree' \in SUBSET UsablePages(map)
    BY <2>1, <2>2, <2>3, SupplyKept
  <2>6. QED
    BY <2>1, <2>4, <2>5, SupplyKept DEF Supply!Open
<1>5. CASE FrameAlloc \/ ClaimFrame
  <2>1. /\ pc \in {"ready", "search"} /\ pc' \in {"ready", "search", "walk"}
        /\ failed' = failed /\ UNCHANGED <<map, num_regions, region_info, handed>>
    BY <1>5 DEF FrameAlloc, ClaimFrame, boot_vars
  <2>2. QED
    BY <2>1, SupplyKept DEF SupplyState, SupplyFree, Booting
<1>6. CASE SkipFrame \/ SkipRegion \/ FrameFree
  <2>1. /\ pc \in {"ready", "search", "walk"} /\ pc' \in {"search", "walk", "halted"}
        /\ UNCHANGED <<map, num_regions, region_info, handed>>
        /\ failed' = failed \/ failed' \notin {"entry_count", "no_bitmap"}
    BY <1>6 DEF SkipFrame, SkipRegion, FrameFree, Chassert, boot_vars
  <2>2. failed = "none"
    BY <2>1 DEF FailedHalts
  <2>3. SupplyFree' = SupplyFree
    BY <2>1, <2>2, SupplyKept DEF SupplyFree, Booting
  <2>4. SupplyState = "ready" /\ SupplyState' \in {"ready", "halted"}
    BY <2>1 DEF SupplyState, Booting
  <2>5. QED
    BY <2>1, <2>3, <2>4, SupplyKept DEF Supply!Halt
<1>7. CASE ReturnFrame
  <2> DEFINE frame == FrameAt(region_info[map_idx].start, copy)
  <2>1. /\ pc = "walk" /\ pc' = "ready" /\ failed' = failed
        /\ handed' = Append(handed, frame)
        /\ UNCHANGED <<map, num_regions, region_info>>
        /\ ~BeyondRegion(copy, region_info[map_idx].pages)
    BY <1>7 DEF ReturnFrame, boot_vars
  <2>2. /\ frame \in Nat /\ copy < region_info[map_idx].pages
        /\ frame = region_info[map_idx].start + copy
        /\ \A n \in DOMAIN handed : handed[n] < frame
    BY <2>1, FrameFacts
  <2>3. /\ handed \in Seq(Nat) /\ map_idx \in 0 .. num_regions - 1
        /\ copy \in Nat /\ region_info[map_idx].start \in Nat
        /\ region_info[map_idx].pages \in Nat
    BY <2>1, WalkFacts DEF TypeOK
  <2>4. Owned' = Owned \cup {frame}
    <3> HIDE DEF frame
    <3>1. /\ DOMAIN handed' = DOMAIN handed \cup {Len(handed) + 1}
          /\ handed'[Len(handed) + 1] = frame
          /\ \A n \in DOMAIN handed : handed'[n] = handed[n]
      BY <2>1, <2>2, <2>3
    <3>2. QED
      BY <3>1 DEF Owned
  <2>5. \A g \in Owned : g < frame
    BY <2>2 DEF Owned
  <2>6. frame \notin Owned
    BY <2>2, <2>5
  <2>7. frame \in RegionPages
    <3>1. frame \in region_info[map_idx].start ..
                   region_info[map_idx].start + region_info[map_idx].pages - 1
      BY <2>2, <2>3
    <3>2. QED
      BY <2>3, <3>1 DEF RegionPages
  <2>8. failed = "none" /\ failed' = "none"
    BY <2>1 DEF FailedHalts
  <2>9. RegionPages' = RegionPages /\ UsablePages(map)' = UsablePages(map)
    BY <2>1 DEF RegionPages
  <2>10. SupplyFree = RegionPages \ Owned /\ SupplyFree' = SupplyFree \ {frame}
    BY <2>1, <2>4, <2>8, <2>9 DEF SupplyFree, Booting
  <2>11. SupplyState = "ready" /\ SupplyState' = "ready"
    BY <2>1 DEF SupplyState, Booting
  <2>12. Supply!Alloc(frame) /\ frame \in SupplyFree
    BY <2>4, <2>5, <2>6, <2>7, <2>9, <2>10, <2>11 DEF Supply!Alloc
  <2>13. QED
    BY <2>12
<1>8. CASE Hcf \/ UNCHANGED vars
  <2>1. UNCHANGED <<map, num_regions, region_info, handed, pc, failed>>
    BY <1>8 DEF Hcf, vars, boot_vars, alloc_vars
  <2>2. QED
    BY <2>1, SupplyKept DEF SupplyState, SupplyFree, Booting
<1>9. QED
  BY <1>1, <1>2, <1>3, <1>4, <1>5, <1>6, <1>7, <1>8 DEF Next, Boot, Alloc

\* The physical allocator implements the frame supply: whatever bitmap,
\* regions and index do, callers see frames of usable memory appear once,
\* in ascending order, or the processor halt.
THEOREM SupplyRefinement ==
  ASSUME \A m \in MemoryMaps : Fits32(m)
  PROVE  Spec => SupplySpec
<1>1. Init => Supply!Init
  <2> SUFFICES ASSUME Init PROVE Supply!Init
    OBVIOUS
  <2>1. map \in MemoryMaps /\ pc = "start" /\ handed = <<>>
    BY DEF Init
  <2>2. UsablePages(map) \subseteq Nat
    <3> SUFFICES ASSUME NEW k \in 1 .. Len(map), Usable(map, k),
                        NEW p \in map[k].base .. EntryEnd(map[k]) - 1
                 PROVE  p \in Nat
      BY DEF UsablePages, PagesOf
    <3>1. map[k].base \in Nat /\ map[k].length \in Nat
      BY <2>1, MapFacts
    <3>2. QED
      BY <3>1 DEF EntryEnd
  <2>3. Owned = {} /\ SupplyFree = {} /\ SupplyState = "booting"
    BY <2>1 DEF Owned, SupplyFree, SupplyState, Booting
  <2>4. QED
    BY <2>2, <2>3 DEF Supply!Init
<1>2. IndInv /\ FailedHalts /\ FailedHalts' /\ [Next]_vars => [Supply!Next]_(Supply!vars)
  BY SupplyStep
<1>3. Init => FailedHalts
  BY FailedHaltsInv
<1>4. FailedHalts /\ [Next]_vars => FailedHalts'
  BY FailedHaltsInv
<1>5. QED
  BY <1>1, <1>2, <1>3, <1>4, Invariance, PTL DEF Spec, SupplySpec, Supply!Spec

-----------------------------------------------------------------------------
(* The bitmap *)

\* A number is its half and its parity.
LEMMA Parity ==
  \A n \in Nat : /\ n \div 2 \in Nat /\ n % 2 \in {0, 1}
                 /\ n = 2 * (n \div 2) + (n % 2)
  OBVIOUS

\* The two nibbles of a byte are set one at a time.
LEMMA NibbleCleared ==
  \A b \in 0 .. 255 :
    /\ (16 * 0 + (b % 16)) \div 16 = 0 /\ (16 * 0 + (b % 16)) % 16 = b % 16
    /\ (16 * (b \div 16) + 0) \div 16 = b \div 16 /\ (16 * (b \div 16) + 0) % 16 = 0
  OBVIOUS

\* Below its last frame the bitmap has a byte for a frame.
LEMMA ByteThere ==
  ASSUME NEW l \in Nat, NEW f \in 0 .. 2 * l - 1
  PROVE  f \in Nat /\ f \div 2 \in 0 .. l - 1
<1>1. f \in Nat /\ f = 2 * (f \div 2) + (f % 2) /\ f \div 2 \in Nat /\ f % 2 \in {0, 1}
  BY Parity
<1>2. QED
  BY <1>1

\* A byte that has been filled is that of two free frames.
LEMMA FilledNibbles ==
  ASSUME NEW f \in Nat, f \div 2 \in DOMAIN bitmap, bitmap[f \div 2] = BothAvail
  PROVE  Flags(f) = {8}
<1>1. BothAvail \div 16 = 8 /\ BothAvail % 16 = 8
  BY DEF BothAvail
<1>2. QED
  BY <1>1 DEF Flags

\* Taking one frame leaves the nibbles of all others alone.
LEMMA ClaimNibbles ==
  ASSUME TypeOK, BitmapKept, pc = "search", Avail(flag), bitmap' = WithFlags(index, flag % 8),
         NEW f \in 0 .. 2 * bitmap_length - 1
  PROVE  Flags(f)' = {IF f < index + 1 THEN 0 ELSE 8}
<1> DEFINE b == index \div 2
<1>1. /\ index \in Nat /\ bitmap_length \in Nat
      /\ bitmap \in [DOMAIN bitmap -> 0 .. 255]
  BY DEF TypeOK
<1>2. /\ DOMAIN bitmap = 0 .. bitmap_length - 1
      /\ \A g \in 0 .. 2 * bitmap_length - 1 : Flags(g) = {IF g < index THEN 0 ELSE 8}
      /\ flag \in Flags(index)
  BY DEF BitmapKept, Serving, Taken
<1>3. f \in Nat /\ f \div 2 \in DOMAIN bitmap
  BY <1>1, <1>2, ByteThere
<1>4. /\ DOMAIN bitmap' = DOMAIN bitmap
      /\ \A c \in DOMAIN bitmap : c # b => bitmap'[c] = bitmap[c]
  BY DEF WithFlags
<1>5. Flags(f) = {IF f < index THEN 0 ELSE 8}
  BY <1>2
<1>6. CASE f \div 2 # b
  <2>1. Flags(f)' = Flags(f)
    BY <1>3, <1>4, <1>6 DEF Flags
  <2>2. f # index
    BY <1>6
  <2>3. f < index <=> f < index + 1
    BY <1>1, <1>3, <2>2
  <2>4. QED
    BY <1>5, <2>1, <2>3
<1>7. CASE f \div 2 = b
  <2>1. index \in 0 .. 2 * bitmap_length - 1
    <3>1. index = 2 * b + (index % 2) /\ index % 2 \in {0, 1} /\ b \in Nat
      BY <1>1, Parity
    <3>2. b \in 0 .. bitmap_length - 1
      BY <1>2, <1>3, <1>7
    <3>3. QED
      BY <1>1, <3>1, <3>2
  <2>2. Flags(index) = {IF index < index THEN 0 ELSE 8} /\ ~(index < index)
    BY <1>1, <1>2, <2>1
  <2>3. flag = 8
    BY <1>2, <2>2
  <2>4. flag % 8 = 0
    BY <2>3
  <2>5. b \in DOMAIN bitmap /\ bitmap[b] \in 0 .. 255
    BY <1>1, <1>3, <1>7
  <2>6. bitmap'[b] = IF index % 2 = 0 THEN 16 * 0 + (bitmap[b] % 16)
                                      ELSE 16 * (bitmap[b] \div 16) + 0
    BY <2>4, <2>5 DEF WithFlags
  <2>7. Flags(f)' = IF f % 2 = 0 THEN {bitmap'[b] \div 16} ELSE {bitmap'[b] % 16}
    BY <1>4, <1>7, <2>5 DEF Flags
  <2>8. Flags(f) = IF f % 2 = 0 THEN {bitmap[b] \div 16} ELSE {bitmap[b] % 16}
    BY <1>7, <2>5 DEF Flags
  <2>9. CASE f = index
    <3>1. Flags(f)' = {0}
      BY <2>5, <2>6, <2>7, <2>9, NibbleCleared
    <3>2. f < index + 1
      BY <1>1, <2>9
    <3>3. QED
      BY <3>1, <3>2
  <2>10. CASE f # index
    <3>1. /\ f % 2 \in {0, 1} /\ index % 2 \in {0, 1}
          /\ f = 2 * b + (f % 2) /\ index = 2 * b + (index % 2)
      BY <1>1, <1>3, <1>7, Parity
    <3>2. f % 2 # index % 2
      BY <2>10, <3>1
    <3>3. Flags(f)' = Flags(f)
      <4>1. CASE f % 2 = 0
        <5>1. bitmap'[b] = 16 * (bitmap[b] \div 16) + 0
          BY <2>6, <3>2, <4>1
        <5>2. bitmap'[b] \div 16 = bitmap[b] \div 16
          BY <2>5, <5>1, NibbleCleared
        <5>3. QED
          BY <2>7, <2>8, <4>1, <5>2
      <4>2. CASE f % 2 # 0
        <5>1. index % 2 = 0
          BY <3>1, <3>2, <4>2
        <5>2. bitmap'[b] % 16 = bitmap[b] % 16
          BY <2>5, <2>6, <5>1, NibbleCleared
        <5>3. QED
          BY <2>7, <2>8, <4>2, <5>2
      <4>3. QED
        BY <4>1, <4>2
    <3>4. f < index <=> f < index + 1
      BY <1>1, <1>3, <2>10
    <3>5. QED
      BY <1>5, <3>3, <3>4
  <2>11. QED
    BY <2>9, <2>10
<1>8. QED
  BY <1>6, <1>7

\* The counter of initialize_bitmap does not wrap: the bitmap is shorter.
LEMMA FillBelow ==
  ASSUME IndInv, BitmapKept, pc = "fill", i < bitmap_length
  PROVE  NextByte = i + 1 /\ i \in Nat /\ bitmap_length \in Nat
<1>1. /\ i \in Nat /\ max_frames \in Nat /\ bitmap_length \in Nat
      /\ max_frames <= UintMod \div 2 /\ bitmap_length = max_frames \div 2
  BY DEF IndInv, TypeOK, Running, FramesBounded, BitmapKept, BitmapBytes
<1>2. /\ 2 * bitmap_length <= max_frames /\ 2 * (UintMod \div 2) <= UintMod
      /\ UintMod \div 2 \in Nat
  BY <1>1, UintModPositive, Parity
<1>3. i + 1 \in Nat /\ i + 1 < UintMod
  BY <1>1, <1>2, UintModPositive
<1>4. (i + 1) % UintMod = i + 1
  <2>1. i + 1 \in Int /\ 0 <= i + 1 /\ UintMod \in Nat \ {0}
    BY <1>3, UintModPositive
  <2>2. QED
    BY <1>3, <2>1, Remainder
<1>5. QED
  BY <1>1, <1>4 DEF NextByte

\* Clearing a frame that was handed out touches no byte of the bitmap.
LEMMA ZeroedNothing ==
  ASSUME NEW p, \A o \in BitmapSpan : p # frame_map + o, DOMAIN bitmap = 0 .. bitmap_length - 1,
         bitmap \in [DOMAIN bitmap -> 0 .. 255]
  PROVE  Zeroed(p) = bitmap
<1>1. \A b \in DOMAIN bitmap : frame_map + (b \div PageSize) # p
  BY DEF BitmapSpan
<1>2. Zeroed(p) = [b \in DOMAIN bitmap |-> bitmap[b]]
  BY <1>1 DEF Zeroed
<1>3. QED
  BY <1>2

LEMMA BitmapBooted ==
  ASSUME IndInv, BitmapKept, Boot
  PROVE  BitmapKept'
<1>1. TypeOK
  BY DEF IndInv
<1>2. CASE InitializeMemmap \/ RecordEntry \/ EndScan \/ LocateForBitmap
  <2>1. /\ pc \in {"start", "scan", "locate"} /\ pc' \in {"scan", "locate", "halted"}
        /\ bitmap' = bitmap
        /\ pc' = "locate" => bitmap_length' = BitmapBytes'
    BY <1>2 DEF InitializeMemmap, RecordEntry, EndScan, LocateForBitmap, Chassert, boot_vars,
                BitmapBytes, BitmapKept
  <2>2. QED
    BY <2>1 DEF BitmapKept, Serving
<1>3. CASE EndLocate
  <2>1. /\ pc = "locate" /\ pc' \in {"fill", "halted"} /\ i' = 0 /\ bitmap' = bitmap
        /\ bitmap_length' = bitmap_length /\ BitmapBytes' = BitmapBytes
    BY <1>3 DEF EndLocate, Chassert, boot_vars, BitmapBytes
  <2>2. bitmap_length \in Nat /\ DOMAIN bitmap = {}
    BY <1>1, <2>1 DEF TypeOK, BitmapKept
  <2>3. DOMAIN bitmap' = 0 .. i' - 1 /\ i' <= bitmap_length'
    BY <2>1, <2>2
  <2>4. QED
    BY <2>1, <2>2, <2>3 DEF BitmapKept, Serving
<1>4. CASE FillByte
  <2>1. /\ pc = "fill" /\ pc' = "fill" /\ i < bitmap_length /\ i' = NextByte
        /\ bitmap' = [b \in DOMAIN bitmap \cup {i} |-> IF b = i THEN BothAvail ELSE bitmap[b]]
        /\ bitmap_length' = bitmap_length /\ BitmapBytes' = BitmapBytes
    BY <1>4 DEF FillByte, boot_vars, BitmapBytes
  <2>2. i' = i + 1 /\ i \in Nat /\ bitmap_length \in Nat
    BY <2>1, FillBelow
  <2>3. /\ DOMAIN bitmap = 0 .. i - 1 /\ \A b \in DOMAIN bitmap : bitmap[b] = BothAvail
        /\ bitmap_length = BitmapBytes
    BY <2>1 DEF BitmapKept
  <2>4. DOMAIN bitmap' = 0 .. i' - 1 /\ i' <= bitmap_length'
    BY <2>1, <2>2, <2>3
  <2>5. \A b \in DOMAIN bitmap' : bitmap'[b] = BothAvail
    BY <2>1, <2>3
  <2>6. QED
    BY <2>1, <2>3, <2>4, <2>5 DEF BitmapKept, Serving
<1>5. CASE EndFill
  <2>1. /\ pc = "fill" /\ pc' = "ready" /\ i >= bitmap_length
        /\ UNCHANGED <<bitmap, bitmap_length, max_frames, index, handed>>
    BY <1>5 DEF EndFill, boot_vars, alloc_vars
  <2>2. /\ i <= bitmap_length /\ DOMAIN bitmap = 0 .. i - 1
        /\ \A b \in DOMAIN bitmap : bitmap[b] = BothAvail
        /\ bitmap_length = BitmapBytes
    BY <2>1 DEF BitmapKept
  <2>3. i \in Nat /\ bitmap_length \in Nat /\ index = 0 /\ handed = <<>>
    BY <1>1, <2>1 DEF TypeOK, IndInv, Running, Counters, Booting
  <2>4. DOMAIN bitmap = 0 .. bitmap_length - 1
    BY <2>1, <2>2, <2>3
  <2>5. \A f \in 0 .. 2 * bitmap_length - 1 : Flags(f) = {8}
    BY <2>2, <2>3, <2>4, ByteThere, FilledNibbles
  <2>6. /\ bitmap_length' = BitmapBytes' /\ Taken' = 0
        /\ \A f \in 0 .. 2 * bitmap_length - 1 : Flags(f)' = {IF f < 0 THEN 0 ELSE 8}
    <3>1. bitmap_length' = BitmapBytes' /\ Taken' = 0
      BY <2>1, <2>2, <2>3 DEF BitmapBytes, Taken
    <3>2. \A f : Flags(f)' = Flags(f)
      BY <2>1 DEF Flags
    <3>3. \A f \in 0 .. 2 * bitmap_length - 1 : ~(f < 0)
      BY <2>3
    <3>4. QED
      BY <2>5, <3>1, <3>2, <3>3
  <2>7. Len(handed') = index'
    BY <2>1, <2>3
  <2>8. QED
    BY <2>1, <2>4, <2>6, <2>7 DEF BitmapKept
<1>6. QED
  BY <1>2, <1>3, <1>4, <1>5 DEF Boot

\* The search ends on the frame it starts with, or halts.
LEMMA NothingSkipped ==
  ASSUME IndInv, BitmapKept, SkipFrame
  PROVE  pc' = "halted" /\ index + 1 = max_frames
<1>1. /\ pc = "search" /\ ~Avail(flag) /\ index' = index + 1
      /\ pc' = IF index + 1 < max_frames THEN "search" ELSE "halted"
  BY DEF SkipFrame, NextIndex, Chassert
<1>2. /\ index \in Nat /\ max_frames \in Nat /\ bitmap_length \in Nat /\ index < max_frames
  BY <1>1 DEF IndInv, TypeOK, Running, Counters
<1>3. bitmap_length = max_frames \div 2 /\ flag \in Flags(index)
  BY <1>1 DEF BitmapKept, BitmapBytes
<1>4. index \notin 0 .. 2 * bitmap_length - 1
  <2> SUFFICES ASSUME index \in 0 .. 2 * bitmap_length - 1 PROVE FALSE
    OBVIOUS
  <2>1. Flags(index) = {IF index < Taken THEN 0 ELSE 8} /\ Taken = index
    BY <1>1 DEF BitmapKept, Serving, Taken
  <2>2. flag = 8
    BY <1>2, <1>3, <2>1
  <2>3. QED
    BY <1>1, <2>2 DEF Avail
<1>5. max_frames = 2 * bitmap_length + (max_frames % 2) /\ max_frames % 2 \in {0, 1}
  BY <1>2, <1>3, Parity
<1>6. index + 1 = max_frames
  BY <1>2, <1>4, <1>5
<1>7. QED
  BY <1>1, <1>2, <1>6

LEMMA BitmapServed ==
  ASSUME IndInv, IndInv', BitmapKept, FrameAlloc \/ Alloc \/ FrameFree,
         \A m \in MemoryMaps : Fits32(m)
  PROVE  BitmapKept'
<1>1. TypeOK
  BY DEF IndInv
<1>2. CASE FrameAlloc
  <2>1. /\ pc = "ready" /\ pc' \in {"ready", "search"}
        /\ pc' = "search" => flag' \in Flags(index)
        /\ UNCHANGED <<bitmap, bitmap_length, max_frames, index, handed>>
    BY <1>2 DEF FrameAlloc, boot_vars
  <2>2. Taken' = Taken /\ Flags(index)' = Flags(index) /\ BitmapBytes' = BitmapBytes
    BY <2>1 DEF Taken, Flags, BitmapBytes
  <2>3. \A f \in 0 .. 2 * bitmap_length - 1 : Flags(f)' = Flags(f)
    BY <2>1 DEF Flags
  <2>4. Serving /\ Serving'
    BY <2>1 DEF Serving
  <2>5. QED
    BY <2>1, <2>2, <2>3, <2>4 DEF BitmapKept
<1>3. CASE SkipFrame \/ FrameFree
  <2>1. pc' = "halted"
    BY <1>3, NothingSkipped DEF FrameFree
  <2>2. QED
    BY <2>1 DEF BitmapKept, Serving
<1>4. CASE ClaimFrame
  <2>1. /\ pc = "search" /\ pc' = "walk" /\ Avail(flag) /\ bitmap' = WithFlags(index, flag % 8)
        /\ UNCHANGED <<bitmap_length, max_frames, index, handed>>
    BY <1>4 DEF ClaimFrame, boot_vars
  <2>2. \A f \in 0 .. 2 * bitmap_length - 1 : Flags(f)' = {IF f < index + 1 THEN 0 ELSE 8}
    BY <1>1, <2>1, ClaimNibbles
  <2>3. /\ Taken' = index + 1 /\ BitmapBytes' = BitmapBytes /\ DOMAIN bitmap' = DOMAIN bitmap
    BY <2>1 DEF Taken, BitmapBytes, WithFlags
  <2>4. /\ DOMAIN bitmap = 0 .. bitmap_length - 1 /\ Len(handed) = index
        /\ bitmap_length = BitmapBytes
    BY <2>1 DEF BitmapKept, Serving
  <2>5. QED
    BY <2>1, <2>2, <2>3, <2>4 DEF BitmapKept
<1>5. CASE SkipRegion
  <2>1. /\ pc = "walk" /\ pc' \in {"walk", "halted"}
        /\ UNCHANGED <<bitmap, bitmap_length, max_frames, index, handed>>
    BY <1>5 DEF SkipRegion, Chassert, boot_vars
  <2>2. BitmapBytes' = BitmapBytes /\ (pc' = "walk" => Taken' = Taken)
    BY <2>1 DEF Taken, BitmapBytes
  <2>3. \A f \in 0 .. 2 * bitmap_length - 1 : Flags(f)' = Flags(f)
    BY <2>1 DEF Flags
  <2>4. Serving
    BY <2>1 DEF Serving
  <2>5. QED
    BY <2>1, <2>2, <2>3, <2>4 DEF BitmapKept, Serving
<1>6. CASE ReturnFrame
  <2> DEFINE frame == FrameAt(region_info[map_idx].start, copy)
  <2>1. /\ pc = "walk" /\ pc' = "ready" /\ index' = index + 1
        /\ bitmap' = Zeroed(frame) \/ bitmap' = bitmap
        /\ handed' = Append(handed, frame)
        /\ ~BeyondRegion(copy, region_info[map_idx].pages)
        /\ UNCHANGED <<bitmap_length, max_frames>>
    BY <1>6 DEF ReturnFrame, boot_vars
  <2>2. frame \in Nat /\ \A o \in BitmapSpan : frame # frame_map + o
    BY <2>1, FrameFacts
  <2>3. /\ DOMAIN bitmap = 0 .. bitmap_length - 1 /\ Len(handed) = index
        /\ bitmap_length = BitmapBytes
        /\ \A f \in 0 .. 2 * bitmap_length - 1 : Flags(f) = {IF f < Taken THEN 0 ELSE 8}
    BY <2>1 DEF BitmapKept, Serving
  <2>4. bitmap' = bitmap
    <3>1. bitmap \in [DOMAIN bitmap -> 0 .. 255]
      BY <1>1 DEF TypeOK
    <3>2. Zeroed(frame) = bitmap
      BY <2>2, <2>3, <3>1, ZeroedNothing
    <3>3. QED
      BY <2>1, <3>2
  <2>5. Taken' = Taken /\ BitmapBytes' = BitmapBytes
    BY <2>1 DEF Taken, BitmapBytes
  <2>6. Len(handed') = index'
    <3>1. handed \in Seq(Nat)
      BY <1>1 DEF TypeOK
    <3> HIDE DEF frame
    <3>2. QED
      BY <2>1, <2>2, <2>3, <3>1
  <2>7. \A f \in 0 .. 2 * bitmap_length - 1 : Flags(f)' = Flags(f)
    BY <2>4 DEF Flags
  <2>8. QED
    BY <2>1, <2>3, <2>4, <2>5, <2>6, <2>7 DEF BitmapKept
<1>7. QED
  BY <1>2, <1>3, <1>4, <1>5, <1>6 DEF Alloc

LEMMA BitmapStutters ==
  ASSUME BitmapKept, UNCHANGED vars
  PROVE  BitmapKept'
<1>1. UNCHANGED <<pc, i, bitmap, bitmap_length, max_frames, index, flag, handed>>
  BY DEF vars, boot_vars, alloc_vars
<1>2. /\ Taken' = Taken /\ BitmapBytes' = BitmapBytes /\ Serving' = Serving
      /\ \A f : Flags(f)' = Flags(f)
  BY <1>1 DEF Taken, BitmapBytes, Serving, Flags
<1>3. Flags(index)' = Flags(index)
  BY <1>1 DEF Flags
<1>4. QED
  BY <1>1, <1>2, <1>3 DEF BitmapKept

LEMMA BitmapStep ==
  ASSUME IndInv, IndInv', BitmapKept, [Next]_vars, \A m \in MemoryMaps : Fits32(m)
  PROVE  BitmapKept'
  BY BitmapBooted, BitmapServed, BitmapStutters DEF Next, Hcf

-----------------------------------------------------------------------------
(* Counting frames *)

\* A turn of the scan, with the types of what it changes.
LEMMA RecordFacts ==
  ASSUME IndInv, RecordEntry
  PROVE  /\ pc = "scan" /\ pc' = "scan" /\ map' = map /\ i \in Nat /\ i < Len(map)
         /\ i' = i + 1 /\ i + 1 \in 1 .. Len(map)
         /\ Scanned = i /\ Scanned' = i + 1 /\ Located = 0 /\ Located' = 0
         /\ usable_idx = 0 /\ usable_idx' = 0 /\ frame_map = 0 /\ frame_map' = 0
         /\ UNCHANGED <<first, bitmap_length>> /\ first[0] = 0
         /\ num_regions \in 0 .. i /\ num_regions < MaxRegions /\ MaxRegions \in Nat
         /\ max_frames \in Nat /\ region_info \in [0 .. MaxRegions - 1 -> Region]
         /\ \A j \in 1 .. Len(map) : map[j].length \in Nat
         /\ \/ /\ Usable(map, i + 1)
               /\ max_frames' = max_frames + map[i + 1].length
               /\ num_regions' = num_regions + 1
               /\ region_info' = [region_info EXCEPT ![num_regions] = RegionOf(map[i + 1])]
            \/ ~Usable(map, i + 1) /\ UNCHANGED <<max_frames, region_info, num_regions>>
<1>1. /\ pc = "scan" /\ pc' = "scan" /\ map' = map /\ i < Len(map) /\ i' = i + 1
      /\ UNCHANGED <<usable_idx, frame_map, first, bitmap_length>>
      /\ \/ /\ Usable(map, i + 1)
            /\ max_frames' = max_frames + map[i + 1].length
            /\ num_regions' = num_regions + 1
            /\ region_info' = [region_info EXCEPT ![num_regions] = RegionOf(map[i + 1])]
         \/ ~Usable(map, i + 1) /\ UNCHANGED <<max_frames, region_info, num_regions>>
  BY DEF RecordEntry
<1>2. TypeOK /\ Counters /\ FramesNumbered
  BY <1>1 DEF IndInv, Running
<1>3. /\ Scanned = i /\ Scanned' = i + 1 /\ Located = 0 /\ Located' = 0
  BY <1>1 DEF Scanned, Located
<1>4. /\ map \in MemoryMaps /\ i \in Nat /\ max_frames \in Nat /\ num_regions \in Nat
      /\ region_info \in [0 .. MaxRegions - 1 -> Region] /\ MaxRegions \in Nat
  BY <1>2, SizeAssumption DEF TypeOK
<1>5. /\ num_regions <= i /\ Len(map) <= MaxRegions /\ usable_idx = 0 /\ frame_map = 0
      /\ first[0] = 0
  BY <1>1, <1>2, <1>3 DEF Counters, FramesNumbered
<1>6. Len(map) \in Nat /\ \A j \in 1 .. Len(map) : map[j].length \in Nat
  BY <1>4, MapFacts
<1>7. i + 1 \in 1 .. Len(map) /\ num_regions < MaxRegions /\ num_regions \in 0 .. i
  BY <1>1, <1>4, <1>5, <1>6
<1>8. QED
  BY <1>1, <1>3, <1>4, <1>5, <1>6, <1>7

\* A turn of the search for room: the entry gives up its first d pages.
LEMMA LocateFacts ==
  ASSUME IndInv, LocateForBitmap
  PROVE  /\ pc = "locate" /\ pc' = "locate" /\ map' = map /\ i \in Nat /\ i < Len(map)
         /\ i' = i + 1 /\ i + 1 \in 1 .. Len(map)
         /\ Located = i /\ Located' = i + 1 /\ Scanned' = Scanned /\ Scanned = Len(map)
         /\ UNCHANGED <<max_frames, num_regions, bitmap_length>>
         /\ usable_idx \in 0 .. MaxRegions /\ bitmap_length \in Nat
         /\ num_regions \in 0 .. MaxRegions
         /\ \A j \in 1 .. Len(map) : map[j].base \in Nat /\ map[j].length \in Nat
         /\ ~Usable(map, i + 1) => UNCHANGED <<frame_map, region_info, usable_idx, first>>
         /\ Usable(map, i + 1) =>
              /\ usable_idx < num_regions /\ usable_idx' = usable_idx + 1
              /\ region_info[usable_idx] = RegionOf(map[i + 1])
              /\ map[i + 1].base # 0
              /\ \A k \in 0 .. num_regions - 1 :
                   k # usable_idx => region_info'[k] = region_info[k]
              /\ first[usable_idx] \in Nat
              /\ first'[usable_idx + 1] = first[usable_idx] + region_info'[usable_idx].pages
              /\ \E d \in 0 .. map[i + 1].length :
                   /\ region_info'[usable_idx].start = map[i + 1].base + d
                   /\ region_info'[usable_idx].pages = map[i + 1].length - d
                   /\ d = PagesAside(map[i + 1])
                   /\ \/ d = BitmapPages /\ frame_map' = map[i + 1].base
                      \/ /\ d = 0 /\ frame_map' = frame_map
                         /\ map[i + 1].length * PageSize < bitmap_length
<1>1. /\ pc = "locate" /\ pc' = "locate" /\ map' = map /\ i < Len(map) /\ i' = i + 1
      /\ UNCHANGED <<max_frames, num_regions, bitmap_length>>
      /\ ~Usable(map, i + 1) => UNCHANGED <<frame_map, region_info, usable_idx, first>>
      /\ Usable(map, i + 1) =>
           /\ PlaceBitmap(map[i + 1]) /\ usable_idx' = usable_idx + 1
           /\ first' = [first EXCEPT ![usable_idx + 1] =
                          first[usable_idx] + region_info'[usable_idx].pages]
  BY DEF LocateForBitmap
<1>2. TypeOK /\ Counters
  BY <1>1 DEF IndInv, Running
<1>3. /\ Located = i /\ Located' = i + 1 /\ Scanned' = Len(map) /\ Scanned = Len(map)
  BY <1>1 DEF Scanned, Located
<1>4. /\ map \in MemoryMaps /\ i \in Nat /\ bitmap_length \in Nat
      /\ usable_idx \in 0 .. MaxRegions /\ num_regions \in 0 .. MaxRegions
      /\ region_info \in [0 .. MaxRegions - 1 -> Region]
      /\ first \in [0 .. MaxRegions -> Nat] /\ MaxRegions \in Nat
  BY <1>2, SizeAssumption DEF TypeOK
<1>5. /\ Len(map) \in Nat
      /\ \A j \in 1 .. Len(map) : map[j].base \in Nat /\ map[j].length \in Nat
      /\ \A j \in 1 .. Len(map) : Usable(map, j) => map[j].base > 0
  BY <1>4, MapFacts
<1>6. i + 1 \in 1 .. Len(map)
  BY <1>1, <1>4, <1>5
<1>7. ASSUME Usable(map, i + 1)
      PROVE  /\ usable_idx < num_regions /\ usable_idx' = usable_idx + 1
             /\ region_info[usable_idx] = RegionOf(map[i + 1])
             /\ map[i + 1].base # 0
             /\ \A k \in 0 .. num_regions - 1 :
                  k # usable_idx => region_info'[k] = region_info[k]
             /\ first[usable_idx] \in Nat
             /\ first'[usable_idx + 1] = first[usable_idx] + region_info'[usable_idx].pages
             /\ \E d \in 0 .. map[i + 1].length :
                  /\ region_info'[usable_idx].start = map[i + 1].base + d
                  /\ region_info'[usable_idx].pages = map[i + 1].length - d
                  /\ d = PagesAside(map[i + 1])
                  /\ \/ d = BitmapPages /\ frame_map' = map[i + 1].base
                     \/ /\ d = 0 /\ frame_map' = frame_map
                        /\ map[i + 1].length * PageSize < bitmap_length
  <2>1. usable_idx < num_regions /\ region_info[usable_idx] = RegionOf(map[i + 1])
    BY <1>1, <1>7, EntryMeetsRegion
  <2>2. PICK d \in 0 .. map[i + 1].length :
          /\ region_info' = [region_info EXCEPT ![usable_idx] =
                               [start |-> map[i + 1].base + d,
                                end   |-> EntryEnd(map[i + 1]),
                                pages |-> map[i + 1].length - d]]
          /\ d = PagesAside(map[i + 1])
          /\ \/ d = BitmapPages /\ frame_map' = map[i + 1].base
             \/ /\ d = 0 /\ frame_map' = frame_map
                /\ map[i + 1].length * PageSize < bitmap_length
    BY <1>1, <1>7, PlaceBitmapFacts
  <2>3. usable_idx \in 0 .. MaxRegions - 1 /\ usable_idx + 1 \in 0 .. MaxRegions
    BY <1>4, <2>1
  <2>4. /\ region_info'[usable_idx].start = map[i + 1].base + d
        /\ region_info'[usable_idx].pages = map[i + 1].length - d
    BY <1>4, <2>2, <2>3
  <2>5. \A k \in 0 .. num_regions - 1 : k # usable_idx => region_info'[k] = region_info[k]
    BY <1>4, <2>2
  <2>6. /\ first[usable_idx] \in Nat
        /\ first'[usable_idx + 1] = first[usable_idx] + region_info'[usable_idx].pages
    BY <1>1, <1>4, <1>7, <2>3
  <2>7. map[i + 1].base # 0
    BY <1>5, <1>6, <1>7
  <2>8. QED
    BY <1>1, <1>7, <2>1, <2>2, <2>4, <2>5, <2>6, <2>7
<1>8. QED
  BY <1>1, <1>3, <1>4, <1>5, <1>6, <1>7

\* A bitmap with bytes takes a page at least.
LEMMA SomePage == bitmap_length \in Nat /\ 0 < bitmap_length => BitmapPages > 0
<1> SUFFICES ASSUME bitmap_length \in Nat, 0 < bitmap_length PROVE BitmapPages > 0
  OBVIOUS
<1>1. 0 \in 0 .. bitmap_length - 1
  OBVIOUS
<1>2. BitmapPages \in Nat /\ 0 \div PageSize \in 0 .. BitmapPages - 1
  BY <1>1, SizeAssumption, RoundUp DEF BitmapPages
<1>3. QED
  BY <1>2

LEMMA CountedRecord ==
  ASSUME IndInv, RegionsCounted, RecordEntry
  PROVE  RegionsCounted'
<1>1. /\ usable_idx = 0 /\ usable_idx' = 0 /\ frame_map' = 0 /\ first' = first /\ first[0] = 0
      /\ num_regions \in Nat /\ num_regions < MaxRegions /\ MaxRegions \in Nat
      /\ max_frames \in Nat /\ region_info \in [0 .. MaxRegions - 1 -> Region]
      /\ map[i + 1].length \in Nat
      /\ \/ /\ Usable(map, i + 1)
            /\ max_frames' = max_frames + map[i + 1].length
            /\ num_regions' = num_regions + 1
            /\ region_info' = [region_info EXCEPT ![num_regions] = RegionOf(map[i + 1])]
         \/ ~Usable(map, i + 1) /\ UNCHANGED <<max_frames, region_info, num_regions>>
  BY RecordFacts
<1>2. PICK count \in [0 .. MaxRegions -> 0 .. max_frames] :
        /\ count[num_regions] = max_frames
        /\ \A k \in 0 .. num_regions - 1 : count[k + 1] = count[k] + region_info[k].pages
        /\ first[0] <= count[0]
  BY <1>1 DEF RegionsCounted
<1>3. CASE ~Usable(map, i + 1)
  BY <1>1, <1>2, <1>3 DEF RegionsCounted
<1>4. CASE Usable(map, i + 1)
  <2>1. /\ max_frames' = max_frames + map[i + 1].length /\ num_regions' = num_regions + 1
        /\ region_info' = [region_info EXCEPT ![num_regions] = RegionOf(map[i + 1])]
    BY <1>1, <1>4
  <2>2. PICK c : c = [count EXCEPT ![num_regions + 1] = max_frames']
    OBVIOUS
  <2>3. /\ c \in [0 .. MaxRegions -> 0 .. max_frames']
        /\ c[num_regions'] = max_frames'
        /\ \A k \in 0 .. num_regions : c[k] = count[k]
    <3>1. max_frames' \in Nat /\ max_frames <= max_frames' /\ num_regions + 1 \in 0 .. MaxRegions
      BY <1>1, <2>1
    <3>2. \A k \in 0 .. MaxRegions : count[k] \in 0 .. max_frames'
      BY <1>1, <1>2, <3>1
    <3>3. c \in [0 .. MaxRegions -> 0 .. max_frames']
      BY <1>2, <2>2, <3>1, <3>2
    <3>4. c[num_regions'] = max_frames'
      BY <1>2, <2>1, <2>2, <3>1
    <3>5. \A k \in 0 .. num_regions : c[k] = count[k]
      BY <1>1, <1>2, <2>2
    <3>6. QED
      BY <3>3, <3>4, <3>5
  <2>4. ASSUME NEW k \in 0 .. num_regions' - 1
        PROVE  c[k + 1] = c[k] + region_info'[k].pages
    <3>1. CASE k = num_regions
      <4>1. region_info'[k].pages = map[i + 1].length
        BY <1>1, <2>1, <3>1 DEF RegionOf
      <4>2. c[k] = max_frames /\ c[k + 1] = max_frames'
        BY <1>1, <1>2, <2>1, <2>3, <3>1
      <4>3. QED
        BY <2>1, <4>1, <4>2
    <3>2. CASE k # num_regions
      <4>1. /\ k \in 0 .. num_regions - 1 /\ k \in 0 .. num_regions
            /\ k + 1 \in 0 .. num_regions
        BY <1>1, <2>1, <3>2
      <4>2. region_info'[k] = region_info[k]
        BY <1>1, <2>1, <3>2, <4>1
      <4>3. QED
        BY <1>2, <2>3, <4>1, <4>2
    <3>3. QED
      BY <3>1, <3>2
  <2>5. first'[usable_idx'] <= c[usable_idx']
    BY <1>1, <1>2, <2>3
  <2>6. QED
    BY <1>1, <2>3, <2>4, <2>5 DEF RegionsCounted
<1>5. QED
  BY <1>3, <1>4

LEMMA CountedLocate ==
  ASSUME IndInv, RegionsCounted, LocateForBitmap
  PROVE  RegionsCounted'
<1> DEFINE u == usable_idx
<1>1. /\ UNCHANGED <<max_frames, num_regions, bitmap_length>>
      /\ u \in 0 .. MaxRegions /\ num_regions \in 0 .. MaxRegions /\ bitmap_length \in Nat
      /\ map[i + 1].length \in Nat
      /\ ~Usable(map, i + 1) => UNCHANGED <<frame_map, region_info, usable_idx, first>>
  BY LocateFacts
<1>2. PICK count \in [0 .. MaxRegions -> 0 .. max_frames] :
        /\ count[num_regions] = max_frames
        /\ \A k \in u .. num_regions - 1 : count[k + 1] = count[k] + region_info[k].pages
        /\ first[u] <= count[u]
        /\ frame_map # 0 /\ 0 < bitmap_length => first[u] < count[u]
  BY DEF RegionsCounted
<1>3. CASE ~Usable(map, i + 1)
  BY <1>1, <1>2, <1>3 DEF RegionsCounted
<1>4. CASE Usable(map, i + 1)
  <2>1. /\ u < num_regions /\ usable_idx' = u + 1 /\ region_info[u] = RegionOf(map[i + 1])
        /\ \A k \in 0 .. num_regions - 1 : k # u => region_info'[k] = region_info[k]
        /\ first[u] \in Nat
        /\ first'[u + 1] = first[u] + region_info'[u].pages
    BY <1>4, LocateFacts
  <2>2. PICK d \in 0 .. map[i + 1].length :
          /\ region_info'[u].pages = map[i + 1].length - d
          /\ d = BitmapPages \/ (d = 0 /\ frame_map' = frame_map)
    BY <1>4, LocateFacts
  <2>3. count[u + 1] = count[u] + map[i + 1].length
    <3>1. u \in u .. num_regions - 1
      BY <1>1, <2>1
    <3>2. QED
      BY <1>2, <2>1, <3>1 DEF RegionOf
  <2>4. count[u] \in Nat /\ MaxRegions \in Nat /\ max_frames \in Nat
    BY <1>1, <1>2, SizeAssumption DEF IndInv, TypeOK
  <2>5. first'[u + 1] = first[u] + (map[i + 1].length - d)
    BY <2>1, <2>2
  <2>9. PICK a \in Nat, b \in Nat, l \in Nat :
          /\ a = first[u] /\ b = count[u] /\ l = map[i + 1].length /\ d \in 0 .. l /\ a <= b
    BY <1>1, <1>2, <2>1, <2>4
  <2>10. first'[u + 1] = a + (l - d) /\ count[u + 1] = b + l
    BY <2>3, <2>5, <2>9
  <2>11. first'[u + 1] <= count[u + 1]
    BY <2>9, <2>10
  <2>6. ASSUME frame_map' # 0, 0 < bitmap_length
        PROVE  first'[u + 1] < count[u + 1]
    <3>1. CASE d = BitmapPages
      <4>1. d > 0
        BY <1>1, <2>6, <3>1, SomePage
      <4>2. QED
        BY <2>9, <2>10, <4>1
    <3>2. CASE d = 0 /\ frame_map' = frame_map
      <4>1. a < b
        BY <1>2, <2>6, <2>9, <3>2
      <4>2. QED
        BY <2>9, <2>10, <3>2, <4>1
    <3>3. QED
      BY <2>2, <3>1, <3>2
  <2>7. ASSUME NEW k \in u + 1 .. num_regions - 1
        PROVE  count[k + 1] = count[k] + region_info'[k].pages
    <3>1. k \in u .. num_regions - 1 /\ k \in 0 .. num_regions - 1 /\ k # u
      BY <1>1
    <3>2. QED
      BY <1>2, <2>1, <3>1
  <2>8. QED
    BY <1>1, <1>2, <2>1, <2>6, <2>7, <2>11 DEF RegionsCounted
<1>5. QED
  BY <1>3, <1>4

\* The longest entry's share grows with the number of regions.
LEMMA ShareGrows ==
  ASSUME NEW a \in Nat, NEW n \in Nat, NEW l \in Nat, NEW k \in Nat
  PROVE  /\ a <= n * l /\ k <= l => a + k <= (n + 1) * l
         /\ a <= n * l /\ l <= k => a + k <= (n + 1) * k
         /\ a = 0 => a + k <= (n + 1) * k
<1>1. (n + 1) * l = n * l + l /\ (n + 1) * k = n * k + k /\ n * l \in Nat /\ n * k \in Nat
  OBVIOUS
<1>2. ASSUME l <= k PROVE n * l <= n * k
  <2>1. PICK e \in Nat : k = l + e
    <3>1. k - l \in Nat /\ k = l + (k - l)
      BY <1>2
    <3>2. QED
      BY <3>1
  <2>2. n * k = n * l + n * e /\ n * e \in Nat
    BY <2>1
  <2>3. QED
    BY <1>1, <2>2
<1>3. QED
  BY <1>1, <1>2

LEMMA ShareRecord ==
  ASSUME IndInv, LongestShare, RecordEntry
  PROVE  LongestShare'
<1>1. /\ map' = map /\ i \in Nat /\ i + 1 \in 1 .. Len(map)
      /\ Scanned = i /\ Scanned' = i + 1
      /\ num_regions \in Nat /\ max_frames \in Nat
      /\ \A j \in 1 .. Len(map) : map[j].length \in Nat
      /\ \/ /\ Usable(map, i + 1)
            /\ max_frames' = max_frames + map[i + 1].length
            /\ num_regions' = num_regions + 1
         \/ ~Usable(map, i + 1) /\ UNCHANGED <<max_frames, num_regions>>
  BY RecordFacts
<1>2. /\ \A j \in 1 .. i : Usable(map, j) => map[j].length <= max_frames
      /\ \/ max_frames = 0
         \/ \E j \in 1 .. i : Usable(map, j) /\ max_frames <= num_regions * map[j].length
  BY <1>1 DEF LongestShare
<1>3. /\ \A j \in 1 .. i + 1 : j \in 1 .. i \/ j = i + 1
      /\ 1 .. i \subseteq 1 .. i + 1 /\ i + 1 \in 1 .. i + 1 /\ 1 .. i \subseteq 1 .. Len(map)
  BY <1>1
<1>4. CASE ~Usable(map, i + 1)
  <2>1. UNCHANGED <<max_frames, num_regions>>
    BY <1>1, <1>4
  <2>2. \A j \in 1 .. i + 1 : Usable(map, j) => map[j].length <= max_frames
    BY <1>2, <1>3, <1>4
  <2>3. \/ max_frames = 0
        \/ \E j \in 1 .. i + 1 : Usable(map, j) /\ max_frames <= num_regions * map[j].length
    BY <1>2, <1>3
  <2>4. QED
    BY <1>1, <2>1, <2>2, <2>3 DEF LongestShare
<1>5. CASE Usable(map, i + 1)
  <2>1. /\ max_frames' = max_frames + map[i + 1].length /\ num_regions' = num_regions + 1
        /\ map[i + 1].length \in Nat
    BY <1>1, <1>5
  <2>2. ASSUME NEW j \in 1 .. i + 1, Usable(map, j) PROVE map[j].length <= max_frames'
    <3>1. map[j].length \in Nat
      BY <1>1, <1>3
    <3>2. CASE j = i + 1
      BY <1>1, <2>1, <3>2
    <3>3. CASE j \in 1 .. i
      BY <1>1, <1>2, <2>1, <2>2, <3>1, <3>3
    <3>4. QED
      BY <1>3, <3>2, <3>3
  <2>3. \E j \in 1 .. i + 1 : Usable(map, j) /\ max_frames' <= num_regions' * map[j].length
    <3>1. CASE max_frames = 0
      <4>1. max_frames' <= num_regions' * map[i + 1].length
        BY <1>1, <2>1, <3>1, ShareGrows
      <4>2. QED
        BY <1>3, <1>5, <4>1
    <3>2. CASE max_frames # 0
      <4>1. PICK j \in 1 .. i : Usable(map, j) /\ max_frames <= num_regions * map[j].length
        BY <1>2, <3>2
      <4>2. map[j].length \in Nat
        BY <1>1, <1>3
      <4>3. CASE map[i + 1].length <= map[j].length
        <5>1. max_frames' <= num_regions' * map[j].length
          BY <1>1, <2>1, <4>1, <4>2, <4>3, ShareGrows
        <5>2. QED
          BY <1>3, <4>1, <5>1
      <4>4. CASE map[j].length <= map[i + 1].length
        <5>1. max_frames' <= num_regions' * map[i + 1].length
          BY <1>1, <2>1, <4>1, <4>2, <4>4, ShareGrows
        <5>2. QED
          BY <1>3, <1>5, <5>1
      <4>5. QED
        BY <2>1, <4>2, <4>3, <4>4
    <3>3. QED
      BY <3>1, <3>2
  <2>4. QED
    BY <1>1, <2>2, <2>3 DEF LongestShare
<1>6. QED
  BY <1>4, <1>5

LEMMA SoughtLocate ==
  ASSUME IndInv, BitmapSought, LocateForBitmap
  PROVE  BitmapSought'
<1>1. /\ pc = "locate" /\ map' = map /\ i \in Nat /\ i' = i + 1 /\ bitmap_length' = bitmap_length
      /\ ~Usable(map, i + 1) => frame_map' = frame_map
  BY LocateFacts
<1> SUFFICES ASSUME frame_map' = 0, NEW j \in 1 .. i + 1, Usable(map, j)
             PROVE  map[j].length * PageSize < bitmap_length
  BY <1>1 DEF BitmapSought
<1>2. ASSUME Usable(map, i + 1)
      PROVE  frame_map' = frame_map /\ map[i + 1].length * PageSize < bitmap_length
  BY <1>2, LocateFacts
<1>3. frame_map = 0
  BY <1>1, <1>2
<1>4. CASE j = i + 1
  BY <1>2, <1>4
<1>5. CASE j \in 1 .. i
  BY <1>1, <1>3, <1>5 DEF BitmapSought
<1>6. QED
  BY <1>1, <1>4, <1>5

LEMMA CoveredLocate ==
  ASSUME IndInv, EntriesCovered, LocateForBitmap
  PROVE  EntriesCovered'
<1>1. /\ map' = map /\ i \in Nat /\ i + 1 \in 1 .. Len(map)
      /\ Located = i /\ Located' = i + 1
      /\ usable_idx \in Nat /\ num_regions \in Nat /\ bitmap_length' = bitmap_length
      /\ bitmap_length \in Nat
      /\ map[i + 1].base \in Nat /\ map[i + 1].length \in Nat
      /\ ~Usable(map, i + 1) => UNCHANGED <<region_info, usable_idx>>
  BY LocateFacts
<1>2. /\ \A j \in 1 .. Len(map) : PagesAside(map[j])' = PagesAside(map[j])
      /\ \A j \in 1 .. Len(map) : PagesAside(map[j]) \in Nat
  BY <1>1, BitmapPagesFacts DEF BitmapPages, PagesAside
<1>3. \A j \in 1 .. i : Usable(map, j) =>
        \E k \in 0 .. usable_idx - 1 :
          /\ region_info[k].start <= map[j].base + PagesAside(map[j])
          /\ region_info[k].start + region_info[k].pages = EntryEnd(map[j])
  BY <1>1 DEF EntriesCovered
<1>4. ASSUME NEW j \in 1 .. i + 1, Usable(map, j)
      PROVE  \E k \in 0 .. usable_idx' - 1 :
               /\ region_info'[k].start <= map[j].base + PagesAside(map[j])
               /\ region_info'[k].start + region_info'[k].pages = EntryEnd(map[j])
  <2>1. CASE j = i + 1
    <3>1. /\ usable_idx < num_regions /\ usable_idx' = usable_idx + 1
          /\ Usable(map, i + 1)
      BY <1>4, <2>1, LocateFacts
    <3>2. PICK d \in 0 .. map[i + 1].length :
            /\ region_info'[usable_idx].start = map[i + 1].base + d
            /\ region_info'[usable_idx].pages = map[i + 1].length - d
            /\ d = PagesAside(map[i + 1])
      BY <3>1, LocateFacts
    <3>3. usable_idx \in 0 .. usable_idx' - 1
      BY <1>1, <3>1
    <3>4. region_info'[usable_idx].start <= map[j].base + PagesAside(map[j])
      BY <1>1, <1>2, <2>1, <3>2
    <3>5. region_info'[usable_idx].start + region_info'[usable_idx].pages = EntryEnd(map[j])
      BY <1>1, <2>1, <3>2 DEF EntryEnd
    <3>6. QED
      BY <3>3, <3>4, <3>5
  <2>2. CASE j \in 1 .. i
    <3>1. PICK k \in 0 .. usable_idx - 1 :
            /\ region_info[k].start <= map[j].base + PagesAside(map[j])
            /\ region_info[k].start + region_info[k].pages = EntryEnd(map[j])
      BY <1>3, <1>4, <2>2
    <3>2. k \in 0 .. usable_idx' - 1 /\ region_info'[k] = region_info[k]
      <4>1. CASE Usable(map, i + 1)
        <5>1. /\ usable_idx < num_regions /\ usable_idx' = usable_idx + 1
              /\ \A l \in 0 .. num_regions - 1 :
                   l # usable_idx => region_info'[l] = region_info[l]
          BY <4>1, LocateFacts
        <5>2. QED
          BY <1>1, <5>1
      <4>2. QED
        BY <1>1, <4>1
    <3>3. QED
      BY <3>1, <3>2
  <2>3. QED
    BY <1>1, <2>1, <2>2
<1>5. ASSUME NEW j \in 1 .. Located', Usable(map', j)
      PROVE  \E k \in 0 .. usable_idx' - 1 :
               /\ region_info'[k].start <= map'[j].base + PagesAside(map[j])'
               /\ region_info'[k].start + region_info'[k].pages = EntryEnd(map'[j])
  <2>1. j \in 1 .. i + 1 /\ j \in 1 .. Len(map) /\ Usable(map, j) /\ map'[j] = map[j]
    BY <1>1, <1>5
  <2>2. PagesAside(map[j])' = PagesAside(map[j])
    BY <1>2, <2>1
  <2>3. PICK k \in 0 .. usable_idx' - 1 :
          /\ region_info'[k].start <= map[j].base + PagesAside(map[j])
          /\ region_info'[k].start + region_info'[k].pages = EntryEnd(map[j])
    BY <1>4, <2>1
  <2>4. QED
    BY <2>1, <2>2, <2>3
<1>6. QED
  BY <1>5 DEF EntriesCovered

\* What is counted while the map is read.
RegionFacts == RegionsCounted /\ LongestShare /\ BitmapSought /\ EntriesCovered

LEMMA RegionFactsKept ==
  ASSUME RegionFacts, UNCHANGED boot_vars, Scanned' = Scanned, Located' = Located,
         pc' = "locate" => pc = "locate" /\ i' = i
  PROVE  RegionFacts'
<1>1. UNCHANGED <<map, max_frames, num_regions, region_info, usable_idx, bitmap_length,
                  frame_map, first>>
  BY DEF boot_vars
<1>2. RegionsCounted'
  BY <1>1 DEF RegionFacts, RegionsCounted
<1>3. LongestShare' /\ BitmapSought'
  BY <1>1 DEF RegionFacts, LongestShare, BitmapSought
<1>4. EntriesCovered'
  BY <1>1 DEF RegionFacts, EntriesCovered, PagesAside, BitmapPages
<1>5. QED
  BY <1>2, <1>3, <1>4 DEF RegionFacts

LEMMA RegionFactsStep ==
  ASSUME IndInv, Running => RegionFacts, [Next]_vars, Running'
  PROVE  RegionFacts'
<1>1. CASE InitializeMemmap
  <2>1. /\ pc = "start" /\ pc' = "scan" /\ i' = i /\ UNCHANGED boot_vars
    BY <1>1 DEF InitializeMemmap, Chassert, Running
  <2>2. /\ i = 0 /\ max_frames = 0 /\ num_regions = 0 /\ usable_idx = 0 /\ frame_map = 0
        /\ first[0] = 0 /\ MaxRegions \in Nat
    BY <2>1, SizeAssumption DEF IndInv
  <2>3. UNCHANGED <<max_frames, num_regions, usable_idx, frame_map, first>>
    BY <2>1 DEF boot_vars
  <2>4. Scanned' = 0 /\ Located' = 0
    BY <2>1, <2>2 DEF Scanned, Located
  <2>5. RegionsCounted'
    <3>1. PICK c : c = [k \in 0 .. MaxRegions |-> 0]
      OBVIOUS
    <3>2. c \in [0 .. MaxRegions -> 0 .. max_frames'] /\ c[0] = 0
      BY <2>2, <2>3, <3>1
    <3>3. QED
      BY <2>2, <2>3, <3>2 DEF RegionsCounted
  <2>6. LongestShare' /\ BitmapSought' /\ EntriesCovered'
    BY <2>1, <2>2, <2>3, <2>4 DEF LongestShare, BitmapSought, EntriesCovered
  <2>7. QED
    BY <2>5, <2>6 DEF RegionFacts
<1>2. CASE RecordEntry
  <2>1. pc = "scan" /\ pc' = "scan" /\ Located' = 0
    BY <1>2, RecordFacts
  <2>2. BitmapSought' /\ EntriesCovered'
    BY <2>1 DEF BitmapSought, EntriesCovered
  <2>3. QED
    BY <1>2, <2>1, <2>2, CountedRecord, ShareRecord DEF RegionFacts, Running
<1>3. CASE EndScan
  <2>1. /\ pc = "scan" /\ pc' = "locate" /\ i = Len(map) /\ i' = 0
        /\ UNCHANGED <<map, max_frames, num_regions, region_info, usable_idx, frame_map, first>>
    BY <1>3 DEF EndScan
  <2>2. Scanned' = Scanned /\ Located' = 0 /\ frame_map' = 0 /\ RegionFacts
    BY <2>1 DEF Scanned, Located, IndInv, Running, Counters
  <2>3. RegionsCounted'
    BY <2>1, <2>2 DEF RegionFacts, RegionsCounted
  <2>4. LongestShare'
    BY <2>1, <2>2 DEF RegionFacts, LongestShare
  <2>5. BitmapSought' /\ EntriesCovered'
    BY <2>1, <2>2 DEF BitmapSought, EntriesCovered
  <2>6. QED
    BY <2>3, <2>4, <2>5 DEF RegionFacts
<1>4. CASE LocateForBitmap
  <2>1. /\ pc = "locate" /\ map' = map /\ Scanned' = Scanned
        /\ UNCHANGED <<max_frames, num_regions>>
    BY <1>4, LocateFacts
  <2>2. RegionFacts
    BY <2>1 DEF Running
  <2>3. LongestShare'
    BY <2>1, <2>2 DEF RegionFacts, LongestShare
  <2>4. QED
    BY <1>4, <2>2, <2>3, CountedLocate, SoughtLocate, CoveredLocate DEF RegionFacts
<1>5. CASE EndLocate \/ FillByte \/ EndFill \/ FrameAlloc \/ Alloc \/ FrameFree
  <2>1. /\ pc \notin {"start", "scan", "halted"} /\ pc' \notin {"scan", "locate"}
        /\ pc = "locate" => i = Len(map)
        /\ UNCHANGED boot_vars
    BY <1>5 DEF EndLocate, FillByte, EndFill, FrameAlloc, Alloc, SkipFrame, ClaimFrame,
                SkipRegion, ReturnFrame, FrameFree, Chassert
  <2>2. Scanned' = Scanned /\ Located' = Located
    BY <2>1 DEF Scanned, Located, boot_vars
  <2>3. QED
    BY <2>1, <2>2, RegionFactsKept DEF Running
<1>6. CASE Hcf \/ UNCHANGED vars
  <2>1. UNCHANGED <<pc, i, boot_vars>>
    BY <1>6 DEF Hcf, vars
  <2>2. Running /\ Scanned' = Scanned /\ Located' = Located
    BY <2>1 DEF Running, Scanned, Located, boot_vars
  <2>3. QED
    BY <2>1, <2>2, RegionFactsKept
<1>7. QED
  BY <1>1, <1>2, <1>3, <1>4, <1>5, <1>6 DEF Next, Boot

-----------------------------------------------------------------------------
(* What is handed out, and what is left *)

LEMMA OwnedGrows ==
  ASSUME handed \in Seq(Nat), NEW frame \in Nat, handed' = Append(handed, frame)
  PROVE  Owned' = Owned \cup {frame}
<1>1. /\ DOMAIN handed' = DOMAIN handed \cup {Len(handed) + 1}
      /\ handed'[Len(handed) + 1] = frame
      /\ \A n \in DOMAIN handed : handed'[n] = handed[n]
  OBVIOUS
<1>2. QED
  BY <1>1 DEF Owned

\* The regions and their frame numbers while frames are handed out.
LEMMA ServingFacts ==
  ASSUME IndInv, Serving
  PROVE  /\ Running /\ Located = Len(map) /\ Scanned = Len(map) /\ usable_idx = num_regions
         /\ frame_map # 0 /\ 0 < num_regions
         /\ num_regions \in 0 .. MaxRegions /\ index \in Nat /\ max_frames \in Nat
         /\ bitmap_length \in Nat /\ map \in MemoryMaps
         /\ first[num_regions] \in Nat
         /\ \A k \in 0 .. num_regions - 1 :
              /\ region_info[k].start \in Nat /\ region_info[k].pages \in Nat
              /\ first[k] \in Nat
              /\ first[k] + region_info[k].pages <= first[num_regions]
<1>1. pc \in {"ready", "search", "walk"}
  BY DEF Serving
<1>2. Running /\ Located = Len(map) /\ Scanned = Len(map)
  BY <1>1 DEF Running, Located, Scanned
<1>3. TypeOK /\ Counters /\ FramesNumbered
  BY <1>2 DEF IndInv
<1>4. /\ num_regions \in 0 .. MaxRegions /\ index \in Nat /\ max_frames \in Nat
      /\ bitmap_length \in Nat /\ map \in MemoryMaps /\ usable_idx \in 0 .. MaxRegions
      /\ first \in [0 .. MaxRegions -> Nat]
      /\ region_info \in [0 .. MaxRegions - 1 -> Region] /\ MaxRegions \in Nat
  BY <1>3, SizeAssumption DEF TypeOK
<1>5. usable_idx = num_regions /\ frame_map # 0 /\ 0 < num_regions
  BY <1>1, <1>3 DEF Counters
<1>6. ASSUME NEW k \in 0 .. num_regions - 1
      PROVE  /\ region_info[k].start \in Nat /\ region_info[k].pages \in Nat
             /\ first[k] \in Nat
             /\ first[k] + region_info[k].pages <= first[num_regions]
  <2>1. k \in 0 .. MaxRegions - 1 /\ k \in 0 .. MaxRegions /\ num_regions \in 0 .. usable_idx
    BY <1>4, <1>5
  <2>2. first[k] + region_info[k].pages <= first[num_regions]
    BY <1>3, <2>1 DEF FramesNumbered
  <2>3. QED
    BY <1>4, <2>1, <2>2 DEF Region
<1>7. first[num_regions] \in Nat
  BY <1>4
<1>8. QED
  BY <1>2, <1>4, <1>5, <1>6, <1>7

\* A frame number belongs to one place in one region.
LEMMA OnePlace ==
  ASSUME IndInv, pc = "walk", copy < region_info[map_idx].pages,
         NEW k \in 0 .. num_regions - 1, NEW c \in 0 .. region_info[k].pages - 1,
         first[k] + c = index
  PROVE  k = map_idx /\ c = copy
<1>1. /\ FramesNumbered /\ WalkCounts /\ usable_idx = num_regions
      /\ num_regions \in Nat
      /\ map_idx \in 0 .. num_regions - 1 /\ index \in Nat /\ copy \in 0 .. index
      /\ \A l \in 0 .. num_regions - 1 : /\ region_info[l].pages \in Nat
                                         /\ first[l] \in Nat
  BY WalkFacts
<1>2. copy = index - first[map_idx]
  BY <1>1 DEF WalkCounts
<1>3. ASSUME k > map_idx PROVE FALSE
  <2>1. first[map_idx] + region_info[map_idx].pages <= first[k]
    BY <1>1, <1>3 DEF FramesNumbered
  <2>2. QED
    BY <1>1, <1>2, <2>1
<1>4. ASSUME k < map_idx PROVE FALSE
  <2>1. first[k] + region_info[k].pages <= first[map_idx]
    BY <1>1, <1>4 DEF FramesNumbered
  <2>2. QED
    BY <1>1, <1>2, <2>1
<1>5. k = map_idx
  BY <1>1, <1>3, <1>4
<1>6. QED
  BY <1>1, <1>2, <1>5

\* Every step keeps the account of the frame numbers.
LEMMA NumbersStep ==
  ASSUME IndInv, BitmapKept, NumbersHanded, [Next]_vars, \A m \in MemoryMaps : Fits32(m)
  PROVE  NumbersHanded'
<1>1. CASE FrameAlloc \/ ClaimFrame \/ SkipRegion \/ UNCHANGED vars \/ Hcf
  <2>1. /\ pc' \in {"ready", "search", "walk"} => pc \in {"ready", "search", "walk"}
        /\ UNCHANGED <<num_regions, region_info, first, index, handed>>
    BY <1>1 DEF FrameAlloc, ClaimFrame, SkipRegion, Chassert, Hcf, vars, boot_vars, alloc_vars
  <2>2. Owned' = Owned
    BY <2>1 DEF Owned
  <2>3. QED
    BY <2>1, <2>2 DEF NumbersHanded, Serving
<1>2. CASE SkipFrame \/ FrameFree
  <2>1. pc' = "halted"
    BY <1>2, NothingSkipped DEF FrameFree
  <2>2. QED
    BY <2>1 DEF NumbersHanded, Serving
<1>3. CASE EndFill
  <2>1. /\ pc = "fill" /\ pc' = "ready"
        /\ UNCHANGED <<num_regions, region_info, first, index>>
    BY <1>3 DEF EndFill, boot_vars, alloc_vars
  <2>2. /\ index = 0 /\ num_regions \in 0 .. MaxRegions
        /\ first \in [0 .. MaxRegions -> Nat]
        /\ region_info \in [0 .. MaxRegions - 1 -> Region] /\ MaxRegions \in Nat
    BY <2>1, SizeAssumption DEF IndInv, TypeOK, Running, Counters, Booting
  <2>3. index' <= first'[num_regions']
    BY <2>1, <2>2
  <2>4. ASSUME NEW k \in 0 .. num_regions - 1, NEW c \in 0 .. region_info[k].pages - 1
        PROVE  ~(first[k] + c < index)
    <3>1. k \in 0 .. MaxRegions /\ c \in Nat
      BY <2>2 DEF Region
    <3>2. first[k] \in Nat
      BY <2>2, <3>1
    <3>3. QED
      BY <2>2, <3>1, <3>2
  <2>5. QED
    BY <2>1, <2>3, <2>4 DEF NumbersHanded
<1>4. CASE ReturnFrame
  <2> DEFINE frame == FrameAt(region_info[map_idx].start, copy)
  <2>1. /\ pc = "walk" /\ index' = index + 1
        /\ handed' = Append(handed, frame)
        /\ ~BeyondRegion(copy, region_info[map_idx].pages)
        /\ UNCHANGED <<num_regions, region_info, first>>
    BY <1>4 DEF ReturnFrame, boot_vars
  <2>2. /\ frame \in Nat /\ copy < region_info[map_idx].pages
        /\ frame = region_info[map_idx].start + copy
    BY <2>1, FrameFacts
  <2>3. handed \in Seq(Nat)
    BY DEF IndInv, TypeOK
  <2>4. Owned' = Owned \cup {frame}
    <3> HIDE DEF frame
    <3>1. QED
      BY <2>1, <2>2, <2>3, OwnedGrows
  <2>5. /\ Serving /\ first[num_regions] \in Nat
        /\ \A k \in 0 .. num_regions - 1 :
             /\ region_info[k].start \in Nat /\ region_info[k].pages \in Nat
             /\ first[k] \in Nat
             /\ first[k] + region_info[k].pages <= first[num_regions]
    BY <2>1, ServingFacts DEF Serving
  <2>6. /\ map_idx \in 0 .. num_regions - 1 /\ index \in Nat /\ copy \in 0 .. index
        /\ copy = index - first[map_idx]
    BY <2>1, WalkFacts DEF WalkCounts
  <2>7. index' <= first[num_regions]
    <3>1. PICK g \in Nat, s \in Nat, t \in Nat :
            g = region_info[map_idx].pages /\ s = first[map_idx] /\ t = first[num_regions]
      BY <2>5, <2>6
    <3>2. s + g <= t
      BY <2>5, <2>6, <3>1
    <3>3. copy < g /\ copy = index - s
      BY <2>2, <2>6, <3>1
    <3>4. index + 1 <= t
      BY <2>6, <3>2, <3>3
    <3>5. QED
      BY <2>1, <3>1, <3>4
  <2>8. ASSUME NEW k \in 0 .. num_regions - 1, NEW c \in 0 .. region_info[k].pages - 1,
               first[k] + c < index + 1
        PROVE  region_info[k].start + c \in Owned'
    <3>1. c \in Nat /\ first[k] \in Nat
      BY <2>5
    <3>2. CASE first[k] + c = index
      <4>1. k = map_idx /\ c = copy
        BY <2>1, <2>2, <3>2, OnePlace
      <4>2. QED
        BY <2>2, <2>4, <4>1
    <3>3. CASE first[k] + c # index
      <4>1. first[k] + c < index
        BY <2>6, <2>8, <3>1, <3>3
      <4>2. region_info[k].start + c \in Owned
        BY <2>5, <4>1 DEF NumbersHanded
      <4>3. QED
        BY <2>4, <4>2
    <3>4. QED
      BY <3>2, <3>3
  <2>9. QED
    BY <2>1, <2>7, <2>8 DEF NumbersHanded
<1>5. CASE InitializeMemmap \/ RecordEntry \/ EndScan \/ LocateForBitmap \/ EndLocate \/ FillByte
  <2>1. pc' \in {"scan", "locate", "fill", "halted"}
    BY <1>5 DEF InitializeMemmap, RecordEntry, EndScan, LocateForBitmap, EndLocate, FillByte,
                Chassert
  <2>2. QED
    BY <2>1 DEF NumbersHanded, Serving
<1>6. QED
  BY <1>1, <1>2, <1>3, <1>4, <1>5 DEF Next, Boot, Alloc

\* Dividing a multiple gives the factor.
LEMMA Quotient ==
  ASSUME NEW o \in Nat, NEW p \in Nat \ {0}
  PROVE  o * p \in Nat /\ (o * p) \div p = o
<1>1. PICK a : a = o * p
  OBVIOUS
<1>2. a \in Nat /\ a = p * o
  BY <1>1
<1>3. PICK q \in Int, r \in 0 .. p - 1 : q = a \div p /\ a = p * q + r
  <2>1. a \div p \in Int /\ a % p \in 0 .. p - 1 /\ a = p * (a \div p) + (a % p)
    BY <1>2
  <2>2. QED
    BY <2>1
<1>4. p * (q + 1) = p * q + p /\ p * (o + 1) = p * o + p
  OBVIOUS
<1>5. p * o < p * (q + 1) /\ p * q < p * (o + 1)
  <2>1. p * q \in Int /\ p * o \in Int
    OBVIOUS
  <2>2. QED
    BY <1>2, <1>3, <1>4, <2>1
<1>6. o < q + 1 /\ q < o + 1
  BY <1>5, Cancel
<1>7. QED
  BY <1>1, <1>2, <1>3, <1>6

\* Every page that the bitmap takes has a byte of it.
LEMMA SpanFull ==
  ASSUME bitmap_length \in Nat, NEW o \in 0 .. BitmapPages - 1
  PROVE  o \in BitmapSpan
<1>1. BitmapPages \in Nat /\ \A n \in Nat : n * PageSize >= bitmap_length => BitmapPages <= n
  BY BitmapPagesFacts
<1>2. o \in Nat /\ ~(BitmapPages <= o)
  BY <1>1
<1>3. o * PageSize \in Nat /\ (o * PageSize) \div PageSize = o
  BY <1>2, SizeAssumption, Quotient
<1>4. o * PageSize < bitmap_length
  BY <1>1, <1>2, <1>3
<1>5. o * PageSize \in 0 .. bitmap_length - 1
  BY <1>3, <1>4
<1>6. QED
  BY <1>3, <1>5 DEF BitmapSpan

\* Once the frame numbers of all regions were handed out, so was all memory.
LEMMA AllHanded ==
  ASSUME IndInv, Serving, RegionFacts, NumbersHanded, index >= first[num_regions],
         NEW j \in 1 .. Len(map), Usable(map, j), NEW p \in map[j].base .. EntryEnd(map[j]) - 1
  PROVE  p \in Owned \/ p - map[j].base \in SetAside(map[j])
<1>1. /\ Located = Len(map) /\ usable_idx = num_regions /\ index \in Nat
      /\ bitmap_length \in Nat /\ map \in MemoryMaps /\ first[num_regions] \in Nat
      /\ \A k \in 0 .. num_regions - 1 :
           /\ region_info[k].start \in Nat /\ region_info[k].pages \in Nat
           /\ first[k] \in Nat
           /\ first[k] + region_info[k].pages <= first[num_regions]
  BY ServingFacts
<1>2. map[j].base \in Nat /\ map[j].length \in Nat
  BY <1>1, MapFacts
<1>3. PICK k \in 0 .. num_regions - 1 :
        /\ region_info[k].start <= map[j].base + PagesAside(map[j])
        /\ region_info[k].start + region_info[k].pages = EntryEnd(map[j])
  BY <1>1 DEF RegionFacts, EntriesCovered
<1>4. PagesAside(map[j]) \in Nat /\ EntryEnd(map[j]) \in Nat
  BY <1>1, <1>2, BitmapPagesFacts DEF EntryEnd, PagesAside
<1>5. PICK s \in Nat, g \in Nat, b \in Nat, e \in Nat :
        /\ s = region_info[k].start /\ g = region_info[k].pages /\ b = map[j].base
        /\ e = EntryEnd(map[j]) /\ s <= b + PagesAside(map[j]) /\ s + g = e
  BY <1>1, <1>2, <1>3, <1>4
<1>6. p \in Int /\ b <= p /\ p <= e - 1
  BY <1>5
<1>7. CASE p < region_info[k].start
  <2>1. PICK a \in Nat : a = PagesAside(map[j])
    BY <1>4
  <2>2. p < s /\ s <= b + a
    BY <1>5, <1>7, <2>1
  <2>3. p - b \in 0 .. a - 1 /\ a > 0
    BY <1>6, <2>2
  <2>4. map[j].length * PageSize >= bitmap_length /\ a = BitmapPages
    BY <2>1, <2>3 DEF PagesAside
  <2>5. p - b \in BitmapSpan
    BY <1>1, <2>3, <2>4, SpanFull
  <2>6. QED
    BY <1>5, <2>4, <2>5 DEF SetAside
<1>8. CASE ~(p < region_info[k].start)
  <2>1. PICK c : c = p - region_info[k].start
    OBVIOUS
  <2>2. c \in 0 .. region_info[k].pages - 1 /\ region_info[k].start + c = p
    <3>1. c \in 0 .. g - 1 /\ s + c = p
      <4>1. ~(p < s)
        BY <1>5, <1>8
      <4>2. p - s \in 0 .. g - 1 /\ s + (p - s) = p
        <5>1. PICK q \in Int : q = p
          BY <1>6
        <5>2. s + g = e
          BY <1>5
        <5>3. q <= e - 1 /\ ~(q < s)
          BY <1>6, <4>1, <5>1
        <5>4. q - s \in 0 .. g - 1 /\ s + (q - s) = q
          BY <5>2, <5>3
        <5>5. QED
          BY <5>1, <5>4
      <4>3. c = p - s
        BY <1>5, <2>1
      <4>4. QED
        BY <4>2, <4>3
    <3>2. QED
      BY <1>5, <3>1
  <2>3. first[k] + c < index
    BY <1>1, <2>2
  <2>4. QED
    BY <2>2, <2>3 DEF NumbersHanded
<1>9. QED
  BY <1>7, <1>8

\* A call that finds index past the last frame is on a machine with one.
LEMMA Exhausted ==
  ASSUME IndInv, BitmapKept, RegionFacts, NumbersHanded, pc = "ready", index >= max_frames
  PROVE  max_frames = 1 /\ index >= first[num_regions]
<1>1. /\ Serving /\ Running /\ Located = Len(map) /\ Scanned = Len(map)
      /\ usable_idx = num_regions /\ frame_map # 0 /\ 0 < num_regions
      /\ index \in Nat /\ max_frames \in Nat /\ bitmap_length \in Nat /\ map \in MemoryMaps
      /\ first[num_regions] \in Nat /\ num_regions \in 0 .. MaxRegions
  BY ServingFacts DEF Serving
<1>2. index <= first[num_regions] /\ bitmap_length = max_frames \div 2
  BY <1>1 DEF NumbersHanded, BitmapKept, BitmapBytes
<1>3. /\ first[num_regions] <= max_frames
      /\ 0 < bitmap_length => first[num_regions] < max_frames
  BY <1>1 DEF RegionFacts, RegionsCounted
<1>4. bitmap_length = 0 /\ index >= first[num_regions]
  BY <1>1, <1>2, <1>3
<1>5. max_frames < 2
  <2>1. max_frames = 2 * (max_frames \div 2) + (max_frames % 2) /\ max_frames % 2 \in {0, 1}
    BY <1>1, Parity
  <2>2. QED
    BY <1>1, <1>2, <1>4, <2>1
<1>6. max_frames > 0
  <2>1. 0 \in 0 .. usable_idx - 1
    BY <1>1
  <2>2. PICK j \in 1 .. Len(map) : Usable(map, j)
    BY <1>1, <2>1 DEF IndInv, Visited
  <2>3. map[j].length \in Nat /\ map[j].length > 0
    BY <1>1, <2>2, MapFacts
  <2>4. map[j].length <= max_frames
    BY <1>1, <2>2 DEF RegionFacts, LongestShare
  <2>5. QED
    BY <1>1, <2>3, <2>4
<1>7. QED
  BY <1>1, <1>4, <1>5, <1>6

\* The walk leaves the last region with no frame number left.
LEMMA Overrun ==
  ASSUME IndInv, SkipRegion, pc' = "halted"
  PROVE  index >= first[num_regions]
<1>1. /\ pc = "walk" /\ ~(map_idx + 1 < num_regions)
      /\ BeyondRegion(copy, region_info[map_idx].pages)
  BY DEF SkipRegion, Chassert
<1>2. copy >= region_info[map_idx].pages
  BY <1>1, BeyondRegionExact
<1>3. /\ map_idx \in 0 .. num_regions - 1 /\ num_regions \in Nat
      /\ index \in Nat /\ copy \in 0 .. index
      /\ region_info[map_idx].pages \in Nat /\ first[map_idx] \in Nat
      /\ usable_idx = num_regions
  BY <1>1, WalkFacts
<1>4. first[map_idx + 1] = first[map_idx] + region_info[map_idx].pages
  BY <1>1, <1>3, WalkFacts DEF FramesNumbered
<1>5. copy = index - first[map_idx]
  BY <1>1, WalkFacts DEF WalkCounts
<1>6. map_idx + 1 = num_regions
  BY <1>1, <1>3
<1>7. QED
  BY <1>2, <1>3, <1>4, <1>5, <1>6

-----------------------------------------------------------------------------
(* The last call *)

\* A step that hands out nothing and does not end the supply loses nothing.
LEMMA LostKept ==
  ASSUME NoFrameLost, UNCHANGED <<map, bitmap_length, handed>>,
         result' = -1 \/ failed' = "region_overrun" => result = -1 \/ failed = "region_overrun"
  PROVE  NoFrameLost'
<1>1. /\ Owned' = Owned
      /\ \A k \in 1 .. Len(map) : SetAside(map[k])' = SetAside(map[k])
  BY DEF Owned, SetAside, BitmapSpan
<1>2. QED
  BY <1>1 DEF NoFrameLost

\* A call that finds the frame numbers used up finds no memory left.
LEMMA NothingLeft ==
  ASSUME IndInv, Serving, RegionFacts, NumbersHanded, index >= first[num_regions],
         UNCHANGED <<map, bitmap_length, handed>>
  PROVE  NoFrameLost'
<1>1. /\ Owned' = Owned
      /\ \A k \in 1 .. Len(map) : SetAside(map[k])' = SetAside(map[k])
  BY DEF Owned, SetAside, BitmapSpan
<1>2. \A k \in 1 .. Len(map) :
        Usable(map, k) =>
          \A p \in map[k].base .. EntryEnd(map[k]) - 1 :
            p \in Owned \/ p - map[k].base \in SetAside(map[k])
  BY AllHanded
<1>3. QED
  BY <1>1, <1>2 DEF NoFrameLost

\* What the steps do to the result and to the assertion that failed.
LEMMA Outcomes ==
  ASSUME IndInv, FailedHalts, Booting => result # -1, [Next]_vars
  PROVE  \/ UNCHANGED vars
         \/ /\ Boot /\ result' = result /\ result # -1 /\ map' = map
            /\ failed' \in {"none", "entry_count", "no_bitmap"}
            /\ EndLocate \/ failed' # "no_bitmap"
         \/ /\ FrameAlloc \/ Alloc \/ FrameFree
            /\ Serving /\ ~Booting' /\ failed = "none"
            /\ UNCHANGED <<map, bitmap_length, max_frames>>
            /\ failed' # "no_bitmap"
<1>1. CASE Boot
  <2>1. Booting /\ failed = "none"
    BY <1>1 DEF Boot, InitializeMemmap, RecordEntry, EndScan, LocateForBitmap, EndLocate, FillByte,
                EndFill, Booting, FailedHalts
  <2>2. result' = result /\ map' = map
    BY <1>1 DEF Boot, InitializeMemmap, RecordEntry, EndScan, LocateForBitmap, EndLocate, FillByte,
                EndFill, boot_vars, alloc_vars
  <2>3. \/ failed' = failed
        \/ failed' = "entry_count"
        \/ EndLocate /\ failed' = "no_bitmap"
    BY <1>1 DEF Boot, InitializeMemmap, RecordEntry, EndScan, LocateForBitmap, EndLocate, FillByte,
                EndFill, Chassert
  <2>4. QED
    BY <1>1, <2>1, <2>2, <2>3
<1>2. CASE FrameAlloc \/ Alloc \/ FrameFree
  <2>1. UNCHANGED <<map, bitmap_length, max_frames>>
    BY <1>2 DEF FrameAlloc, Alloc, SkipFrame, ClaimFrame, SkipRegion, ReturnFrame, FrameFree, boot_vars
  <2>2. pc' \notin {"start", "scan", "locate", "fill"} /\ pc \in {"ready", "search", "walk"}
    BY <1>2 DEF FrameAlloc, Alloc, SkipFrame, ClaimFrame, SkipRegion, ReturnFrame, FrameFree, Chassert
  <2>3. failed = "none"
    BY <2>2 DEF FailedHalts
  <2>4. failed' # "no_bitmap"
    BY <1>2, <2>3 DEF FrameAlloc, Alloc, SkipFrame, ClaimFrame, SkipRegion, ReturnFrame, FrameFree,
                      Chassert
  <2>5. QED
    BY <1>2, <2>1, <2>2, <2>3, <2>4 DEF Booting, Serving
<1>3. QED
  BY <1>1, <1>2 DEF Next, Hcf

\* Both ways of running out of frames, the early return and the assertion
\* of the region walk, come when no memory is left.
LEMMA LostStep ==
  ASSUME IndInv, Accounts, [Next]_vars, \A m \in MemoryMaps : Fits32(m)
  PROVE  NoFrameLost'
<1>1. /\ FailedHalts /\ BitmapKept /\ NumbersHanded /\ NoFrameLost
      /\ Running => RegionFacts
  BY DEF Accounts, RegionFacts
<1>2. CASE UNCHANGED vars
  <2>1. UNCHANGED <<map, bitmap_length, handed, result, failed>>
    BY <1>2 DEF vars, boot_vars, alloc_vars
  <2>2. QED
    BY <1>1, <2>1, LostKept
<1>3. CASE result' # -1 /\ failed' # "region_overrun"
  BY <1>3 DEF NoFrameLost
<1>4. ASSUME FrameAlloc \/ Alloc \/ FrameFree, Serving, failed = "none",
             UNCHANGED <<map, bitmap_length>>
      PROVE  NoFrameLost'
  <2>1. RegionFacts
    BY <1>1, <1>4 DEF Serving, Running
  <2>2. CASE FrameAlloc /\ NoFramesLeft
    <3>1. /\ pc = "ready" /\ handed' = handed /\ index >= max_frames
      BY <2>2 DEF FrameAlloc, NoFramesLeft
    <3>2. index >= first[num_regions]
      BY <1>1, <2>1, <3>1, Exhausted
    <3>3. QED
      BY <1>1, <1>4, <2>1, <3>1, <3>2, NothingLeft
  <2>3. CASE SkipRegion /\ pc' = "halted"
    <3>1. index >= first[num_regions]
      BY <2>3, Overrun
    <3>2. handed' = handed
      BY <2>3 DEF SkipRegion
    <3>3. QED
      BY <1>1, <1>4, <2>1, <3>1, <3>2, NothingLeft
  <2>4. CASE ReturnFrame
    <3>1. failed' = "none" /\ result' \in Nat
      BY <1>4, <2>4, FrameFacts DEF ReturnFrame
    <3>2. QED
      BY <1>3, <3>1
  <2>5. ASSUME SkipFrame \/ ClaimFrame \/ FrameFree \/ (FrameAlloc /\ ~NoFramesLeft)
                 \/ (SkipRegion /\ pc' # "halted")
        PROVE  NoFrameLost'
    <3>1. result' = result /\ handed' = handed
      BY <2>5 DEF SkipFrame, ClaimFrame, SkipRegion, FrameFree, FrameAlloc
    <3>2. failed' # "region_overrun"
      BY <1>4, <2>5 DEF SkipFrame, ClaimFrame, SkipRegion, FrameFree, FrameAlloc, Chassert
    <3>3. QED
      BY <1>1, <1>4, <3>1, <3>2, LostKept
  <2>6. QED
    BY <1>4, <2>2, <2>3, <2>4, <2>5 DEF Alloc
<1>5. QED
  BY <1>1, <1>2, <1>3, <1>4, Outcomes DEF Accounts

\* A bound on the factor carries over to the product.
LEMMA Doubled ==
  ASSUME NEW n \in Nat, NEW l \in Nat, NEW p \in Nat, NEW b \in Nat, n <= 2 * p, l * p < b
  PROVE  n * l < 2 * b
<1>1. PICK e \in Nat : n + e = 2 * p
  <2>1. 2 * p - n \in Nat /\ n + (2 * p - n) = 2 * p
    OBVIOUS
  <2>2. QED
    BY <2>1
<1>2. (n + e) * l = n * l + e * l /\ n * l \in Nat /\ e * l \in Nat
  OBVIOUS
<1>3. (2 * p) * l = 2 * (l * p) /\ l * p \in Nat
  OBVIOUS
<1>4. QED
  BY <1>1, <1>2, <1>3

\* The longest usable entry has room for the bitmap: it has at least its share
\* of max_frames, and a page has the nibbles of 2 * PageSize frames.
LEMMA FitsStep ==
  ASSUME IndInv, Accounts, [Next]_vars
  PROVE  BitmapAlwaysFits'
<1>1. CASE failed' # "no_bitmap" \/ (failed = "no_bitmap" /\ map' = map)
  BY <1>1 DEF BitmapAlwaysFits, Accounts
<1>2. ASSUME EndLocate, MaxRegions <= 2 * PageSize, UsablePages(map) # {}
      PROVE  frame_map # 0
  <2> SUFFICES ASSUME frame_map = 0 PROVE FALSE
    OBVIOUS
  <2>1. pc = "locate" /\ i = Len(map) /\ Running /\ Scanned = Len(map)
    BY <1>2 DEF EndLocate, Running, Scanned
  <2>2. /\ map \in MemoryMaps /\ max_frames \in Nat /\ bitmap_length \in Nat
        /\ num_regions \in 0 .. MaxRegions
    BY DEF IndInv, TypeOK
  <2>3. LongestShare /\ BitmapSought /\ bitmap_length = max_frames \div 2
    BY <2>1 DEF Accounts, BitmapKept, BitmapBytes
  <2>4. max_frames # 0
    <3>1. PICK j \in 1 .. Len(map) : Usable(map, j)
      BY <1>2 DEF UsablePages
    <3>2. map[j].length \in Nat /\ map[j].length > 0
      BY <2>2, <3>1, MapFacts
    <3>3. map[j].length <= max_frames
      BY <2>1, <2>3, <3>1 DEF LongestShare
    <3>4. QED
      BY <2>2, <3>2, <3>3
  <2>5. PICK j \in 1 .. Len(map) : Usable(map, j) /\ max_frames <= num_regions * map[j].length
    BY <2>1, <2>3, <2>4 DEF LongestShare
  <2>6. PICK l \in Nat : l = map[j].length
    BY <2>2, <2>5, MapFacts
  <2>7. l * PageSize < bitmap_length
    BY <2>1, <2>3, <2>5, <2>6 DEF BitmapSought
  <2>8. num_regions \in Nat /\ num_regions <= 2 * PageSize
    BY <1>2, <2>2, SizeAssumption
  <2>9. num_regions * l < 2 * bitmap_length
    BY <2>2, <2>7, <2>8, SizeAssumption, Doubled
  <2>10. 2 * bitmap_length <= max_frames
    BY <2>2, <2>3, Parity
  <2>11. num_regions * l \in Nat
    BY <2>8
  <2>12. QED
    BY <2>2, <2>5, <2>6, <2>9, <2>10, <2>11
<1>3. CASE EndLocate
  <2>1. map' = map /\ (failed' = failed \/ frame_map = 0)
    BY <1>3 DEF EndLocate, Chassert, boot_vars
  <2>2. QED
    BY <1>2, <1>3, <2>1 DEF BitmapAlwaysFits, Accounts
<1>4. CASE UNCHANGED vars
  BY <1>1, <1>4 DEF vars, boot_vars
<1>5. QED
  BY <1>1, <1>3, <1>4, Outcomes DEF Accounts

\* The early return comes first only if the single frame has no nibble.
LEMMA TinyStep ==
  ASSUME IndInv, Accounts, [Next]_vars
  PROVE  RefusesOnlyTinyMachines'
<1>1. CASE UNCHANGED vars
  BY <1>1 DEF vars, boot_vars, alloc_vars, RefusesOnlyTinyMachines, Accounts
<1>2. CASE result' # -1
  BY <1>2 DEF RefusesOnlyTinyMachines
<1>3. ASSUME FrameAlloc \/ Alloc \/ FrameFree, Serving, max_frames' = max_frames, result' = -1
      PROVE  RefusesOnlyTinyMachines'
  <2>1. CASE result = -1
    BY <1>3, <2>1 DEF RefusesOnlyTinyMachines, Accounts
  <2>2. CASE FrameAlloc /\ NoFramesLeft
    <3>1. pc = "ready" /\ index >= max_frames
      BY <2>2 DEF FrameAlloc, NoFramesLeft
    <3>2. BitmapKept /\ RegionFacts /\ NumbersHanded
      BY <3>1 DEF Accounts, RegionFacts, Running
    <3>3. max_frames = 1
      BY <3>1, <3>2, Exhausted
    <3>4. QED
      BY <1>3, <3>3 DEF RefusesOnlyTinyMachines
  <2>3. CASE ReturnFrame
    <3>1. result' # -1
      <4>1. PICK s, c : s = region_info[map_idx].start /\ c = copy
        OBVIOUS
      <4>2. /\ result' = s + (c % WrapPages) /\ s \in Nat /\ c \in Nat
        <5>1. pc = "walk" /\ result' = FrameAt(region_info[map_idx].start, copy)
          BY <2>3 DEF ReturnFrame
        <5>2. copy \in Nat /\ region_info[map_idx].start \in Nat
          BY <5>1, WalkFacts DEF TypeOK
        <5>3. QED
          BY <4>1, <5>1, <5>2 DEF FrameAt
      <4>3. c % WrapPages \in 0 .. WrapPages - 1
        BY <4>2, SizeAssumption, Remainder
      <4>4. QED
        BY <4>2, <4>3, SizeAssumption
    <3>2. QED
      BY <1>3, <3>1
  <2>4. ASSUME SkipFrame \/ ClaimFrame \/ SkipRegion \/ FrameFree \/ (FrameAlloc /\ ~NoFramesLeft)
        PROVE  result' = result
    BY <2>4 DEF SkipFrame, ClaimFrame, SkipRegion, FrameFree, FrameAlloc
  <2>5. QED
    BY <1>3, <2>1, <2>2, <2>3, <2>4 DEF Alloc
<1>4. QED
  BY <1>1, <1>2, <1>3, Outcomes DEF Accounts

LEMMA AccountInit == Init => AccountInv
<1> SUFFICES ASSUME Init PROVE Accounts
  BY InitInv DEF AccountInv
<1>1. FailedHalts /\ (Booting => result # -1) /\ ~Running /\ pc = "start" /\ failed = "none"
  BY DEF Init, FailedHalts, Running
<1>2. BitmapKept
  <2>1. DOMAIN bitmap = {}
    BY DEF Init
  <2>2. QED
    BY <1>1, <2>1 DEF BitmapKept, Serving
<1>3. NumbersHanded /\ NoFrameLost /\ BitmapAlwaysFits /\ RefusesOnlyTinyMachines
  BY DEF Init, NumbersHanded, Serving, NoFrameLost, BitmapAlwaysFits, RefusesOnlyTinyMachines
<1>4. QED
  BY <1>1, <1>2, <1>3 DEF Accounts

LEMMA AccountStep ==
  ASSUME AccountInv, [Next]_vars, \A m \in MemoryMaps : Fits32(m)
  PROVE  AccountInv'
<1>1. IndInv /\ Accounts
  BY DEF AccountInv
<1>2. IndInv'
  BY <1>1, StepInv
<1>3. FailedHalts'
  BY <1>1, FailedHaltsInv DEF Accounts
<1>4. Booting' => result' # -1
  <2>1. UNCHANGED vars => Booting' = Booting /\ result' = result
    BY DEF vars, alloc_vars, Booting
  <2>2. QED
    BY <1>1, <2>1, Outcomes DEF Accounts
<1>5. BitmapKept'
  BY <1>1, <1>2, BitmapStep DEF Accounts
<1>6. Running' => RegionFacts'
  BY <1>1, RegionFactsStep DEF Accounts, RegionFacts
<1>7. NumbersHanded'
  BY <1>1, NumbersStep DEF Accounts
<1>8. NoFrameLost' /\ BitmapAlwaysFits' /\ RefusesOnlyTinyMachines'
  BY <1>1, LostStep, FitsStep, TinyStep
<1>9. Accounts'
  BY <1>3, <1>4, <1>5, <1>6, <1>7, <1>8 DEF Accounts, RegionFacts
<1>10. QED
  BY <1>2, <1>9 DEF AccountInv

-----------------------------------------------------------------------------

\* The allocator's accounts always balance: the bitmap, the frame numbers,
\* the regions and the entries of the map agree from one call to the next.
THEOREM AccountInvariance ==
  ASSUME \A m \in MemoryMaps : Fits32(m)
  PROVE  Spec => []AccountInv
<1>1. Init => AccountInv
  BY AccountInit
<1>2. AccountInv /\ [Next]_vars => AccountInv'
  BY AccountStep
<1>3. QED
  BY <1>1, <1>2, PTL DEF Spec

\* Between calls of frame_alloc the nibbles of the bitmap tell exactly which
\* frames were handed out, and no nibble disturbs the other one of its byte.
THEOREM MirrorTheorem ==
  ASSUME \A m \in MemoryMaps : Fits32(m)
  PROVE  Spec => []BitmapMirrorsHandouts
<1>1. AccountInv => BitmapMirrorsHandouts
  BY DEF AccountInv, Accounts, BitmapKept, BitmapMirrorsHandouts, Serving, Taken
<1>2. QED
  BY <1>1, AccountInvariance, PTL

\* When frame_alloc has nothing left to return, every usable page of the
\* memory map was handed out, or is one of those that an entry with room for
\* the bitmap sets aside: an entry without room loses none, and the region
\* walk drops none.
THEOREM NoFrameLostTheorem ==
  ASSUME \A m \in MemoryMaps : Fits32(m)
  PROVE  Spec => []NoFrameLost
<1>1. AccountInv => NoFrameLost
  BY DEF AccountInv, Accounts
<1>2. QED
  BY <1>1, AccountInvariance, PTL

\* locate_for_bitmap finds room for the bitmap on every machine that has
\* usable memory, whatever the shape of its memory map.
THEOREM BitmapFitsTheorem ==
  ASSUME \A m \in MemoryMaps : Fits32(m)
  PROVE  Spec => []BitmapAlwaysFits
<1>1. AccountInv => BitmapAlwaysFits
  BY DEF AccountInv, Accounts
<1>2. QED
  BY <1>1, AccountInvariance, PTL

\* frame_alloc returns (uint64_t)-1 only on a machine with one usable frame:
\* on all others the region walk halts before the early return is reached.
THEOREM TinyMachinesTheorem ==
  ASSUME \A m \in MemoryMaps : Fits32(m)
  PROVE  Spec => []RefusesOnlyTinyMachines
<1>1. AccountInv => RefusesOnlyTinyMachines
  BY DEF AccountInv, Accounts
<1>2. QED
  BY <1>1, AccountInvariance, PTL
=============================================================================
