------------------------------ MODULE PhysMemInv ------------------------------
(***************************************************************************)
(* The inductive invariants behind the theorems of PhysMemProofs.  TLC     *)
(* checks them on the maps of MCPhysMem; they are inductive for every set  *)
(* of memory maps within the 32-bit limits of Fits32.                      *)
(***************************************************************************)
EXTENDS PhysMemProps

\* The code is past its first assertion and has not halted.
Running == pc \notin {"start", "halted"}

\* Entries of the map that initialize_memmap, and locate_for_bitmap, have
\* been over.
Scanned == IF pc = "scan" THEN i ELSE Len(map)
Located == IF pc = "scan" THEN 0 ELSE IF pc = "locate" THEN i ELSE Len(map)

\* How far the counters can have got.
Counters ==
  /\ Len(map) <= MaxRegions
  /\ pc \in {"scan", "locate"} => i <= Len(map)
  /\ usable_idx <= num_regions /\ num_regions <= Scanned
  /\ pc = "scan" => usable_idx = 0 /\ frame_map = 0
  /\ pc \notin {"scan", "locate"} => usable_idx = num_regions /\ frame_map # 0
  /\ frame_map # 0 => 0 < usable_idx
  /\ Booting => index = 0 /\ handed = <<>>
  /\ pc \in {"search", "walk"} => index < max_frames

\* The frames counted so far fit below every usable entry still to come, so
\* that frame numbers never leave the reach of the 32-bit casts.
FramesBounded ==
  /\ max_frames <= UintMod \div 2
  /\ pc = "scan" => \A j \in i + 1 .. Len(map) : Usable(map, j) => max_frames <= map[j].base

\* The regions locate_for_bitmap has yet to visit are the usable entries it
\* has yet to visit, unchanged.
Unvisited ==
  /\ \A k \in usable_idx .. num_regions - 1 :
       \E j \in Located + 1 .. Scanned :
         Usable(map, j) /\ region_info[k] = RegionOf(map[j])
  /\ \A j \in Located + 1 .. Scanned :
       Usable(map, j) => \E k \in usable_idx .. num_regions - 1 :
                           region_info[k] = RegionOf(map[j])

\* A region it has visited is the rest of a usable entry.
Visited ==
  \A k \in 0 .. usable_idx - 1 :
    \E j \in 1 .. Located :
      /\ Usable(map, j)
      /\ map[j].base <= region_info[k].start
      /\ region_info[k].start + region_info[k].pages = EntryEnd(map[j])

RegionsSorted ==
  \A l \in 0 .. num_regions - 1 : \A k \in 0 .. l - 1 :
    region_info[k].start + region_info[k].pages <= region_info[l].start

\* first numbers the frames of the visited regions one after the other.
FramesNumbered ==
  /\ first[0] = 0
  /\ \A k \in 0 .. usable_idx - 1 : first[k + 1] = first[k] + region_info[k].pages
  /\ \A l \in 0 .. usable_idx : \A k \in 0 .. l - 1 :
       first[k] + region_info[k].pages <= first[l]

\* The bitmap lies at the start of a visited usable entry with room for it,
\* and no visited region has a page of it.
BitmapApart ==
  frame_map # 0 =>
    /\ \E j \in 1 .. Located :
         Usable(map, j) /\ frame_map = map[j].base /\ BitmapPages <= map[j].length
    /\ \A k \in 0 .. usable_idx - 1 :
         \/ region_info[k].start + region_info[k].pages <= frame_map
         \/ frame_map + BitmapPages <= region_info[k].start

\* The walk over the regions counts down from index.
WalkCounts ==
  pc = "walk" => /\ map_idx < num_regions
                 /\ first[map_idx] <= index
                 /\ copy = index - first[map_idx]

\* Whatever frame number is still to come, its address is above all frames
\* handed out.
HandedBelow ==
  \A n \in DOMAIN handed : \A k \in 0 .. num_regions - 1 :
    \A c \in 0 .. region_info[k].pages - 1 :
      first[k] + c >= index => handed[n] < region_info[k].start + c

\* An assertion that failed has stopped the processor.
FailedHalts == failed # "none" => pc = "halted"

\* The inductive invariant: what keeps frames apart.
IndInv ==
  /\ TypeOK
  /\ HandedAscending
  /\ HandedClear
  /\ pc = "start" => handed = <<>> /\ i = 0 /\ index = 0 /\ max_frames = 0
                     /\ num_regions = 0 /\ usable_idx = 0 /\ frame_map = 0
                     /\ first[0] = 0
  /\ Running => /\ Counters
                /\ FramesBounded
                /\ Unvisited
                /\ Visited
                /\ RegionsSorted
                /\ FramesNumbered
                /\ BitmapApart
                /\ WalkCounts
                /\ HandedBelow

-----------------------------------------------------------------------------
(* What no call can lose: the invariant behind the theorems on the bitmap  *)
(* and on the frames that are left.                                        *)

\* The frame that a call has claimed is taken before it is handed out.
Taken == IF pc = "walk" THEN index + 1 ELSE index

\* The bitmap is filled byte by byte, and from then on its nibbles say which
\* frames are taken.  An odd last frame has no nibble: what is read for it
\* may be anything.
BitmapKept ==
  /\ pc \notin {"start", "scan", "halted"} => bitmap_length = BitmapBytes
  /\ pc \in {"start", "scan", "locate"} => DOMAIN bitmap = {}
  /\ pc = "fill" => /\ i <= bitmap_length /\ DOMAIN bitmap = 0 .. i - 1
                    /\ \A b \in DOMAIN bitmap : bitmap[b] = BothAvail
  /\ Serving => /\ DOMAIN bitmap = 0 .. bitmap_length - 1
                /\ Len(handed) = index
                /\ \A f \in 0 .. 2 * bitmap_length - 1 :
                     Flags(f) = {IF f < Taken THEN 0 ELSE 8}
  /\ pc = "search" => flag \in Flags(index)

\* count[k] usable pages were counted before region k was recorded.  The
\* regions still to be visited have all of theirs; those visited have fewer
\* once the bitmap took pages of one of them.
RegionsCounted ==
  \E count \in [0 .. MaxRegions -> 0 .. max_frames] :
    /\ count[num_regions] = max_frames
    /\ \A k \in usable_idx .. num_regions - 1 :
         count[k + 1] = count[k] + region_info[k].pages
    /\ first[usable_idx] <= count[usable_idx]
    /\ frame_map # 0 /\ 0 < bitmap_length => first[usable_idx] < count[usable_idx]

\* The longest usable entry has its share of all frames at least.
LongestShare ==
  /\ \A j \in 1 .. Scanned : Usable(map, j) => map[j].length <= max_frames
  /\ \/ max_frames = 0
     \/ \E j \in 1 .. Scanned : Usable(map, j) /\ max_frames <= num_regions * map[j].length

\* The bitmap has found no room yet: every entry visited is too short.
BitmapSought ==
  pc = "locate" /\ frame_map = 0 =>
    \A j \in 1 .. i : Usable(map, j) => map[j].length * PageSize < bitmap_length

\* How many pages an entry gives up: those of a bitmap, if it would fit.
PagesAside(e) == IF e.length * PageSize >= bitmap_length THEN BitmapPages ELSE 0

\* Every usable entry visited has become a region, but for the pages at its
\* start that it sets aside for the bitmap.
EntriesCovered ==
  \A j \in 1 .. Located :
    Usable(map, j) =>
      \E k \in 0 .. usable_idx - 1 :
        /\ region_info[k].start <= map[j].base + PagesAside(map[j])
        /\ region_info[k].start + region_info[k].pages = EntryEnd(map[j])

\* The frames numbered below index were handed out, each at its address.
NumbersHanded ==
  Serving =>
    /\ index <= first[num_regions]
    /\ \A k \in 0 .. num_regions - 1 : \A c \in 0 .. region_info[k].pages - 1 :
         first[k] + c < index => region_info[k].start + c \in Owned

Accounts ==
  /\ FailedHalts
  /\ Booting => result # -1
  /\ BitmapKept
  /\ Running => RegionsCounted /\ LongestShare /\ BitmapSought /\ EntriesCovered
  /\ NumbersHanded
  /\ NoFrameLost
  /\ BitmapAlwaysFits
  /\ RefusesOnlyTinyMachines

(* The map, the regions, the frame numbers, the bitmap and what was handed *)
(* out agree in every state: pmem.c keeps three numberings of the same     *)
(* pages in step, and none of them loses one.                              *)
AccountInv == IndInv /\ Accounts
=============================================================================
