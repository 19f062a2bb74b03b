---------------------------- MODULE PhysMemProps ----------------------------
(***************************************************************************)
(* What the physical allocator has to get right: the properties the runs   *)
(* of MCPhysMem check, and the refinement mapping to FrameSupply.          *)
(***************************************************************************)
EXTENDS PhysMem

Booting == pc \in {"start", "scan", "locate", "fill"}
Serving == pc \in {"ready", "search", "walk"}

Assertions ==
  {"none", "entry_count", "no_bitmap", "search_overrun", "region_overrun",
   "not_impl", "already_freed"}

RegionPages ==
  UNION {region_info[k].start .. region_info[k].start + region_info[k].pages - 1 :
           k \in 0 .. num_regions - 1}

Owned == {handed[n] : n \in DOMAIN handed}

\* Page offsets, from its first page, that the bitmap has bytes on.
BitmapSpan == {b \div PageSize : b \in 0 .. bitmap_length - 1}

\* Of those, the ones that entry e gives up: all if the bitmap fits in it.
SetAside(e) == {o \in BitmapSpan : e.length * PageSize >= bitmap_length}

\* Every usable entry is at most 2^32 bytes long (the reach of the unsigned
\* cast of `copy`) and ends below 2^31 pages (the reach of the signed one).
Fits32(m) ==
  \A k \in 1 .. Len(m) :
    Usable(m, k) => /\ m[k].length <= WrapPages
                    /\ EntryEnd(m[k]) <= UintMod \div 2
-----------------------------------------------------------------------------
(* Every variable has its type; in particular no region of region_info has *)
(* a negative number of pages, which the unsigned arithmetic of            *)
(* locate_for_bitmap would turn into a huge one.                           *)
TypeOK ==
  /\ pc \in {"start", "scan", "locate", "fill", "ready", "search", "walk", "halted"}
  /\ failed \in Assertions
  /\ map \in MemoryMaps
  /\ i \in Nat /\ max_frames \in Nat /\ bitmap_length \in Nat /\ frame_map \in Nat
  /\ num_regions \in 0 .. MaxRegions /\ usable_idx \in 0 .. MaxRegions
  /\ region_info \in [0 .. MaxRegions - 1 -> Region]
  /\ first \in [0 .. MaxRegions -> Nat]
  /\ DOMAIN bitmap \subseteq Nat
  /\ bitmap \in [DOMAIN bitmap -> 0 .. 255]
  /\ index \in Nat /\ flag \in 0 .. 15 /\ copy \in Int /\ map_idx \in Nat
  /\ result \in Nat \cup {-1}
  /\ handed \in Seq(Nat)

(* frame_alloc never returns a frame twice, and returns them in ascending  *)
(* order: the region walk turns increasing frame numbers into increasing   *)
(* addresses, across region boundaries and whatever the bitmap took.       *)
HandedAscending ==
  \A m, n \in DOMAIN handed : m < n => handed[m] < handed[n]

(* A frame that was handed out is a page of usable memory with no byte of  *)
(* the frame bitmap on it: its owner, and the memset of frame_alloc, can   *)
(* write all of it without disturbing the allocator.                       *)
HandedClear ==
  \A f \in Owned : /\ f \in UsablePages(map)
                   /\ \A o \in BitmapSpan : f # frame_map + o

(* Between calls, the nibbles of the bitmap say exactly what was handed    *)
(* out: those of the frames numbered below index are taken, all others are *)
(* AVAIL, and one frame was returned for each nibble taken.  The two       *)
(* nibbles of a byte never disturb each other.                             *)
BitmapMirrorsHandouts ==
  pc = "ready" =>
    /\ DOMAIN bitmap = 0 .. bitmap_length - 1
    /\ Len(handed) = index
    /\ \A f \in 0 .. 2 * bitmap_length - 1 : Flags(f) = {IF f < index THEN 0 ELSE 8}

(* No frame is lost: when a call finds nothing to return, every usable     *)
(* page was handed out, or is one of those that an entry with room for the *)
(* bitmap sets aside for it.  An entry without room gives up none, and     *)
(* skipping from region to region drops none.                              *)
NoFrameLost ==
  result = -1 \/ failed = "region_overrun" =>
    \A k \in 1 .. Len(map) :
      Usable(map, k) =>
        \A p \in map[k].base .. EntryEnd(map[k]) - 1 :
          p \in Owned \/ p - map[k].base \in SetAside(map[k])

(* CHASSERT(frame_map) cannot fail on a machine with usable memory: with   *)
(* at most MAX_REGIONS entries the longest usable one always has room for  *)
(* half a byte per frame.                                                  *)
BitmapAlwaysFits ==
  MaxRegions <= 2 * PageSize /\ UsablePages(map) # {} => failed # "no_bitmap"

(* (uint64_t)-1 is returned only on a machine with a single usable frame.  *)
(* No caller of frame_alloc looks for it.                                  *)
RefusesOnlyTinyMachines == result = -1 => max_frames = 1

(* A call of frame_alloc returns or halts: neither the search for an       *)
(* available nibble nor the walk over the regions goes on for ever.        *)
AllocReturns == (pc \in {"search", "walk"}) ~> (pc \in {"ready", "halted"})
-----------------------------------------------------------------------------
(* The allocator implements FrameSupply: the frames for hand-out are the   *)
(* pages of region_info that nobody owns, and between the first test of    *)
(* frame_alloc and its return the supply does not change.                  *)

SupplyState ==
  IF pc = "halted" THEN "halted" ELSE IF Booting THEN "booting" ELSE "ready"

SupplyFree ==
  IF Booting \/ failed \in {"entry_count", "no_bitmap"} THEN {}
  ELSE RegionPages \ Owned

Supply == INSTANCE FrameSupply WITH
            usable <- UsablePages(map),
            state  <- SupplyState,
            free   <- SupplyFree,
            owned  <- Owned

SupplySpec == Supply!Spec
-----------------------------------------------------------------------------
(* Things the repository says of the allocator that do not hold.           *)

(* pmem.c:214, CHASSERT(map_idx < num_regions && "Went out of bounds for   *)
(* frame allocation on the map index!").                                   *)
RegionWalkInBounds == failed # "region_overrun"

(* pmem.c:225-227: the address is the region's start plus the page size    *)
(* times the frames left in copy; frames of one region never coincide.     *)
FrameAddressesDistinct ==
  \A m, n \in DOMAIN handed : m # n => handed[m] # handed[n]
=============================================================================
