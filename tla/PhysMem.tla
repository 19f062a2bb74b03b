------------------------------ MODULE PhysMem ------------------------------
(***************************************************************************)
(* The physical frame allocator, src/src/memory/pmem.c: reading the boot   *)
(* loader's memory map (initialize_memmap), finding room for the frame     *)
(* bitmap (locate_for_bitmap), filling it (initialize_bitmap), and handing *)
(* out frames (frame_alloc).  Every loop iteration is a step, so a         *)
(* behaviour is a run of the C code on one memory map.                     *)
(*                                                                         *)
(* Addresses and lengths are counted in pages.  Limine reports usable      *)
(* entries page aligned, and pg_round_up keeps region starts aligned, so   *)
(* every address the module computes is a whole number of pages; sizes of  *)
(* the bitmap are in bytes, as in the code.  Widths are kept where the     *)
(* code narrows: the 32-bit counter of initialize_bitmap and the two casts *)
(* of `copy` in frame_alloc.  PageSize and WrapPages stand for 4096 and    *)
(* 2^20; TLC runs smaller ones.                                            *)
(***************************************************************************)
EXTENDS BootProtocol

CONSTANTS
  PageSize,    \* FRAME_ALLOCATION_SIZE, bytes in a page
  WrapPages,   \* pages in 2^32 bytes: where an unsigned byte offset wraps
  MaxRegions,  \* MAX_REGIONS
  MemoryMaps   \* the memory maps the boot loader may hand over

Region == [start : Nat, end : Nat, pages : Nat]

ASSUME SizeAssumption ==
  /\ PageSize \in Nat \ {0}
  /\ WrapPages \in Nat \ {0}
  /\ MaxRegions \in Nat \ {0}

ASSUME MapAssumption == \A m \in MemoryMaps : LimineMap(m)

\* Values of a 32-bit unsigned word.
UintMod == WrapPages * PageSize

VARIABLES
  pc,             \* where the code is
  failed,         \* the CHASSERT that stopped the processor, or "none"
  map,            \* the memory map: map, r
  i,              \* loop counter of the loop that pc names
  max_frames,     \* usable frames counted so far: init_free_space, max_frames
  num_regions,    \* region_idx, num_regions
  region_info,    \* region_info
  usable_idx,     \* usable_idx of locate_for_bitmap
  bitmap_length,  \* bytes
  frame_map,      \* page the bitmap starts on, 0 for the null pointer
  bitmap,         \* the bytes of frame_map initialised so far
  index,          \* index: next frame number to look at
  flag,           \* flag: the nibble read last
  copy, map_idx,  \* copy and map_idx of the region walk
  result,         \* what frame_alloc returned last, -1 for (uint64_t)-1
  first,          \* history: number of the first frame of each region
  handed          \* history: the frames returned to callers, in order

boot_vars == <<map, max_frames, num_regions, region_info, usable_idx,
               bitmap_length, frame_map, first>>
alloc_vars == <<index, flag, copy, map_idx, result, handed>>
vars == <<pc, failed, i, bitmap, boot_vars, alloc_vars>>

-----------------------------------------------------------------------------
(* Helpers *)

\* CHASSERT(holds): go on at `next`, or log and halt for good in hcf.
Chassert(holds, name, next) ==
  /\ pc' = IF holds THEN next ELSE "halted"
  /\ failed' = IF holds THEN failed ELSE name

\* Mutation: the round up is forgotten.
BitmapPagesRoundedDown == bitmap_length \div PageSize

\* pg_round_up, as a number of pages: what the bitmap takes from a region.
BitmapPages == (bitmap_length + PageSize - 1) \div PageSize

\* The frame is free: the AVAIL bit (1 << 3) of its nibble.
Avail(nibble) == nibble >= 8

\* MAKE_FLAGS(AVAIL) twice: the byte of two free frames.
BothAvail == 8 * 16 + 8

\* get_frame_flags: even frames are in the high nibble.  A byte nobody has
\* initialised, or past the bitmap's end, holds anything.
Flags(frame_no) ==
  LET byte == frame_no \div 2
  IN  IF byte \notin DOMAIN bitmap THEN 0 .. 15
      ELSE IF frame_no % 2 = 0 THEN {bitmap[byte] \div 16}
                               ELSE {bitmap[byte] % 16}

\* Mutation: the nibbles are taken the wrong way round.
WithFlagsSwapped(frame_no, flags) ==
  [b \in DOMAIN bitmap |->
     IF b # frame_no \div 2 THEN bitmap[b]
     ELSE IF frame_no % 2 = 1 THEN 16 * flags + (bitmap[b] % 16)
                              ELSE 16 * (bitmap[b] \div 16) + flags]

\* set_frame_flags: the other frame's nibble stays.  A write past the end
\* of the bitmap changes no byte of it.
WithFlags(frame_no, flags) ==
  [b \in DOMAIN bitmap |->
     IF b # frame_no \div 2 THEN bitmap[b]
     ELSE IF frame_no % 2 = 0 THEN 16 * flags + (bitmap[b] % 16)
                              ELSE 16 * (bitmap[b] \div 16) + flags]

\* memset of one page to zero, as far as the bitmap's bytes lie in it.
Zeroed(page) ==
  [b \in DOMAIN bitmap |->
     IF frame_map + (b \div PageSize) = page THEN 0 ELSE bitmap[b]]

\* Mutation: > for >=, one frame too many is looked for in each region.
BeyondRegionStrict(c, pages) == c % UintMod > pages

\* (signed)copy >= pages: the cast keeps 32 bits, and a negative int
\* compared with a uint64_t is huge.
BeyondRegion(c, pages) ==
  LET low == c % UintMod
  IN  low >= UintMod \div 2 \/ low >= pages

\* Mutation: the byte offset is kept in fewer bits.
FrameAtNarrow(start, c) == start + (c % 2)

\* start + ((unsigned)copy * FRAME_ALLOCATION_SIZE): the product is an
\* unsigned int, so the byte offset is taken modulo 2^32.
FrameAt(start, c) == start + (c % WrapPages)

RegionOf(e) == [start |-> e.base, end |-> EntryEnd(e), pages |-> e.length]

\* The region without the pages set aside for the bitmap.
Shrunk(r) ==
  [start |-> r.start + BitmapPages,
   end   |-> r.end,
   pages |-> r.end - (r.start + BitmapPages)]
-----------------------------------------------------------------------------
(* Reading the memory map *)

Init ==
  /\ pc = "start" /\ failed = "none"
  /\ map \in MemoryMaps
  /\ i = 0
  /\ max_frames = 0 /\ num_regions = 0 /\ usable_idx = 0
  /\ region_info = [k \in 0 .. MaxRegions - 1 |->
                      [start |-> 0, end |-> 0, pages |-> 0]]
  /\ bitmap_length = 0 /\ frame_map = 0 /\ bitmap = [b \in {} |-> 0]
  /\ index = 0 /\ flag = 0 /\ copy = 0 /\ map_idx = 0 /\ result = 0
  /\ first = [k \in 0 .. MaxRegions |-> 0]
  /\ handed = <<>>

\* initialize_memmap up to its loop.
InitializeMemmap ==
  /\ pc = "start"
  /\ Chassert(Len(map) <= MaxRegions, "entry_count", "scan")
  /\ UNCHANGED <<i, bitmap, boot_vars, alloc_vars>>

\* One turn of the loop: a usable entry becomes a region.
RecordEntry ==
  /\ pc = "scan" /\ i < Len(map)
  /\ i' = i + 1
  /\ \/ /\ Usable(map, i + 1)
        /\ max_frames' = max_frames + map[i + 1].length
        /\ region_info' = [region_info EXCEPT ![num_regions] = RegionOf(map[i + 1])]
        /\ num_regions' = num_regions + 1
     \/ /\ ~Usable(map, i + 1)
        /\ UNCHANGED <<max_frames, region_info, num_regions>>
  /\ UNCHANGED <<pc, failed, map, usable_idx, bitmap_length, frame_map, first,
                 bitmap, alloc_vars>>

\* Mutation: a nibble taken for a nibble's worth of bytes.
BitmapBytesTooMany == max_frames * 4

\* Half a byte of bitmap per frame; an odd last frame gets none.
BitmapBytes == max_frames \div 2

\* The end of the loop, and locate_for_bitmap up to its own loop.
EndScan ==
  /\ pc = "scan" /\ i = Len(map)
  /\ pc' = "locate"
  /\ i' = 0
  /\ bitmap_length' = BitmapBytes
  /\ UNCHANGED <<failed, map, max_frames, num_regions, region_info, usable_idx,
                 frame_map, first, bitmap, alloc_vars>>

\* Mutation: the size of the entry is not looked at.
PlaceBitmapAnywhere(e) ==
  /\ frame_map' = e.base
  /\ region_info' = [region_info EXCEPT ![usable_idx] = Shrunk(@)]

\* Mutation: an entry too short for the bitmap is not used at all.
PlaceBitmapOrDrop(e) ==
  IF e.length * PageSize >= bitmap_length
  THEN /\ frame_map' = e.base
       /\ region_info' = [region_info EXCEPT ![usable_idx] = Shrunk(@)]
  ELSE /\ region_info' = [region_info EXCEPT ![usable_idx].pages = 0]
       /\ UNCHANGED frame_map

\* Every usable entry the bitmap would fit in gives up room for it; the last
\* of them is where the bitmap goes.
PlaceBitmap(e) ==
  IF e.length * PageSize >= bitmap_length
  THEN /\ frame_map' = e.base
       /\ region_info' = [region_info EXCEPT ![usable_idx] = Shrunk(@)]
  ELSE UNCHANGED <<frame_map, region_info>>

\* One turn of the loop of locate_for_bitmap.
LocateForBitmap ==
  /\ pc = "locate" /\ i < Len(map)
  /\ i' = i + 1
  /\ \/ /\ Usable(map, i + 1)
        /\ PlaceBitmap(map[i + 1])
        /\ usable_idx' = usable_idx + 1
        /\ first' = [first EXCEPT ![usable_idx + 1] =
                       first[usable_idx] + region_info'[usable_idx].pages]
     \/ /\ ~Usable(map, i + 1)
        /\ UNCHANGED <<frame_map, region_info, usable_idx, first>>
  /\ UNCHANGED <<pc, failed, map, max_frames, num_regions, bitmap_length,
                 bitmap, alloc_vars>>

\* CHASSERT(frame_map) after the loop.
EndLocate ==
  /\ pc = "locate" /\ i = Len(map)
  /\ i' = 0
  /\ Chassert(frame_map # 0, "no_bitmap", "fill")
  /\ UNCHANGED <<bitmap, boot_vars, alloc_vars>>

\* The 32-bit loop counter of initialize_bitmap.
NextByte == (i + 1) % UintMod

\* One turn of the loop of initialize_bitmap.
FillByte ==
  /\ pc = "fill" /\ i < bitmap_length
  /\ bitmap' = [b \in DOMAIN bitmap \cup {i} |->
                  IF b = i THEN BothAvail ELSE bitmap[b]]
  /\ i' = NextByte
  /\ UNCHANGED <<pc, failed, boot_vars, alloc_vars>>

EndFill ==
  /\ pc = "fill" /\ i >= bitmap_length
  /\ pc' = "ready"
  /\ UNCHANGED <<failed, i, bitmap, boot_vars, alloc_vars>>
-----------------------------------------------------------------------------
(* frame_alloc *)

\* Mutation: off by one.
NoFramesLeftEarly == index + 1 >= max_frames

\* The early return of frame_alloc.
NoFramesLeft == index >= max_frames

\* A call: the early return of (uint64_t)-1, or the first look at the bitmap.
FrameAlloc ==
  /\ pc = "ready"
  /\ \/ /\ NoFramesLeft
        /\ result' = -1
        /\ UNCHANGED <<pc, flag>>
     \/ /\ ~NoFramesLeft
        /\ flag' \in Flags(index)
        /\ pc' = "search"
        /\ UNCHANGED result
  /\ UNCHANGED <<failed, i, bitmap, boot_vars, index, copy, map_idx, handed>>

\* Mutation: index++ is forgotten.
NextIndexStuck == index

\* index++ of the search.
NextIndex == index + 1

\* One turn of `while (!(flag & AVAIL))`: the nibble is read before the
\* index is checked.
SkipFrame ==
  /\ pc = "search" /\ ~Avail(flag)
  /\ index' = NextIndex
  /\ flag' \in Flags(NextIndex)
  /\ Chassert(NextIndex < max_frames, "search_overrun", "search")
  /\ UNCHANGED <<i, bitmap, boot_vars, copy, map_idx, result, handed>>

\* The frame is marked taken before the walk has found its region.
ClaimFrame ==
  /\ pc = "search" /\ Avail(flag)
  /\ flag' = flag % 8
  /\ bitmap' = WithFlags(index, flag % 8)
  /\ copy' = index
  /\ map_idx' = 0
  /\ pc' = "walk"
  /\ UNCHANGED <<failed, i, boot_vars, index, result, handed>>

\* One turn of the region walk that goes on to the next region.
SkipRegion ==
  /\ pc = "walk" /\ BeyondRegion(copy, region_info[map_idx].pages)
  /\ copy' = copy - region_info[map_idx].pages
  /\ map_idx' = map_idx + 1
  /\ Chassert(map_idx + 1 < num_regions, "region_overrun", "walk")
  /\ UNCHANGED <<i, bitmap, boot_vars, index, flag, result, handed>>

\* The turn that finds the region: clear the frame if asked, and return it.
ReturnFrame ==
  /\ pc = "walk" /\ ~BeyondRegion(copy, region_info[map_idx].pages)
  /\ LET frame == FrameAt(region_info[map_idx].start, copy)
     IN  /\ \E zeroed \in BOOLEAN :
              bitmap' = IF zeroed THEN Zeroed(frame) ELSE bitmap
         /\ result' = frame
         /\ handed' = Append(handed, frame)
  /\ index' = index + 1
  /\ pc' = "ready"
  /\ UNCHANGED <<failed, i, boot_vars, flag, copy, map_idx>>
-----------------------------------------------------------------------------
(* frame_free, on a frame its caller owns.  The nibble is looked up with    *)
(* the byte address as frame number, the assertion wants it AVAIL, and the  *)
(* function ends in NOT_IMPL.  Line 237, before NOT_IMPL, is not a complete *)
(* statement; whatever it becomes, line 238 halts before the bitmap is read *)
(* again, so the bitmap is left as it is.                                   *)
FrameFree ==
  /\ pc = "ready"
  /\ \E n \in DOMAIN handed : flag' \in Flags(handed[n] * PageSize)
  /\ pc' = "halted"
  /\ failed' = IF Avail(flag') THEN "not_impl" ELSE "already_freed"
  /\ UNCHANGED <<i, bitmap, boot_vars, index, copy, map_idx, result, handed>>

\* hcf: for (;;) hlt.
Hcf == pc = "halted" /\ UNCHANGED vars

Boot ==
  \/ InitializeMemmap
  \/ RecordEntry
  \/ EndScan
  \/ LocateForBitmap
  \/ EndLocate
  \/ FillByte
  \/ EndFill

Alloc ==
  \/ SkipFrame
  \/ ClaimFrame
  \/ SkipRegion
  \/ ReturnFrame

Next == Boot \/ FrameAlloc \/ Alloc \/ FrameFree \/ Hcf

Spec == Init /\ [][Next]_vars

\* The processor keeps executing the code it is in; whether frame_alloc or
\* frame_free is ever called is up to the callers.
FairSpec == Spec /\ WF_vars(Boot) /\ WF_vars(Alloc)
=============================================================================
