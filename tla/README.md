# A TLA+ development of bintos

bintos is a small x86-64 kernel that the Limine boot loader starts.  This
directory holds TLA+ modules for its parts, TLC configurations that check them
on small instances, and proofs, checked by TLAPS, of the results that matter
most.  Paths are relative to the repository, whose code is under `src/`.

- [Inventory](#inventory)
- [Modules and code](#modules-and-code)
- [Runs](#runs)
- [Fairness](#fairness)
- [Proofs](#proofs)
- [Disagreements found](#disagreements-found)
- [Not modelled](#not-modelled)
- [Plan](#plan)

## Inventory

One processor runs `kmain` once: serial port, exceptions, font, memory map,
page tables, a text on the screen, `hlt`.  Interrupts stay disabled, there are
no threads, and nothing is persisted.  What makes the kernel hard to test is
elsewhere: there are no tests, a mistake shows as a reset, and what the
firmware, the boot loader and the devices may do is not up to the kernel.

| Component | State | Operations | Hard behaviour | What makes it correct |
|---|---|---|---|---|
| Physical memory (`memory/pmem.c`) | memory map, `region_info`, bitmap of two frames a byte, `index` | `initialize_memmap`, `frame_alloc`, `frame_free` | three numberings of the same pages (map, regions, frame numbers) kept in step; the bitmap lies in the memory it describes; integer widths | no frame twice, none under the bitmap, none lost; a call returns or halts |
| Virtual memory (`memory/vm.c`) | page tables in frames of the allocator, `pml4_addr`, cr3 | `initialize_paging`, `map_page` | a walk extends the tables it reads; permissions are and-ed over four levels; everything must be in place when cr3 is loaded | the tables are a tree; a call changes one translation, to what was asked; image, stack and framebuffer survive the switch |
| Memory functions (`lib/stdlib.c`) | - | `memcpy`, `memmove`, `memset`, `memcmp` | overlapping blocks, empty blocks | the C contract |
| Logging (`lib/stdlib.c`) | - | `logf` | formats that end within a specifier, signs, number of digits | prints what was asked, reads the format once |
| Serial port (`serial/serial.c`) | registers and FIFOs of the 16550 | `init_serial`, `write_serial`, `serial_log` | the chip runs at its own pace; the firmware leaves it in any state; it may be absent | what is logged goes out in order; no message hangs |
| Exceptions (`int/interrupts.c`, `int/istubs.asm`, `int/page_fault.c`) | IDT, callbacks, stack frames | `initialize_exceptions`, the stubs, `exception_handler`, `page_fault` | exceptions at any point of the boot and in each other; frames built half by the processor, half by the stub | a handler reads its own frame; nothing resets the machine while the IDT is loaded and the tables behind it can be read; every exception ends halted |
| Text console (`resources/font/font.c`) | framebuffer, cursor | `init_font`, `set_text_cursor`, `putchar`, `puts` | pitch and width differ, 16-bit cursor, no scrolling | the screen shows the text, and nothing else is drawn |
| Kernel entry (`boot/kernel.c`) | - | `kmain` | order of the steps; responses that nobody checks; what is left behind when cr3 is loaded | nothing missing is passed in silence; the kernel never touches what is not there before faults are handled |
| Timer (`int/timer.c`) | `hz`, `ticks`, the chip's divisor | `pit_timer_init`, two delays | widths of divisor, product and `expected`; nobody counts `ticks` | a delay is as long as asked, and ends if ticks are counted |
| Boot loader interface (`limine.h`, `boot/requests.h`) | responses | - | what may be relied on | - |

Interactions are calls and shared hardware.  `vm.c` takes frames from `pmem.c`
and writes them through the boot loader's direct map; `pmem.c` clears frames
with `memset`, and its bitmap is memory like any other.  Everything logs through
`logf`, hence through the serial port, whether or not it was accepted.  A failed
`CHASSERT` logs and halts for good.  Exceptions may interrupt all of it, and
never return.

## Modules and code

Each component has a module with its state and actions, a `...Props` module
with its properties, and an `MC...` module with the values TLC uses.  Operators
named in a comment that begins with "Mutation:" are plausible bugs; no action
uses them, and each is there to show that a property can fail.  `PROJECT.json`
maps every definition to the lines it models.

**BootProtocol** is what the kernel may assume of the memory map: sorted
entries, usable ones page-aligned, not empty, overlapping nothing, never page
0.  Addresses are counted in pages from here on.

**FrameSupply** is the allocator seen by its callers: a set of free frames; a
call takes one above all taken before, or the processor halts.

**PhysMem** is `pmem.c`.  `pc` names the loop that runs and one turn is one
step: `RecordEntry` (a memory map entry becomes a region), `LocateForBitmap`
(every usable entry with room gives it up; the last one gets the bitmap),
`FillByte`, then for a call `FrameAlloc`, `SkipFrame`, `ClaimFrame`,
`SkipRegion`, `ReturnFrame`.  `FrameFree` is the call of `frame_free` on a frame
that its caller owns, up to the halt it always ends in (line 237 of the file is
not a complete statement; what it may become does not matter, since line 238
halts).  A failed `CHASSERT` is `pc = "halted"` with its name in `failed`.  The
casts of `copy` and the 32-bit counter keep their widths: `PageSize` and
`WrapPages` stand for 4096 and 2^20.  A byte of the bitmap that was never
written, or lies past its end, reads as anything.  `first` and `handed` are
history variables.  **PhysMemProps** also has the refinement mapping to
FrameSupply, **PhysMemInv** the inductive invariants.

**Paging** is `vm.c` over the promise of FrameSupply alone: which free frame a
call returns is open, as long as it is above the earlier ones.  One
step is one turn of a loop of `initialize_paging` or one level of a walk of
`map_page` (`Descend`, `AddTable`, `WritePage`).  Tables have `Fanout` entries.
A machine is a memory map, the place of bitmap, image and stack: `IsMachine`
says what Limine guarantees of them.  **PagingProps** defines the processor's
translation of a virtual page by the tables, and the mapping to
**AddressSpace**, where an address space is a function from pages to
translations: a step changes one of them, and the switch needs what image,
stack and framebuffer want.

**MemOps** is the four memory functions on a memory of any size, one byte a
step, from any call with blocks inside memory (`memcpy`: disjoint ones).

**Logf** is one call of `logf`.  Characters are classes ("%", the specifiers,
others), since only their class decides; digits are computed one by one, in
integers of `IntMod` and `LongMod` values (2^32 and 2^64).  Arguments are chosen where `va_arg`
takes them.

**Serial** is the driver and, as an environment, a 16550: divisor latch behind
DLAB, FIFOs, a shift register that empties at its own pace, loopback.  `Init`
is whatever firmware may have left.  `wire` and `sent` record what left on the
line and what the driver wrote.  An exception may break off a message at any point after
`lidt` and log its own; the first one is never taken up again.

**Exceptions** is the IDT being filled entry by entry, and a stack of words
tagged with their meaning and the exception they belong to.  The stub pushes its
words in one step (an exception within is one before its first push), and
`VecNo`, `ErrCode`, `Rip` are the members that the C code reads at the offsets
of `intr_frame`.  It has no next-state relation of its own: **Kmain** extends it.

**Kmain** is the boot.  `stage` is the statement of `kmain` that runs; `Needs`
are the responses and areas of memory that it touches, and `There` those that
can be reached: all but the `missing` responses at first, what the new address
space maps after the switch.  A stage whose needs are met goes on (`Step`,
`SetUpExceptions`, `MapArea`, `LoadCr3`, `End`), another takes a page fault
(`PageFault`).  `Raise` is the processor with an exception from outside, which
may come at every step, also in a handler.  Delivering one needs image, stack
and the boot loader's GDT to be there.  The new address space is AddressSpace
with areas for pages: `MapArea` and `LoadCr3` are its `Map` and `Activate`, the
promise that Paging is checked to keep.  Whether the loader's GDT comes along
with the pages of the stack is open.

**Timer** is the two delays and `pit_timer_init` over a chip that divides its
clock.  `Clock` is one cycle of that clock and, as an assumption, the handler
that would increment `ticks`.  `asked`, `fits` and `elapsed` are history: what
the delay should have been, whether 32 bits held it, and the cycles it took.

**Console** is `font.c` on a framebuffer whose pixels remember which pixel of
which glyph was drawn; `page` is the same text on paper.  A `char` is extended
with its sign, and the index of its glyph has 16 bits.

## Runs

Bounds are small, but each is chosen so that the cases that matter happen.

| Run | Shows | Bounds, and why they are enough |
|---|---|---|
| `physmem_small` | no frame twice or under the bitmap; none lost but those an entry with room for the bitmap sets aside; bitmap equals history, which assertions cannot fail; every call ends; FrameSupply is implemented; the proofs' invariant | all maps of one block up to 8 pages, two blocks up to 6 with gaps, some of three and four (one over `MaxRegions` = 3). Pages of 4 bytes give bitmaps of up to two pages, of an odd number of frames, in either region, next to entries too short for them; frames are taken until refusal or halt |
| `paging_small` | tree of tables, permissions, direct map, write-through, termination, implements AddressSpace | `Fanout` = 3, so 81 pages and four levels that are shared and extended; three machines with one and two framebuffers, images of 1 to 3 pages below and above usable memory; every choice of frames; in one machine the last usable page is the last that pointers reach. All three reach the switch, and some behaviours run out of frames |
| `memops_small` | contracts and loop invariants | six addresses and blocks up to three bytes: apart, touching, overlapping either way by one and two; every content of two values |
| `logf_small` | output, parsing, buffer | every format of up to three characters, some longer; integers of 32 and 256 values (5 and 8 bits) give all digit counts up to 2 and 3 |
| `serial_small` | order on the line, configuration, progress | FIFOs of two bytes under messages of four, up to three of them, also in the middle of each other; every leftover of up to two bytes; chip present or not |
| `kmain_small` | frames, reports, when the machine is reset, nothing missing goes unnoticed, the boot ends | every single response missing, none, or all; two exceptions, at every point, of all 18 vectors of the processor that the Makefile's `-cpu qemu64` has |
| `timer_small` | delays long enough, and ended | a chip of 12 cycles a second with divisors of two digits to the base 3: too wide at 1 Hz, both digits in use at 2 Hz; two calls of `pit_timer_init`, also with 0; numbers of 3 bits for the 32 of the code, which delays exceed and ticks pass |
| `console_small` | screen equals page | 2 x 2 pixel glyphs, 3 x 2 cells, three calls, one character of the texts negative; with and without a gap after lines, and with a rest |

The other runs end in a violation, on purpose: see
[Disagreements found](#disagreements-found).

No run disables the deadlock check: a halted processor is a step that changes
nothing (`Hcf`, `Stopped`, `Quiet`), in the models as in the code.

## Fairness

The kernel is sequential, so the fairness is that of a processor that goes on
executing: weak fairness of the code's own steps, never of calls by the
environment, of exceptions, or of one choice over another.  `Serial` adds weak
fairness of the chip, which keeps sending what it has as long as there is one.
`Raise` has none: exceptions from outside may or may not come.  Neither has
`Clock`, as nothing in the repository counts ticks; `DelayEnds` names that
condition itself: *if* the clock goes on, every delay ends.

## Proofs

Eight modules hold proofs, one for each module of the system that has
properties of its own.  Every invariant and every action property that the
passing runs check is a theorem too, and so are both refinements: the run shows
it on the bounds above, the theorem for every value of the constants.  The
assumptions on constants (`ASSUME` in the modules) are what the code or the
boot protocol guarantees; where a theorem needs more, the hypothesis is in its
statement and is named below.

| Module | Theorems | Needs |
|---|---|---|
| `PhysMemProofs` | `TypeCorrectness`, `NeverTwice`, `BitmapUntouched`, `MirrorTheorem`, `NoFrameLostTheorem`, `BitmapFitsTheorem`, `TinyMachinesTheorem`, `SupplyRefinement` | `Fits32` of every memory map: no usable entry longer than 2^32 bytes or ending above 2^31 pages |
| `PagingProofs` | `TypeCorrectness`, `TreeTheorem`, `SupervisorTheorem`, `DirectMapTheorem`, `FramebufferTheorem`, `MapPageTheorem`, `Refinement` | - |
| `MemOpsProofs` | `MovesRight`, `FillsRight`, `ComparesRight` | - |
| `LogfProofs` | `TypeCorrectness`, `PrintTheorem`, `ReadTheorem` | - |
| `SerialProofs` | `TypeCorrectness`, `LineTheorem`, `WireTheorem` | `WireTheorem`: `NoTestByte`, the firmware left no byte 0xAE to be sent |
| `KmainProofs` | `ReportTheorem`, `ResetTheorem`, `FrameTheorem`, `TypeCorrectness` | the last two: `StubsAgree`, the stubs push an error code for exactly those vectors for which the processor does not |
| `TimerProofs` | `TypeCorrectness`, `DelayTheorem` | - |
| `ConsoleProofs` | `TypeCorrectness`, `PageTheorem`, `NothingElseTheorem` | - |

None of the three hypotheses can be dropped.  Without `Fits32` a frame is handed
out twice (run `physmem_wide_region`).  With 0xAE among the bytes that firmware
may leave, TLC finds `WireIsLog` violated: looped back, that byte passes the
self test, and the driver's own goes out on the line.  Without `StubsAgree` the
frames of vectors 21 and 29 are off by a word on processors that push an error
code for them.

Each proof is by an invariant that is inductive, which the properties are not.
TLC checked all of them on the instances of the runs before they were proved,
and `physmem_small` and `memops_small` still check those of their modules.

**Physical memory.**  That frames ascend is not inductive, since a frame's
address depends on what the walk has subtracted from its number.  `IndInv` adds
that every region is the rest of one usable entry (`Visited`, `Unvisited`), that
regions are sorted and numbered one after the other (`RegionsSorted`,
`FramesNumbered`), that the bitmap lies before what is left of its entry
(`BitmapApart`), that the walk's `copy` is `index` less the number of its
region's first frame (`WalkCounts`), and that whatever has a number from
`index` on lies above all that was handed out (`HandedBelow`).  `FramesBounded`
keeps numbers within the reach of the casts: fewer frames have been counted
than there are pages below the next entry.  `AccountInv` adds what nothing may
get lost of: the nibbles say which numbers are taken (`BitmapKept`), all numbers
below `index` were handed out at their addresses (`NumbersHanded`), and the
visited regions cover the visited entries, but for the bitmap's pages in those
that have room for it (`EntriesCovered`; the others give up none).  That one entry has room for the bitmap is an argument of
averages: the longest of at most `MaxRegions` entries has its share of all
frames, and its bytes are at least half of their number as long as
`MaxRegions` <= 2 * `PageSize`, as in the code; so `BitmapSought` cannot hold of all entries once
`LongestShare` does.  That -1 is never returned but on a machine with one frame
follows from `RegionsCounted`: the visited regions have strictly fewer frames
than were counted, so that the walk runs out of regions first.

**Paging.**  `IndInv` of `PagingProofs` says that the tables of every level are
the targets of exactly one entry each (`Tree`), that absent entries are clear,
that the walk in progress is on the path of its page (`WalkOnPath`), and for
every page that is mapped which request it was mapped for (`PagesAsRequested`);
`StackSoFar`, `ScreenSoFar` and `ImageSoFar` say how much of each area is done.
The tree is what makes a write to one entry change one translation: every other
page takes a path that avoids it.

**Logf.**  `LogfInv` is an equation: what is on the line, followed by the digits
of what is left of the number, followed by the buffer read backward, is what the
format asked for so far.  A turn of the first loop moves a digit from the middle
part to the last, one of the second from the last to the first.  `Digits` is
defined by recursion, and what it computes for all numbers needs induction,
which the provers do not have.  `LogfProofs` derives it, for sets of numbers
(`Induction`, `StrongInduction`), from the library's facts that < on `Nat` is
well founded and that a well-founded relation has minimal elements; then that
the recursive functions behind `Digits` and the library's `FlattenSeq` exist and
are unique, and the equations that the steps need (`DigitsSplit`,
`FlattenAppend`).

**Serial.**  `LineInv` says which registers are programmed at each step and that
before the FIFOs are enabled nothing is known of them.  `WireInv` adds that
during the self test no byte but the driver's can arrive (`SelfTest`), and that
`write_serial` writes only after it saw an empty transmitter (`RoomToWrite`).

**Kmain.**  `KmainInv` relates the statement of `kmain` to the gates, the
callback and the address space there are at that time, and says that the
exception being handled is the last one and still to be reported.  `FrameInv`
adds where in the stack the words of the last exception are.

**Timer.**  `TimerInv` says that the ticks since the call have taken their
cycles, but for the tick that had begun before (`Waited`), and that the two
bytes of the divisor arrive as the divisor (`ChipProgrammed`).

**Console.**  `ConsoleInv` says that `row_idx` and `col_idx` are the position on
paper cut to 16 bits (`CursorOnPaper`), as long as what was printed fits.

Only model-checked: liveness (`AllocReturns`, `PagingEnds`, `LogEnds`,
`ExceptionsHalt`, `DelayEnds`), which is about fairness and hence ENABLED.

## Disagreements found

Four runs end in a violation, each of one property that states what the
repository says:

| Run | Where | What happens |
|---|---|---|
| `physmem_region_walk` | `pmem.c:214` | `max_frames` counts the bitmap's pages too: the last calls fail an assertion where line 186 should have returned -1 |
| `physmem_wide_region` | `pmem.c:220` | beyond 4 GiB in one region, addresses wrap and frames repeat; the Makefile runs the kernel with 8 GiB |
| `paging_on_the_fly` | `vm.c:82` | after the switch, `map_page` cannot reach the tables |
| `console_off_screen` | `font.c:72` | text is drawn behind the framebuffer |

Others can be read off the modules and have no run of their own.  The models
follow the code in all of them, and the properties are stated around them:

- every region with room for the bitmap loses it, not only the one that has it
  (`pmem.c:155`, `PlaceBitmap`);
- with an odd number of frames the last one is looked up past the bitmap
  instead of being left out (`pmem.c:139-140`, `BitmapBytes`, `Flags`);
- freeing an owned frame fails the assertion against double frees
  (`pmem.c:234-235`, `FrameFree`);
- one page past the kernel image is mapped (`vm.c:56`, `KernelLeft`);
- `%ld` prints negative numbers as large ones (`stdlib.c:149-150`,
  `LongDecimal`);
- the test byte is read back without waiting for the chip, so that a working one
  may be rejected (`serial.c:30-31`, `TestChip`);
- a byte 0xAE that firmware left in the shift register passes the self test in
  place of the driver's own, which then goes out on the line (`serial.c:28-31`,
  `NoTestByte`);
- the kernel logs to a port that was rejected, which is left in loopback
  (`kernel.c:31`, `TestChip` and `Log`);
- a page fault right after "Registered exception handlers" is reported as
  unhandled (`interrupts.c:43-44`, `LogRegistered` and `SetHandler`);
- once cr3 is loaded an exception resets the machine unless the boot loader's GDT
  happens to be mapped, although the IDT "is still valid" (`interrupts.c:41-42`;
  `CanDeliver`, and the condition in `NoTripleFault`);
- below 19 Hz the divisor is cut to 16 bits and ticks come too fast, where
  `timer.h:13` says "every `hertz` hertz"; 0 Hz divides by zero (`timer.c:8`,
  `Divisor` and `Programmed`);
- a delay whose end or whose product `ms * hz` exceeds 32 bits ends early
  (`timer.c:18`, `timer.c:23`, `fits`), and one of less than a tick at once;
- a negative `char` is drawn with a glyph from behind the font's data
  (`font.c:54`, `Glyph`);
- on a machine with memory above 1 TiB, page tables there would be looked for
  elsewhere, since a 40-bit bit-field is shifted in 40 bits (`vm.c:82`,
  `Descend`; `IsMachine` has no such machines);
- on processors that push an error code for vectors 21 and 29 those frames are
  off by a word (`istubs.asm:115`, `StubErrors`).

## Not modelled

- Callers of the timer and a handler that counts ticks: there are none.  `Timer`
  calls it in every way.
- `pic_eoi_ack` and the return path of the stubs: they cannot be reached.
- `read_serial`, `serial_received`: no callers.
- Glyph shapes, wording of messages, build files, the protocol header.
- What `kmain` logs of the responses it was given: their contents are data.
- An optimising compiler, which could read `ticks` (not volatile) once: the
  Makefile sets no optimisation for these files.

## Plan

1. Done: physical memory and its proofs, paging over its promise, memory
   functions and their proofs, logging, serial port, exceptions, console.
2. Done: `Kmain`, the boot as a whole over Exceptions and AddressSpace; `Timer`
   with an assumed source of ticks; messages that interrupt each other; the reach
   of page table pointers; the image's mapping; glyphs of negative characters.
3. Done: proofs of every invariant and action property, and of both refinements.
4. What could still be proved: that the areas' order in `Kmain` is the one
   Paging has, by a mapping of Paging's pages to Kmain's areas; so far both are
   compared through AddressSpace alone.  A model of `frame_free` has to wait for
   the function to be written.
