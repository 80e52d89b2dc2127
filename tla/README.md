# A verification of FluxedOS

FluxedOS is a small 32-bit kernel in C++ (with some C and assembly), booted by
GRUB on one processor. These modules state what its parts must do, model what
the code does, and check one against the other: with TLC on small instances,
and with TLAPS for every size where that is within reach. Paths below are those
of the repository; "code" is always the source, not its comments.

## 1. The system

One thread of control runs `kernel_main`: the constructor of `Kernel`
(`src/Kernel/kernel.hpp`) brings up the processor tables, interrupts and memory,
`system_init` and `runtime` start drivers, disks, file systems and windows, and
the destructor of `Kernel` waits and powers off. Beside that thread there are
only interrupt handlers (timer, keyboard, the two ATA channels), which run with
interrupts off, and the devices themselves.

| Component | State it keeps | Operations | What makes it correct |
|---|---|---|---|
| `K_Vector` (`src/lib/vector/k_vector`) | a bank of 1000 slots (live, index, data), `alloc`, `VectorSize` | insert, pop, `operator[]`, copy, assign, `delete_all` | it is a sequence: each live index once, each call the effect of its index |
| Kernel heap (`src/System/memory/kmemory.cpp`) | `MemoryMap`, a `K_Vector` of entries; `save_alloc` | `init_memory`, `kmalloc`, `kfree`, `ConJoin`, `start_debug`, `end_debug` | blocks apart and inside the heap, what is freed is found again, no memory lost |
| Physical memory manager (`memory/pmm`) and bitmap | one bit per page | reserve, free, force a page or a book of pages; `init` | a page has one owner, what is freed can be had again |
| Static heap (`memory/staticalloc`) | start, size, `Alloc` | `skmalloc`, never freed | answers apart and inside; a null answer is not used |
| Virtual memory (`memory/vmm`, `memory/paging`, `boot.S`) | the page directory and its virtual half, the tables | `vmm::init`, table fills, address lookup | the two halves agree; no frame mapped twice; the kernel's frames its own |
| Interrupts and exceptions (`src/CPU`, `System/cpu`) | `irq_routines`, the two interrupt controllers, the fault handler | install, dispatch, end of interrupt, report and halt | every request is served; one handler does not end another's interrupt; an exception is the last thing that happens |
| Timer (`Clock/PIT`) | `timer_ticks` | tick handler, `Sleep` | waits as long as asked, and ends |
| Real-time clock (`Clock/RTC`) | the `RTC_*_HOLD` variables | `Update` | one moment's time, rightly decoded |
| Keyboard, console, command handler | last code, event flag, whether the console lives | interrupt handler, polling, the keys of a line | a key is seen once; nothing is erased that was not typed |
| ATA driver, `vDisk` (`System/Disk`) | sector buffers, drive table | identify, read, write, flush | right sector, errors reported, polling ends |
| Partitions, VFS, ext2 (`System/fs`) | parallel vectors of nodes, disks and file systems; names, entries and inodes they own | mount, unmount, requests, path walk, listing | the right partition is mounted; each block is freed once; the listing is the directory's |
| Display server (`Graphics/DisplayServer`) | vector of windows and their buffers | attach, draw, destroy | no window used after it is gone |
| VGA text and tty | cells, the index of the next, a count of lines | print, scroll, tab, return, erase | index and count agree; the rows are the last lines printed |
| C++ run time (`CompilerFixes`) | table of 256 destructors | `__cxa_atexit`, `__cxa_finalize` | each destructor runs once, newest first |
| `SmartPtr` | a pointer and a counter | copy, destroy | freed once, by the last owner |

How they meet: `KHeap` keeps its map in a `K_Vector`; `vmm::init` takes pages
from the PMM and tables from the static heap, whose place `boot.S` decided, and
gives the kernel heap its memory; every C++ component above them allocates from
the kernel heap. Devices meet the kernel through ports and interrupts.

What is hard in this code: containers that renumber in place, and whose state
depends on the whole history of calls; an allocator that splits and joins
entries inside such a container; three conventions for what a bit of the PMM
stands for; a boot sequence in which each step relies on addresses left by an
earlier one and nothing checks for exhaustion; drivers that poll a counter,
a clock or a drive which moves on by itself; and file system code in which every
block of memory passes through several hands and is freed by convention. There is nothing persistent to
recover after a crash, no second processor, no process and no network.
`PROJECT.json` lists the hazards one by one at the lines where they bite, each
with the properties that would catch it or the reason why none does.

## 2. The modules

```
VecOps  (vector as a value)  <---- VecSeq   (abstract vector)
   ^                                  ^ implemented by
   | used by                       KVector  (slots)
   |
 KHeap  (kernel heap)  -- implements -->  Allocator

 Pmm (page bits) -- its UsedIsPrefix and FirstClear are what Vmm assumes --> Vmm (boot memory)
 Rtc (clock chip and driver)          Pit (timer and Sleep)
 Irq (interrupt controllers, handlers, exceptions, boot thread, keyboard)
 Ata (drives and driver)
 Vfs (partitions, nodes, requests)  EXTENDS  Ext2 (the file system server)
 DisplayServer (windows, buffers, screen)
 Console (keys)  EXTENDS  VgaText (screen)
```

`MC*` modules give constants their instances for TLC; `*_proofs` and `NatLemmas`
hold the proofs.

### KVector, VecOps, VecSeq

`KVector` is the code's slots: `slots` is `content[0].h` (`DoesPoint`,
`PointsTo`, data), `alloc` is `content[0].alloc`, `size` is `VectorSize`. Each
member function is an operator on them and an action: `InsertAt` renumbers the
live slots, then writes the first dead one; `PopAt` kills one slot and renumbers
the rest; `DeleteAll` and `Assign` are loops of those. There is one bank:
`content_size` is 1 after each constructor and nothing changes it. A dead
slot's index is not modelled, because no code reads it before it is
overwritten. Storage addresses and what a re-pointed vector finds in memory
nobody cleared are not in it.

`VecOps` is the same type as a value, a sequence with the most elements it ever
held (a full bank never takes an insert again, even when emptied), and `VecSeq`
a program that uses one vector in any way. `KHeap` uses `VecOps` for its map,
which is sound because `KVector` implements `VecSeq`.

### KHeap, Allocator

One action for each call; callers' blocks are the variable `held`, which no
code keeps: it is what callers believe. `boot` walks `init_memory` (an entry per
page table, then `ConJoin(0)` for each, then the storage of `DebugMap`). `Carve`
is the split in `kmalloc`, in the order of the code (the rest first, then the
insert, which a full `MemoryMap` drops); `Released` is `kfree`, with both calls
of `ConJoin` and the read one entry past the end that stops the kernel.
`DebugMap`'s contents are only printed and left out; its storage is a block.
`Allocator` is what users rely on: blocks handed out are apart, lie in the heap,
and come back.

### Pmm

`PmmInit` reads the map GRUB left into `MemoryArray` as the first loop of `pmm::init`
does: from the second entry on, and on behind the last one, into whatever that
reads as (`machine.behind`). `CountEntry` is an entry of its last loop, which adds
what a region holds to `installed`; a region at address 0 takes a place in
`MemoryArray` but is not counted. `MakeBitmap` is the bitmap over that. `pool.used`
is the bitmap, `pool.held` how many callers hold a page. A book is the loop it is in
the code: `ReserveBook` begins it, and each `ReservePage` takes one page.
Bits and pages are related the way each function computes it: from the last
region of `MemoryArray` (`ReservePage`), from the first less one (`freeBlock`),
from address 0 (`ForcePage`). `history` records whether anything was freed or
forced and whether a page was taken when no bit was clear, because some properties
hold only before that.

### Vmm

The boot sequence at the code's real sizes (4 KB pages, 1024 entries, 80 KB of
`TepKmalloc`, 4 MB tables): one action per step of `vmm::init` and of the
constructor of `Kernel`, for a machine chosen at the start. Addresses are
computed as the code computes them, including the scan of `boot_page_table1`
that finds the static heap, entry 1020 (which `boot.S` gives the frame of entry
1019), and the entry that is compared with its flag bits still in it. Answers of
`ReservePage` are numbered instead of kept in a bitmap: by `Pmm`'s
`UsedIsPrefix` the n-th is the n-th page of the region while pages are only
reserved, and by `FirstClear` it is the first page once all are in use. `stage =
"fault"` stands for the first use of a null answer of `skmalloc`.

### Rtc

`RTC::Update` one register read at a time against a chip with an update cycle
(flag clear, flag up, registers in motion). A register read in motion is its old
value, its new one or neither. `hold` and `last` are the code's variables, `shown` the times
that the chip has shown since the call began. `Spacing`, a bound, says how many
reads there are at least between two updates.

### Pit

`Sleep` one read of `timer_ticks` at a time (the kernel is built without
optimisation, so each mention is a read) against the interrupt. `StepsBetween` says
how many steps `Sleep` makes at least between two interrupts.

### Irq

`irq_handler` as a stack of handlers, each with what it does next, one port
access at a time; the boot thread from `EnableINT` on (the 32 calls of
`SendEOI`, `PIT::init`, `Keyboard::installIRQ`, `PIO::init_driver`); and
`GetKeyCode` in its two halves. Every handler sends its own end of interrupt
before `irq_handler` sends the second. The interrupt controllers (cascade,
priorities, edges) and the keyboard controller's buffer are outside the
repository and modelled as the code uses them. The keyboard is one byte deep
(`KeycodeArr[0]`), so keys may be lost between two reads; what is claimed is
their order. `early` records that a key came before its driver: its byte then
stays in the controller, which makes no further request, since `installIRQ` does
not read it.

An exception may come while the boot thread is in `vmm::init`, which comes before
`PIT::init`, or in `system_init` (`MayFault`: there are the code's asserts,
divisions and page accesses), in the thread itself or in a handler: the stub makes
up for the error code that the processor does not push, and `Err_hanlder`
reports, looks into its table and halts. `Faults` is the set of exceptions of the
instance, one with an error code and one whose number lies behind the table of 16.

### Ata

The two buses with two places each, empty, a hard disk or a CD drive; the
registers as the driver writes them (place, sector count, address, command), and
a drive that lags, is busy, has data, stores or refuses. `ide_check_device`,
`ide_setup_device`, `ata_read_one`, `ata_write_one` and the disk table of
`vDisk.cpp` are followed one port access at a time where a drive can change in
between. Three details are as in the source: `ide_select_drive(io, drive)` in
the reads and writes is passed a port where it compares with a bus number and so
does nothing; the delay of `ide_400ns_delay` reads a port that is not the
alternate status (offset 0x0C), which is a delay all the same; and trimming
the model name writes one byte past its 40, which is the byte the heap gives up
between entries, so no block is hurt.

### Ext2, Vfs

`Ext2` is the file system server: superblock, block groups, inodes, the walk of a
path and the listing of a directory. `Vfs` is what `system_init` does with it: the
disks, their partitions, the first that `getat` answers with, mounting at `/`
(the only place anything is mounted), requests, responses and their release.
The heap is the set `live` of allocated blocks, the lowest free ones handed out
first, so that a block freed too early is soon another's; it does not run out (a
`kmalloc` that fails stops the kernel before it answers, see `KHeap`). What is
allocated and freed within one call is left out, as the lowest free blocks are the
same after it. `Tree` is a directory tree as mkfs leaves it: each name once in its
directory, and a ".." in the root that leads back to it (`TreeAssumption`). A path is
its names and whether a '/' stands before the first and after the last
(`PathString`), which is what the ASSERTs at the entry look at. Names and inode numbers are small sets; what a block parses to when it is not
what the code takes it for is not followed: `stage` is then "garbage", or "panic"
where the kernel stops, and `StopsKnown` names the cases.

### DisplayServer

`lux` and its windows as objects on the stack of `system_init`: they begin and
end in the nesting order that C++ gives them, with their buffers on the heap. A
window is painted (its whole body, one colour), attached, drawn with its title
bar, redrawn alone or by all, and ends with a repair of the screen from the
back buffer. The client makes each window ready (place, size, buffer) before it
goes on, as `system_init` does; attaching one twice, which the server does not
refuse, is allowed and accounted for.

### VgaText, Console

`VgaText` is the text screen: `print_char` with each control character,
scrolling, the cursor of the hardware, and `clear_screen`, which clears one row less
than there are. `text` is a history variable: the lines as a terminal would
hold them. `Console` prints on it: what the boot prints, the prompt, keys. Its
one use in the repository is a block of comments in `runtime.cpp`, whose loop is
the one modelled. The `String` it collects a command in has empty operators, so
its size is always 0, backspace never erases, and `GetRawCommand` would never
answer, because `ReturnUser` resets the flag in the call that sets it. The
prefix byte 0xE0 of an arrow key prints a carriage return, and "]" looks behind
the end of a string of ten letters, where another begins.

## 3. The runs

Passing runs:

| Run | Instance | States | Shows |
|---|---|---|---|
| `kvector` | 4 slots, 2 values | 2386 | `IndicesExact`: live slots hold 0..size-1 once each. `ImplementsVecSeq`: each call is its operation on a sequence, and nothing else happens |
| `kheap` | 12 bytes in 3 pages, 7 map slots | 54339 | `Ordered`, `HeldSafe`, `UsedIsHeld` always; `Tiled` (no byte and no block is missing from the map) until the map has been full; `NoNewFragments`; `OverrunOnlyAtEnd`; `ImplementsAllocator` |
| `pmm` | 5 maps, up to 6 pages | 150612 | before anything is freed or forced, `HandedOutOnce` and `UsedIsPrefix`; `PagesAreMemory` |
| `vmm` | 32 MB to 2.7 GB, 3 kernel images | 1575 | `StructuresApart` in physical memory, `WalkAgrees`, `MemoryIsItsOwn` with enough memory, `BootHeapLasts` whenever the 21 pages of `TepKmalloc` hold the six structures, which is up to 1.8 GB with GRUB's usual map of 7 entries |
| `rtc` | 6 moments, 4 formats | 225696 | `ReadsTheTime`: what `Update` leaves is one moment the chip has shown since the call, noon and midnight of the 12-hour format excepted. `Finishes` |
| `pit` | a second of 5 ticks, word 12, double 72, 9 seconds for 600 | 307677 | `WakesOnTime`, `WaitsWithinBounds`, `AlwaysReturns` |
| `irq` | 2 ticks, 2 keys, 1 request of each drive, 2 exceptions | 262539 | `EndsItsOwn`, `NothingLeftInService`, `Served`, `NoByteForgotten`, `KeysInOrder`, `FaultIsFinal` |
| `ata` | 4 places, 5 machines, 2 words a sector, 2 writes | 95249 | `DisksAreTheDrives`, `ReadIsTheSector`, `WriteIsTheSector`, `AlwaysAnswers` |
| `vfs` | 7 machines, 7 inodes, 11 paths, 3 calls | 106180 | `OwnedOnce`, `ListsTheDirectory`, `NothingLost`, `StopsKnown` |
| `ds` | 3 windows, 2 by 3 pixels, 3 entries | 341067 | `DrawsLiveWindows`, `EndRepairsScreen` |
| `console` | 3 by 3 cells, tab 2, 7 characters before the console, 8 keys | 620819 | `StaysOnScreen`, `ShowsTheText` |

One run must find a violation of something the repository says of itself:
`vfs_mount`. The comment in `system_init` says that it looks through all the
partitions for an ext2 one; `getat` answers with the first slot whatever the
index, so a machine whose ext2 partition is not the first mounts nothing.

Some results say more than their names:

* `StructuresApart` holds although two pages of the static heap are one frame,
  because a table is asked for with 8 KB and takes 4. The machines of `MCVmm`
  include those whose bitmap is 61342 to 61344 bytes, where a table falls in that
  frame and where there is no room for it.
* `PagesAreMemory` is about machines with one free region above the BIOS and
  zeros behind the map. With two free regions `InstalledMemory` is their sum and
  the pages run over the end of the last one, and the map in `MCPmm` with something
  behind it adds a region that is none.
* `WaitsWithinBounds` is weaker than one might expect because it has to be: an
  interrupt between the two tests in `Sleep`'s loop makes it count one second
  twice, so "600 seconds" can pass in 300. After 65536 ticks (65 seconds) the
  16-bit target is out of reach and that count is all that ends a call; the
  eleven calls in the destructor of `Kernel` then take minutes each.
* `WriteIsTheSector` holds only for writes whose drive had asked for data by the
  end of the delay: `ata_write_one` does not poll (the call is commented out).
* `NothingLost` names the two ways in which memory is lost: a walk that does not
  find a component, and `get_file_info`. `StopsKnown` lists what stops
  the kernel in a request (no disk, no node, a path whose form the ASSERTs refuse,
  `get_file_info` of more than one component) and each walk that parses something
  that is no directory. The comment above `ListEntires` (`vfs.cpp:106`) gives
  "/file1/file2/file3" as the form of a path; the ASSERT at line 111 asks for a '/' at
  the end and stops the kernel on that form, which is one of the paths.
* `DrawsLiveWindows` excepts windows attached twice: the loop of `destroy_window`
  that pops from the vector it walks leaves the second entry behind.
* `ShowsTheText` holds as long as no line is wider than the screen. The next
  newline takes its place from the count of lines, which a line that ran over
  does not advance, so what ran over is overwritten. A line of exactly 80, as in
  the boot logo, is safe, which the run covers.

### Bounds, and why they are enough

* Vector: an operation looks at one slot, its neighbours in index order, and
  whether there is a dead or an unused slot. Four slots give every arrangement of
  three elements in and out of order, full and not. For the invariants the
  bound does not matter: they are proved.
* Heap: twelve bytes allow a request that fills an entry, one that leaves a rest,
  one that leaves only the byte given up, and blocks that span the pages of
  `init_memory`; seven slots allow both a map that fills up and one that does
  not. The properties that are not conditional on the map are proved for all
  sizes.
* Pages: books of up to three pages among six, each held up to twice, so that
  gaps, wrapping to the first page, and double ownership all occur; maps with one,
  two and no free regions, a null entry in the middle, and things behind.
* Boot memory: real sizes; only the set of machines is a choice, around the
  sizes where the number of page tables, the room in `TepKmalloc` or the supply of
  pages changes.
* Clock: `Spacing = 18` reads, three passes, where a second has some 100000;
  `RtcAssumption` asks for 11, with which two
  passes cannot hold two updates, and `ReadsTheTime` fails with 0. Each moment
  is followed by the carry it is there for.
* Timer: the order second < word < 600 seconds < double of the code is kept, and
  a second does not divide the counter's range. `StepsBetween = 4` is the longest turn
  of the loop; with 3 a target can be missed. A turn takes well under a
  microsecond and a tick a millisecond. Both safety properties are proved for all
  sizes in that order (`PitAssumption`).
* Interrupts: two requests of a line are one in service and one behind it; two
  keys fill the controller's buffer with one waiting; both drives' lines share
  the cascade. Each may come between any two steps.
* Drives: a disk alone, two on a bus, a slave with a CD drive before or after it,
  and a bus that floats; an address that wraps at the width of the registers; two
  words, because a FLUSH follows each word of a write; two writes, so that a late
  one can meet the first.
* Files: a directory in a directory, one in a group whose descriptor is not
  read, a file, an empty directory, a name that begins with another name; paths
  through each of them and past them, and one each that lacks the first '/', the
  last or everything; one call more than it takes for a call
  to find what an earlier one left.
* Windows: two that overlap and a third above or below; three entries hold one
  twice beside another. Windows are interchangeable (symmetry); pixels are as
  many as tell a title bar from a body and an overlap from none.
* Console: rows that scroll after three lines, lines that the prompt and one
  character fill; one letter stands for all, and every branch of `AsciiOf` has a
  key. Seven characters before the console begins reach each row and column.

### Fairness

`KVector`, `KHeap`, `Pmm`, `Vmm`, `Vfs`, `DisplayServer` and `Console` are used by a
single thread and state safety only: no fairness is assumed. `Rtc` assumes that
the driver's next step is taken and that an update that has begun ends, `Pit` that
the timer goes on and that the processor runs between its interrupts, `Irq` that
the processor goes on: with a handler, to a request that it accepts, and with
the boot thread. `Ata` assumes that the driver's next step is taken and that a
drive goes on with what it began. A bus without drives that reads 0xFF never drops
its busy bit: the search for disks then waits for ever, and `AlwaysAnswers` leaves out
machines that have one. Requests are bounded, so
that a line with a high priority does not hold back the others for ever; on the
machine that is the timer's period against the length of its handler. No device
has to make a request. Nothing forces an update of the clock to begin, or a
caller to call.

## 4. What is proved

All theorems hold for every value of the constants allowed by the assumptions
named in the modules, which TLC evaluates in the runs. Most state what the constants
are: sizes that are positive numbers (`KVectorAssumption`, `CapacityAssumption`,
`PmmAssumption`, `SizesAssumption`, `LayoutAssumption`, `BoundsAssumption`,
`ScreenAssumption`, `VgaAssumption`, `ConsoleAssumption`), machines of the given shape
(`MachinesAssumption`, `ComputersAssumption`), sets of exceptions, or paths of any
form made of known names (`IrqAssumption`, `PathsAssumption`), the order in memory in which `boot.S` lays the
kernel out (`KHeapAssumption`, `MachinesAssumption` of `Vmm`). Three say more:
`RtcAssumption`, how far apart two updates of the clock are at least;
`PitAssumption`, the order of the timer's sizes and how far apart two ticks are; and
`TreeAssumption`, what mkfs puts into a directory.

* `KVector_proofs`: `VectorTypeOK` and `VectorIndicesExact`. `TypeOK /\
  IndicesExact` is inductive as it stands: that no two live slots share an index
  needs all of it, since an insert renumbers by comparing indices and a pop's
  count of elements is only right if the index it kills was held once. One lemma
  per operation; `InOrderInv` serves the assignments and copies, which leave
  element i in slot i. `VectorImplementsVecSeq`: since each index below `size` has
  one live slot, the sequence the slots stand for is determined by any choice of a
  slot for each index (`VecDetermined`); each operation's lemma says which slots
  hold the indices after it. That the abstract peak is `alloc` is a matter of
  counting (`LiveCount`): there are `size` live slots, so an insert finds a dead
  one unless `size` is `alloc`.
* `Memory_proofs`, the heap: `HeapTypeOK`, `HeapOrdered`, `HeapHeldSafe`, `HeapUsedIsHeld`
  and `HeapImplementsAllocator`. That no two blocks overlap is not inductive.
  `Good` adds that entries are in order inside the heap, that no free entry
  overlaps a block, that no block covers the byte between two neighbouring
  entries (a join may absorb it), and that a used entry is a block that is held.
  Note what is absent: that every block has an entry, which is false once the map
  has dropped an insert; safety does not need it, because the rest of a split
  entry is written before the insert that may be dropped. The first lemmas say what
  `Write`, `Insert` and `PopAt` do to a vector; `CarveGood`, `ConJoinGood`,
  `MarkFreeGood` and `ReleasedGood` that each operation keeps `Good`; `Booting`
  covers `init_memory`, whose joins keep the heap's free pages in one piece. The
  refinement maps a call to one step of `Allocator` or none, and every stop of the
  kernel to `stopped`.
* In the same module, on top of that: `HeapTiled`, `HeapOverrunOnlyAtEnd` and
  `HeapNoNewFragments`. `Tiling` is inductive relative to the invariant above; no
  operation lowers the vector's peak, so each may be taken to have had room.
  `FailsAtLast`: joining the freed entry with the next leaves the
  one before it a neighbour, so only the last entry's free overruns.
  `CarveFragments`, `ConJoinFragments` and `ReleasedFragments` map the pairs of
  joinable neighbours after an operation one to one into those before it: freeing
  an entry can make two new ones, at that entry and before it, and `kfree` joins
  exactly these. The last two hold for a map that is full, too.
* `Irq_proofs`: `NothingLeftInServiceTheorem`, `EndsItsOwnTheorem`,
  `FaultIsFinalTheorem`, `NoByteForgottenTheorem` and `KeysInOrderTheorem`, for any
  number of interrupt requests and keys and any set of exceptions. The invariant
  `IInv` says that until an exception at most one handler runs, and what the
  controllers have in service at each of its points (`OneHandler`): this is what
  makes the second end of interrupt of `irqN` and the boot thread's 32 of them end
  nothing of another's. After an exception its frame is on top with interrupts off
  (`FaultOnTop`), so the handler below is never resumed. `NoByteForgotten` is
  inductive relative to `IInv`; `KeysInOrder` needs `Order`, which orders the bytes
  that wait in the controller among themselves and above those already read.
* `Clock_proofs`, the clock: `RtcReadsTheTime`, for any moments of 2021 to 2120 and any
  number of updates. In the 12-hour format it excepts the hours that begin at noon and
  at midnight, of which the code makes 0 and 12 (`Reported`).
  `PassInv` follows a pass over the registers: one that no update disturbs is
  clean, its registers are what the chip shows at its end; one that is disturbed
  ends with the update going on or ended fewer reads ago than the pass has. The
  next update is then at least `Spacing` reads away, which is more than the rest of
  this pass and the whole next one need, so of two passes in a row one is clean;
  `Update` returns only when two are equal, and then both are.
* `Memory_proofs`, the pages: `NoPageTwice` (`HandedOutOnce`), `BooksAreConsecutive`
  (`UsedIsPrefix`) and `GivesOutMemory` (`PagesAreMemory`), for any map and any
  number of callers. Neither of the first two is inductive alone: a page is handed
  out once because the first clear bit is behind all pages held, which is that used
  bits are a prefix, and they are one because the next page of a book is the first
  clear bit. `Prefix` says both. `Counted` says what the last loop of `pmm::init` has
  added up so far, `OnePieceArray` that a map of one piece becomes GRUB's without its
  first entry, and `AboveLast` that a page answered lies above the start of the
  region the code computes it from; the sum counted is that region's length.
* `Vmm_proofs`: `VmmWalkAgrees`, `VmmMemoryIsItsOwn`, `VmmStructuresApart` and
  `VmmBootHeapLasts`, for any machine at the code's real sizes. `BootInv`: the n-th
  structure lies in its part of the 21 pages of `TepKmalloc` (from `Slot(n)` to
  `Slot(n+1)`), which fixes when it runs out. `HeapInv`: each later table takes 8193
  bytes of the static heap, which starts in the memory that the first table maps.
  `MemInv`: the pages that fill the tables are consecutive and each is given once.
  `DirInv`: an entry of the directory is the frame of a table that has been settled.
  `VmmStructuresApart` is stated for machines with at most 6000 entries in GRUB's map
  (`FewMaps`) and at least 8 MB (`Roomy`): with more entries `MemoryArray` itself would
  reach the page whose frame is mapped twice, and with less memory the static heap
  would lie beyond the end of it. GRUB's maps have around ten entries.
* `Storage_proofs`, the driver: `DisksListed`, `ReadsTheSector` and `WritesTheSector`, for any set of
  machines and sizes. `Shape` says which drive may be in the middle of what at each
  point of the driver, so that no other drive answers in its place. `SearchInv`: the
  disks listed so far are the hard disks of the places looked at. `ReadInv`: what has
  been read is the part of the sector that the drive has handed over. `WriteInv`: a
  drive that had asked for data by the end of the delay has taken each word that was
  sent, or refused the command; `ZeroInv`: before the first write no drive has
  anything left to do between two calls.
* `Clock_proofs`, the timer: `PitWakesOnTime` and `PitWaitsWithinBounds`, for every
  size in the order of the code's and any calls. `PitInv` is about the moment `u` at
  which `old` was read: the seconds counted so far are not too few for it, as the
  next whole second is not far (`Enough`), and at most two for each that has passed
  and for each time the counter wrapped (`AtMostTwice`), which is how the wait can be
  half as long as asked. `Looking`: no second has passed unseen since `u`, and one that
  begins will be seen before the tick ends; `Found` is the same between the read that
  saw it and the one that is kept. `OnTime`: a target within the 16 bits is compared
  with the counter before its tick ends. These need the four steps of a turn to fit
  between two ticks, and nothing else about the interleaving.
* `Display_proofs`, the windows: `ServerDrawsLiveWindows`, `ScreenRepaired` and
  `ScreenShowsWindows`, for any windows, screen and order of calls. `DsInv`: the server is the oldest object, and
  until a window is attached twice the server's list holds live windows, each once.
  The proof turns on `destroy_window`, a loop that pops from the vector it walks: on a
  list without repetitions it removes exactly its window. `ScreenRepaired` is about the
  step that ends a window while another fills the screen: each pixel is then that of
  the last other window above it. `ScreenShowsWindows` is about every state, windows
  attached twice included: a pixel is blank, of the banner, or shows a window that
  covers its place and has had its buffers, as it was painted at some time. It rests on
  two things: a window keeps its place once it has buffers (`Aged`), and whatever is in
  the vector lives or has ended (`LiveOrEnded`), so that no window without buffers is drawn
  where `system_init` has made each ready.
* `Display_proofs`, the text: `DisplayStaysOnScreen` and `DisplayShowsTheText`, for any
  screen, tab width and keys. `ScreenInv` bounds index and row through each of the
  writes that one character causes (a return at the start of a line, a tab into the
  next). `TextInv`: as long as no line ran over, the index is that of the cursor in the
  last line, the cells are the lines, and what an incomplete `clear_screen` left is in
  one row at most; scrolling keeps that.
* `Storage_proofs`, the file system: `BlocksOwnedOnce` (`OwnedOnce`), `NothingIsLost`
  (`NothingLost`), `ListingIsTheDirectory` (`ListsTheDirectory`) and `StopsAreKnown`
  (`StopsKnown`), for any disk, tree, path of any form and number of calls. `VfsInv` divides the
  pointers into groups, one for each variable that holds some and one for each node;
  a step empties groups, hands one on, or fills them with blocks that were free, and
  frees only what belonged to a group that it empties (`Regrouped`, `OnlyDropped`,
  `Moved`), so no group keeps a block that is freed or another's. `LossInv` is the
  other direction: what leaves a group is freed, except in the two cases that
  `NothingLost` names. `Walking`: the entries in hand are those of the inode that the
  path so far leads to, which rests on `InodeReadIs` (group, block and slot are the
  inode's again for any layout) and on names being there once; a name that is not
  found leads nowhere, and so does the rest of the path (`NowhereStays`). `Stopped`:
  what the kernel stopped in is a step that its own guard keeps from going on.
* `NatLemmas` (a bounded set of numbers has a least and a greatest element) holds the
  lemmas that several of them rest on. The library's induction theorems take an
  operator, which the installed provers cannot instantiate; where a proof needs
  induction (the value of a fold, the n-th free block, the inode at the end of a path),
  it takes the least counterexample instead (`Induction`, `FoldExists`).

Model-checked only: liveness (`Finishes`, `AlwaysReturns`, `Served`,
`AlwaysAnswers`), which needs fairness and `ENABLED`, and these the installed provers
do not handle. Every other property of a passing run is proved.

## 5. What is not modelled

* Code without callers: `SetPages`, `MapTableRegion`, `SmartPtr`, `read_dir`,
  `print_block`, `clear_line`, `BufferSet`, the commands of `CommandHandler`.
* The table of destructors of `icxxabi.cpp`: nothing registers one, since the
  constructors of globals are not called (a comment in `vDisk.cpp` says so too),
  and nothing finalizes.
* What a `K_Vector` finds in storage that nobody cleared, and its storage being
  smaller than its slots: both need byte addresses.
* `TimerPhase` and `timer_seconds` (called once before the handler is installed;
  read nowhere), the century register (always 0).
* Several mounts: the VFS would choose among nodes, but `system_init` mounts one
  at `/`. Operations of the VFS whose bodies are empty.
* The layout of ext2 structures on the disk, DMA, and disks behind a driver that
  is not `ATA_PIO`.
* Formatting and serial output, shapes, fonts and colours, PCI listing, FPU,
  power, and the pure helpers of `math.cpp` and `Operations.c`: no state another
  component reads.

## 6. Plan

What is left:

* The initial slots of a `K_Vector` as a choice, as a vector in storage that nobody
  cleared finds them.
