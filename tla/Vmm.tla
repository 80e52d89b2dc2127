-------------------------------- MODULE Vmm ---------------------------------
(***************************************************************************)
(* How the kernel brings up its memory: the page table that boot.S leaves  *)
(* behind, the static heap, the physical memory manager, the page          *)
(* directory and the page tables, in the order vmm::init and the           *)
(* constructor of Kernel set them up, until the kernel heap has its 40 MB. *)
(*                                                                         *)
(* Sizes and places are the code's own.  A frame is a physical address     *)
(* divided by PAGE_SIZE; a place is a virtual address less                 *)
(* LOAD_MEMORY_ADDRESS, so that it fits an integer of TLC.                 *)
(*                                                                         *)
(* The n-th answer of ReservePage is the n-th page of the available region *)
(* and, once all have been given out, its first: Pmm's UsedIsPrefix and    *)
(* FirstClear.                                                             *)
(***************************************************************************)
EXTENDS Integers, FiniteSets

CONSTANTS
  Machines    \* the machines and kernel images the kernel may boot with

(* base and ram: first frame and frames of the available region; kernel:   *)
(* frames up to _kernel_end; tep: frame of TepKmalloc; mbi: frame of the   *)
(* multiboot information; maps: entries of the memory map.                 *)
ASSUME MachinesAssumption ==
  Machines \subseteq
    {m \in [base: Nat, ram: Nat, kernel: 0..999, tep: Nat, mbi: Nat, maps: Nat] :
       /\ m.base <= m.tep - 2
       /\ m.tep + 20 <= m.kernel
       /\ m.kernel <= m.base + m.ram}

PageSize == 4096
KB == 1024
MB == 1024 * KB
TableBytes == 4 * MB
LoadIndex == 768                        \* PAGEDIR_INDEX(LOAD_MEMORY_ADDRESS)
StaticIndex == 769
HeapIndexes == 770..779
FrameBufferIndex == 1012                \* for a frame buffer at 0xFD000000

VARIABLES
  mach,       \* the machine
  stage,      \* what is to be set up next; "fault" once a null answer of
              \* skmalloc has been written through
  sk,         \* the static heap: its place, its size, Alloc
  given,      \* how many answers ReservePage has given
  place,      \* the place of each structure built so far
  dir,        \* SystemDirectory.table: the frames the MMU walks
  vtab,       \* SystemDirectory.vtable: the places the kernel writes to
  from        \* for each table filled by pmm_table_fill, given before that

vars == <<mach, stage, sk, given, place, dir, vtab, from>>

PageAlignDown(a) == (a \div PageSize) * PageSize

PageAlign(a) == (a \div PageSize + 1) * PageSize

Extend(f, x, v) == [y \in DOMAIN f \cup {x} |-> IF y = x THEN v ELSE f[y]]

Smallest(S) == CHOOSE x \in S : \A y \in S : x <= y
Largest(S)  == CHOOSE x \in S : \A y \in S : y <= x

-----------------------------------------------------------------------------
(***************************************************************************)
(* boot_page_table1 as boot.S fills it.  Entry 1020 is written with 78 KB, *)
(* half a page more than entry 1019, and so has the same frame.            *)
(***************************************************************************)
TepBytes(i) == IF i = 1020 THEN 78 * KB
               ELSE IF i = 1021 THEN 80 * KB ELSE (i - 1000) * 4 * KB

BootEntry(i) ==
  IF i < mach.kernel        THEN i * PageSize + 3
  ELSE IF i \in 1000..1021 THEN mach.tep * PageSize + TepBytes(i) + 3
  ELSE IF i = 1023          THEN mach.mbi * PageSize + 3
  ELSE 0

(* vmm::init's scan: the kernel is the entries before the first gap, the   *)
(* static heap the run of entries after it, but for the last.              *)
Gap        == Smallest({i \in 0..1023 : BootEntry(i) = 0})
SkFirst    == Smallest({i \in Gap..1023 : BootEntry(i) # 0})
SkLast     == Smallest({i \in SkFirst..1023 : BootEntry(i) = 0}) - 1
LastEntry  == BootEntry(SkLast)
KernelEnd  == Largest({BootEntry(i) : i \in 0..SkLast})

(* skmalloc: the place it answers, and the heap after it.                  *)
SkHasRoom(s, size) == s.alloc + size <= s.size
SkPlace(s)         == s.start + s.alloc
SkTake(s, size)    == [s EXCEPT !.alloc = @ + size + 1]

-----------------------------------------------------------------------------
(***************************************************************************)
(* Physical memory.                                                        *)
(***************************************************************************)
BytePerFrame == mach.ram
BitmapBytes == mach.ram \div 8
MapBytes    == 12 * mach.maps
Answer(n)   == mach.base + (IF n < BitmapBytes * 8 THEN n ELSE 0)

(* The frame of the page at place a: entry PAGETBL_INDEX of the table of   *)
(* its directory index.                                                    *)
VirtToPhy(a) ==
  LET i == LoadIndex + a \div TableBytes
      e == (a % TableBytes) \div PageSize
  IN  IF i = LoadIndex THEN BootEntry(e) \div PageSize
      ELSE Answer(from[i] + e)

(* Iterations of the loop that reserves the kernel's pages, its counter    *)
(* beginning at the first page ReservePage answers.                        *)
KernelLoops(last) ==
  Cardinality({n \in mach.base..1023 : n * PageSize < last})

-----------------------------------------------------------------------------
Init == /\ mach \in Machines
        /\ stage = "scan"
        /\ sk = [start |-> 0, size |-> 0, alloc |-> 0]
        /\ given = 0
        /\ place = << >> /\ dir = << >> /\ vtab = << >> /\ from = << >>

Become(s) == stage' = s

(* A null answer of skmalloc is used all the same; what it is used for     *)
(* writes to a page near address 0, which boot.S has unmapped.             *)
Fault == Become("fault") /\ UNCHANGED <<mach, sk, given, place, dir, vtab, from>>

FindStaticHeap ==
  /\ stage = "scan" /\ Become("pmm")
  /\ sk' = [start |-> SkFirst * PageSize, size |-> (SkLast - SkFirst) * PageSize,
            alloc |-> 0]
  /\ UNCHANGED <<mach, given, place, dir, vtab, from>>

(* pmm::init: MemoryArray, PagesAlloc and its bits.                        *)
PmmInit ==
  /\ stage = "pmm"
  /\ LET one   == SkTake(sk, MapBytes)
         two   == SkTake(one, 8)
         three == SkTake(two, BitmapBytes)
     IN  \/ /\ SkHasRoom(sk, MapBytes) /\ SkHasRoom(one, 8)
            /\ SkHasRoom(two, BitmapBytes)
            /\ Become("reserve")
            /\ sk' = three
            /\ place' = [MemoryArray |-> SkPlace(sk), PagesAlloc |-> SkPlace(one),
                         addr |-> SkPlace(two)]
            /\ UNCHANGED <<mach, given, dir, vtab, from>>
         \/ /\ ~ (/\ SkHasRoom(sk, MapBytes) /\ SkHasRoom(one, 8)
                  /\ SkHasRoom(two, BitmapBytes))
            /\ Fault

ReserveKernel ==
  /\ stage = "reserve" /\ Become("page")
  /\ given' = given + 1 + KernelLoops(KernelEnd)
  /\ UNCHANGED <<mach, sk, place, dir, vtab, from>>

(* Page::init: a new directory with the boot page table in it.             *)
PageInit ==
  /\ stage = "page"
  /\ \/ /\ SkHasRoom(sk, 8 * KB)
        /\ Become("vtable")
        /\ sk' = SkTake(sk, 8 * KB)
        /\ place' = Extend(place, "table", PageAlign(SkPlace(sk)))
        /\ dir' = Extend(dir, LoadIndex, mach.tep - 1)
        /\ UNCHANGED <<mach, given, vtab, from>>
     \/ ~ SkHasRoom(sk, 8 * KB) /\ Fault

(* The directory's virtual half; boot_page_table1 lies below TepKmalloc.   *)
VtableInit ==
  /\ stage = "vtable"
  /\ \/ /\ SkHasRoom(sk, 8 * KB)
        /\ Become("static")
        /\ sk' = SkTake(sk, 8 * KB)
        /\ place' = Extend(place, "vtable", PageAlign(SkPlace(sk)))
        /\ vtab' = Extend(vtab, LoadIndex, (mach.tep - 1) * PageSize)
        /\ UNCHANGED <<mach, given, dir, from>>
     \/ ~ SkHasRoom(sk, 8 * KB) /\ Fault

-----------------------------------------------------------------------------
(* new_page_table with its SendTableToDirectory.                           *)
NewTableUnaligned(i) == /\ SkHasRoom(sk, 8 * KB)
                        /\ vtab' = Extend(vtab, i, PageAlign(SkPlace(sk)))
                        /\ dir' = Extend(dir, i, VirtToPhy(SkPlace(sk)))

NewTable(i) == /\ SkHasRoom(sk, 8 * KB)
               /\ vtab' = Extend(vtab, i, PageAlign(SkPlace(sk)))
               /\ dir' = Extend(dir, i, VirtToPhy(PageAlign(SkPlace(sk))))

(* pmm_table_fill, for an index that has no table yet: 1024 answers of     *)
(* ReservePage.                                                            *)
FillTable(i) ==
  /\ NewTable(i)
  /\ from' = Extend(from, i, given)
  /\ given' = given + 1024
  /\ UNCHANGED <<mach, place>>

(* The first table's 4 MB replace TepKmalloc as the static heap.           *)
FillStatic ==
  /\ stage = "static"
  /\ \/ /\ FillTable(StaticIndex)
        /\ sk' = [start |-> TableBytes, size |-> 4 * MB, alloc |-> 0]
        /\ Become("heap")
     \/ ~ SkHasRoom(sk, 8 * KB) /\ Fault

FillHeap ==
  /\ stage = "heap"
  /\ \/ /\ FillTable(Smallest(HeapIndexes \ DOMAIN vtab))
        /\ sk' = SkTake(sk, 8 * KB)
        /\ Become(IF HeapIndexes \subseteq DOMAIN vtab' THEN "framebuffer" ELSE "heap")
     \/ ~ SkHasRoom(sk, 8 * KB) /\ Fault

(* manual_table_fill of the frame buffer, whose frames are not memory.     *)
MapFrameBuffer ==
  /\ stage = "framebuffer"
  /\ \/ /\ NewTable(FrameBufferIndex)
        /\ sk' = SkTake(sk, 8 * KB)
        /\ Become("done")
        /\ UNCHANGED <<mach, given, place, from>>
     \/ ~ SkHasRoom(sk, 8 * KB) /\ Fault

Next == \/ FindStaticHeap \/ PmmInit \/ ReserveKernel \/ PageInit \/ VtableInit
        \/ FillStatic \/ FillHeap \/ MapFrameBuffer

Spec == Init /\ [][Next]_vars

-----------------------------------------------------------------------------
(***************************************************************************)
(* Properties.                                                             *)
(***************************************************************************)
TypeOK ==
  /\ mach \in Machines
  /\ stage \in {"scan", "pmm", "reserve", "page", "vtable", "static", "heap",
                "framebuffer", "done", "fault"}
  /\ sk \in [start: Nat, size: Nat, alloc: 0..(sk.size + 1)]
  /\ given \in Nat
  /\ DOMAIN place \subseteq {"MemoryArray", "PagesAlloc", "addr", "table", "vtable"}
  /\ DOMAIN vtab \subseteq 768..1023
  /\ DOMAIN from \subseteq DOMAIN vtab

(* The structures that the kernel lives by from then on, and their sizes.  *)
Bytes == [MemoryArray |-> MapBytes, PagesAlloc |-> 8, addr |-> BitmapBytes,
          table |-> PageSize, vtable |-> PageSize]

Structures == {[at |-> place[x], bytes |-> Bytes[x], name |-> <<x, 0>>] :
                 x \in DOMAIN place}
         \cup {[at |-> vtab[i], bytes |-> PageSize, name |-> <<"entries", i>>] :
                 i \in DOMAIN vtab}

Pages(s) == (s.at \div PageSize)..((s.at + s.bytes - 1) \div PageSize)

(* The bytes of page p that s takes, in the frame p is mapped to.          *)
Frame(p)    == VirtToPhy(p * PageSize)
Lowest(s, p)  == IF p * PageSize < s.at THEN s.at % PageSize ELSE 0
Highest(s, p) == IF (p + 1) * PageSize <= s.at + s.bytes THEN PageSize - 1
                 ELSE (s.at + s.bytes - 1) % PageSize

(* No two of them share a byte of physical memory, though TepKmalloc's     *)
(* last page is mapped twice.                                              *)
StructuresApart ==
  /\ TypeOK
  /\ stage # "fault" =>
       \A s, t \in Structures : \A p \in Pages(s), q \in Pages(t) :
         (Frame(p) = Frame(q) /\ s.name # t.name) =>
           Highest(s, p) < Lowest(t, q) \/ Highest(t, q) < Lowest(s, p)

(* The MMU walks the tables that the kernel writes to: each entry of the   *)
(* directory is the frame of the place in the virtual directory.           *)
WalkAgrees ==
  DOMAIN vtab # {} =>
    /\ DOMAIN dir = DOMAIN vtab
    /\ \A i \in DOMAIN dir : dir[i] = VirtToPhy(vtab[i])

(* On a machine with memory enough, no frame is mapped twice in the static *)
(* heap and the kernel heap, and none of the kernel's own is.              *)
FramesOf(i) == {Answer(from[i] + e) : e \in 0..1023}

Enough == given <= BitmapBytes * 8

MemoryIsItsOwn ==
  Enough =>
    LET mapped == UNION {FramesOf(i) : i \in DOMAIN from}
    IN  /\ Cardinality(mapped) = 1024 * Cardinality(DOMAIN from)
        /\ mapped \cap (0..(mach.kernel - 1)) = {}

(* TepKmalloc lasts to the 4 MB that follow it when its 21 pages hold the  *)
(* six structures, at 12 bytes an entry of the memory map and a bit a      *)
(* frame, and the byte that skmalloc leaves after each but the last: with  *)
(* a map of 7 entries up to 1.8 GB.                                        *)
BootHeapLasts ==
  12 * mach.maps + 8 + mach.ram \div 8 + 3 * 8 * KB + 5 <= 21 * PageSize =>
    stage # "fault"

=============================================================================
