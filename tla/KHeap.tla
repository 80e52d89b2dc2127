-------------------------------- MODULE KHeap -------------------------------
(***************************************************************************)
(* The kernel heap (src/System/memory/kmemory.cpp).  MemoryMap, a          *)
(* K_Vector, lists the heap in address order as entries that are used or   *)
(* free.  kmalloc carves a block off the first free entry that is large    *)
(* enough, kfree gives it back and joins it with free neighbours (ConJoin) *)
(* unless start_debug has asked for every event to be kept.                *)
(*                                                                         *)
(* The kernel is one thread and interrupt handlers do not allocate, so     *)
(* each call is one action.  DebugMap is left out but for its storage,     *)
(* which is the first block: the events it records are only printed.       *)
(***************************************************************************)
EXTENDS VecOps, FiniteSets

CONSTANTS Base,        \* PAGEDIR_ADDRESS(page_start + 1)
          Pages,       \* page tables given to init_memory: 9
          PageSize,    \* bytes of each: 4 MB
          MaxAlloc,    \* KHEAP_MAX_ALLOC: 8 MB
          DebugBytes,  \* storage of DebugMap
          ReportBytes  \* storage of the vector end_debug keeps its report in

Limit == Base + Pages * PageSize

ASSUME KHeapAssumption ==
  /\ Base \in Nat \ {0}
  /\ Pages \in 1..Capacity
  /\ PageSize \in Nat \ {0}
  /\ MaxAlloc \in Nat
  /\ DebugBytes \in 1..MaxAlloc /\ DebugBytes <= PageSize
  /\ ReportBytes \in 1..MaxAlloc

VARIABLES map,       \* MemoryMap
          saving,    \* save_alloc
          boot,      \* what init_memory still has to do: ConJoin(0) boot - 1
                     \* times, then the storage of DebugMap
          stopped,   \* why the kernel has stopped: "no", "oom" when kmalloc
                     \* raised fault 0x13, "oob" when MemoryMap[i] did not exist
          held       \* the blocks callers have got from kmalloc and not freed

vars == <<map, saving, boot, stopped, held>>

Entry == [start : Nat, end : Nat, used : BOOLEAN]
Block == [at : Nat, size : Nat]

Bytes(e) == e.end - e.start

-----------------------------------------------------------------------------
(***************************************************************************)
(* ConJoin(i) merges the free entries i and i+1 if they touch.  Its bounds *)
(* check, m1 >= size && m1 < 0, is never true: what protects the access to *)
(* entry i+1 is that the caller has one.                                   *)
(***************************************************************************)
NextMissing(m, i) == Size(m) > 1 /\ ~At(m, i).used /\ i + 1 >= Size(m)

Touches(e, f) == e.end = f.start \/ e.end + 1 = f.start

Joinable(m, i) ==
  /\ i + 1 < Size(m)
  /\ ~At(m, i).used /\ ~At(m, i + 1).used
  /\ Touches(At(m, i), At(m, i + 1))

ConJoinDropping(m, i) == IF Joinable(m, i) THEN PopAt(m, i + 1) ELSE m

ConJoin(m, i) ==
  IF Joinable(m, i)
  THEN PopAt(Write(m, i, [At(m, i) EXCEPT !.end = At(m, i + 1).end]), i + 1)
  ELSE m

(***************************************************************************)
(* kmalloc: the free entries that can hold n bytes, and the map once the   *)
(* block is taken from entry i.  Of a larger entry the byte after the      *)
(* block is given up, and the block becomes an entry before the rest of it *)
(* -- if MemoryMap still takes inserts.                                    *)
(***************************************************************************)
FitsAny(m, n)  == {i \in Indices(m) : ~At(m, i).used /\ Bytes(At(m, i)) > 0}

Fits(m, n) == {i \in Indices(m) : ~At(m, i).used /\ Bytes(At(m, i)) >= n}

FirstOf(S) == CHOOSE i \in S : \A j \in S : i <= j

Taken(e, n) == [start |-> e.start, end |-> e.start + n, used |-> TRUE]
Rest(e, n)  == [start |-> e.start + n + 1, end |-> e.end, used |-> FALSE]

CarveKeepingStart(m, i, n) ==
  IF Bytes(At(m, i)) = n
  THEN Write(m, i, Taken(At(m, i), n))
  ELSE Insert(m, i, Taken(At(m, i), n))

CarveInsertingFirst(m, i, n) ==
  IF Bytes(At(m, i)) = n
  THEN Write(m, i, Taken(At(m, i), n))
  ELSE Write(Insert(m, i, Taken(At(m, i), n)), i + 1, Rest(At(m, i), n))

Carve(m, i, n) ==
  IF Bytes(At(m, i)) = n
  THEN Write(m, i, Taken(At(m, i), n))
  ELSE Insert(Write(m, i, Rest(At(m, i), n)), i, Taken(At(m, i), n))

(***************************************************************************)
(* kfree of the block of entry i.                                          *)
(***************************************************************************)
UsedAt(m, p) == {i \in Indices(m) : At(m, i).start = p /\ At(m, i).used}

MarkNothing(m, i) == m
MarkFree(m, i)    == Write(m, i, [At(m, i) EXCEPT !.used = FALSE])

JoinAfter(m, i)  == ConJoin(m, i)
JoinAround(m, i) ==
  IF i > 0 THEN ConJoin(ConJoin(m, i), i - 1) ELSE ConJoin(m, i)

JoinFailsBackwards(m, i) ==
  IF i > 0 THEN NextMissing(m, i - 1) \/ NextMissing(ConJoin(m, i - 1), i)
  ELSE NextMissing(m, i)

JoinFails(m, i) ==
  NextMissing(m, i) \/ (i > 0 /\ NextMissing(ConJoin(m, i), i - 1))

Released(m, p, save) ==
  IF UsedAt(m, p) = {} THEN m
  ELSE LET i     == FirstOf(UsedAt(m, p))
           freed == MarkFree(m, i)
       IN  IF save \/ JoinFails(freed, i) THEN freed ELSE JoinAround(freed, i)

ReleaseFails(m, p, save) ==
  /\ ~save
  /\ UsedAt(m, p) # {}
  /\ LET i == FirstOf(UsedAt(m, p)) IN JoinFails(MarkFree(m, i), i)

-----------------------------------------------------------------------------
(* init_memory up to its loop of ConJoin(0): an entry for each page.       *)
PageEntryBelow(k) == [start |-> Base + (k - 1) * PageSize,
                      end   |-> Base + k * PageSize,
                      used  |-> FALSE]

PageEntry(k) == [start |-> Base + k * PageSize,
                 end   |-> Base + (k + 1) * PageSize,
                 used  |-> FALSE]

Init == /\ map = [elems |-> [k \in 1..Pages |-> PageEntry(k - 1)],
                  peak  |-> Pages]
        /\ saving = FALSE
        /\ boot = Pages + 1
        /\ stopped = "no"
        /\ held = {}

Ready == boot = 0 /\ stopped = "no"

Grant(n) ==
  LET i == FirstOf(Fits(map, n)) IN
  /\ Fits(map, n) # {}
  /\ map' = Carve(map, i, n)
  /\ held' = held \cup {[at |-> At(map, i).start, size |-> n]}
  /\ UNCHANGED <<saving, stopped>>

BootJoin  == /\ boot > 1
             /\ map' = ConJoin(map, 0)
             /\ boot' = boot - 1
             /\ UNCHANGED <<saving, stopped, held>>
BootDebugMap == boot = 1 /\ Grant(DebugBytes) /\ boot' = 0

(* kmalloc(n).  A request of nothing or of too much is answered nullptr.   *)
Kmalloc(n) == Ready /\ n \in 1..MaxAlloc /\ Grant(n) /\ UNCHANGED boot

KmallocFault(n) == /\ Ready
                   /\ n \in 1..MaxAlloc
                   /\ Fits(map, n) = {}
                   /\ stopped' = "oom"
                   /\ UNCHANGED <<map, saving, boot, held>>

(* kfree(p).  A pointer that starts no used entry changes nothing.         *)
Kfree(p) == /\ Ready
            /\ map' = Released(map, p, saving)
            /\ stopped' = IF ReleaseFails(map, p, saving) THEN "oob" ELSE "no"
            /\ held' = {b \in held : b.at # p}
            /\ UNCHANGED <<saving, boot>>

StartDebug == /\ Ready
              /\ saving' = TRUE
              /\ UNCHANGED <<map, boot, stopped, held>>

(* end_debug.  Its report is built in a vector of its own, whose storage   *)
(* comes from kmalloc and goes back when the function returns.             *)
EndDebug ==
  /\ Ready
  /\ saving' = FALSE
  /\ LET fits  == Fits(map, ReportBytes)
         i     == FirstOf(fits)
         taken == Carve(map, i, ReportBytes)
         p     == At(map, i).start
     IN  \/ /\ fits = {}
            /\ stopped' = "oom"
            /\ UNCHANGED map
         \/ /\ fits # {}
            /\ map' = Released(taken, p, FALSE)
            /\ stopped' = IF ReleaseFails(taken, p, FALSE) THEN "oob" ELSE "no"
  /\ UNCHANGED <<boot, held>>

(* The storage of DebugMap, at Base, is never freed.                       *)
DoKmalloc      == \E n \in 1..MaxAlloc : Kmalloc(n)
DoKmallocFault == \E n \in 1..MaxAlloc : KmallocFault(n)
DoKfree        == \E p \in (0..Limit) \ {Base} : Kfree(p)

Next == \/ BootJoin \/ BootDebugMap
        \/ DoKmalloc \/ DoKmallocFault \/ DoKfree
        \/ StartDebug \/ EndDebug

Spec == Init /\ [][Next]_vars

-----------------------------------------------------------------------------
(***************************************************************************)
(* Properties.                                                             *)
(***************************************************************************)

(* Every variable stays in its range.                                      *)
TypeOK ==
  /\ map \in VectorOf(Entry)
  /\ saving \in BOOLEAN
  /\ boot \in 0..(Pages + 1)
  /\ stopped \in {"no", "oom", "oob"}
  /\ held \subseteq Block

(* MemoryMap is in address order, without overlap, within the heap.        *)
InOrder(m) ==
  /\ \A i \in Indices(m) : /\ Base <= At(m, i).start
                           /\ At(m, i).start <= At(m, i).end
                           /\ At(m, i).end <= Limit
  /\ \A i, j \in Indices(m) : i < j => At(m, i).end <= At(m, j).start

Ordered == InOrder(map)

(* Whatever the order of kmalloc and kfree calls, with or without          *)
(* debugging, and even when MemoryMap has dropped an entry: two blocks in  *)
(* the hands of callers never overlap, and no memory that kmalloc may      *)
(* still hand out overlaps one of them -- no free entry, and no byte       *)
(* between two entries that ConJoin would add to one.                      *)
Before(b, x) == b.at + b.size <= x

HeldApart(h) ==
  /\ \A b \in h : b.size > 0 /\ Base <= b.at /\ Before(b, Limit)
  /\ \A b, c \in h : b # c => Before(b, c.at) \/ Before(c, b.at)

FreeNotHeld(m, h) ==
  \A b \in h : \A i \in Indices(m) :
    ~At(m, i).used => Before(b, At(m, i).start) \/ At(m, i).end <= b.at

GapsNotHeld(m, h) ==
  \A b \in h : \A i \in Indices(m) :
    i + 1 < Size(m) /\ At(m, i).end + 1 = At(m, i + 1).start
      => Before(b, At(m, i).end) \/ At(m, i).end < b.at

HeldSafe == HeldApart(held) /\ FreeNotHeld(map, held) /\ GapsNotHeld(map, held)

(* A used entry is exactly a block that a caller holds: nothing stays used *)
(* once it has been freed.                                                 *)
UsedHeld(m, h) ==
  \A i \in Indices(m) : At(m, i).used =>
    [at |-> At(m, i).start, size |-> Bytes(At(m, i))] \in h

UsedIsHeld == UsedHeld(map, held)

(* As long as MemoryMap has never been full: kfree will find every block   *)
(* that a caller holds ...                                                 *)
NeverFull == map.peak < Capacity

HeldFound ==
  \A b \in held : \E i \in Indices(map) :
    LET e == At(map, i) IN e.used /\ e.start = b.at /\ Bytes(e) = b.size

(* ... and the heap loses no memory: its entries follow one another from   *)
(* Base to Limit, with at most the one byte that kmalloc gives up between  *)
(* two of them.                                                            *)
Tiled ==
  NeverFull =>
    /\ HeldFound
    /\ Size(map) > 0
    /\ At(map, 0).start = Base
    /\ At(map, Size(map) - 1).end = Limit
    /\ \A i \in Indices(map) : i + 1 < Size(map) =>
         Touches(At(map, i), At(map, i + 1))

(* Without debugging no step adds a pair of neighbouring free entries that *)
(* ConJoin would merge: kfree leaves nothing in pieces that could be whole.*)
Fragments(m) == {i \in Indices(m) : Joinable(m, i)}

NoNewFragments ==
  [][~saving /\ stopped' = "no"
       => Cardinality(Fragments(map')) <= Cardinality(Fragments(map))]_vars

(* kfree runs off the end of MemoryMap only when it frees its last entry:  *)
(* as long as there is free memory at the end of the heap it never does.   *)
OverrunOnlyAtEnd ==
  [][stopped = "no" /\ stopped' = "oob"
       => \/ At(map, Size(map) - 1).used
          \/ Bytes(At(map, Size(map) - 1)) = ReportBytes]_vars

(* kmalloc and kfree are the allocator that their callers rely on.         *)
Alloc == INSTANCE Allocator WITH stopped <- stopped # "no"
ImplementsAllocator == Alloc!Spec

=============================================================================
