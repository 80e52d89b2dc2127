------------------------------ MODULE Vmm_proofs ----------------------------
(***************************************************************************)
(* The memory that the kernel brings up, for every machine.                *)
(*                                                                         *)
(* Until the first page table is filled, skmalloc answers from the 21      *)
(* pages of TepKmalloc that vmm::init finds; the n-th structure lies in    *)
(* the bytes from Slot(n) to Slot(n + 1) of them (BootInv).  After that it *)
(* answers from the 4 MB of that table, with 8193 bytes for each further   *)
(* table (HeapInv).  The places never change, and the frame of a place     *)
(* that is in use does not change either: it is boot_page_table1's or      *)
(* counted from the first table's first page.                              *)
(***************************************************************************)
EXTENDS Vmm, NatLemmas

BootStart == 1000 * PageSize
BootSize  == 21 * PageSize

(* Where in TepKmalloc the n-th structure's bytes begin: MemoryArray,      *)
(* PagesAlloc, its bits, the directory, its virtual half, the first table. *)
Slot(n) ==
  IF n = 1 THEN 0
  ELSE IF n = 2 THEN MapBytes + 1
  ELSE IF n = 3 THEN MapBytes + 10
  ELSE MapBytes + BitmapBytes + 11 + (n - 4) * 8193

(* How many of them there are.                                             *)
Placed == IF stage \in {"scan", "pmm"} THEN 0
          ELSE IF stage \in {"reserve", "page"} THEN 3
          ELSE IF stage = "vtable" THEN 4
          ELSE IF stage = "static" THEN 5 ELSE 6

Booting == {"pmm", "reserve", "page", "vtable", "static"}
Filling == {"heap", "framebuffer", "done"}

Names == <<"MemoryArray", "PagesAlloc", "addr", "table", "vtable">>

BootInv ==
  /\ stage = "scan" => sk = [start |-> 0, size |-> 0, alloc |-> 0]
  /\ stage \in Booting =>
       sk = [start |-> BootStart, size |-> BootSize, alloc |-> Slot(Placed + 1)]
  /\ stage # "fault" =>
       /\ Placed >= 3 => Slot(4) <= BootSize + 1
       /\ \A n \in 4..6 : n <= Placed => Slot(n) + 8192 <= BootSize
       /\ DOMAIN place = {Names[n] : n \in {k \in 1..5 : k <= Placed}}
       /\ Placed >= 3 => /\ place["MemoryArray"] = BootStart + Slot(1)
                         /\ place["PagesAlloc"] = BootStart + Slot(2)
                         /\ place["addr"] = BootStart + Slot(3)
       /\ Placed >= 4 => place["table"] = PageAlign(BootStart + Slot(4))
       /\ Placed >= 5 => place["vtable"] = PageAlign(BootStart + Slot(5))
       /\ Placed >= 5 => vtab[LoadIndex] = (mach.tep - 1) * PageSize
       /\ Placed >= 6 => vtab[StaticIndex] = PageAlign(BootStart + Slot(6))

HeapTables == DOMAIN vtab \ {LoadIndex, StaticIndex}

(* The bytes of the static heap they have taken, and where they lie.       *)
HeapTaken == 8193 * (Cardinality(DOMAIN from) - 1)
             + (IF stage = "done" THEN 8193 ELSE 0)

HeapPlaces ==
  /\ \A i \in HeapTables :
       /\ vtab[i] \in Nat /\ vtab[i] % PageSize = 0
       /\ TableBytes <= vtab[i] /\ vtab[i] + PageSize <= TableBytes + sk.alloc
  /\ \A i, j \in HeapTables : i # j => vtab[i] # vtab[j]

HeapInv ==
  /\ stage \notin Filling \cup {"fault"} =>
       DOMAIN vtab = (IF Placed < 5 THEN {} ELSE {LoadIndex}) /\ DOMAIN from = {}
  /\ stage \in Filling =>
       /\ StaticIndex \in DOMAIN from
       /\ DOMAIN from \subseteq HeapIndexes \cup {StaticIndex}
       /\ DOMAIN vtab = DOMAIN from \cup {LoadIndex} \cup
            (IF stage = "done" THEN {FrameBufferIndex} ELSE {})
       /\ sk.start = TableBytes /\ sk.size = TableBytes /\ sk.alloc = HeapTaken
       /\ stage = "heap" => ~(HeapIndexes \subseteq DOMAIN vtab)
       /\ HeapPlaces

(* Answers before the first table is filled: the kernel's frames and one.  *)
First == 1 + KernelLoops(KernelEnd)

Numbers(i) == from[i]..(from[i] + 1023)

(* The tables' answers are the numbers from First on, each used once.      *)
MemInv ==
  /\ IsFiniteSet(DOMAIN from)
  /\ stage \in {"scan", "pmm", "reserve"} => given = 0 
  /\ DOMAIN from = {} \/ given = First + 1024 * Cardinality(DOMAIN from)
  /\ stage \notin {"scan", "pmm", "reserve", "fault"} =>
       given = First + 1024 * Cardinality(DOMAIN from)
  /\ \A i \in DOMAIN from : from[i] \in Nat
  /\ \A n : n \in First..(given - 1) <=> \E i \in DOMAIN from : n \in Numbers(i)
  /\ StaticIndex \in DOMAIN from => from[StaticIndex] = First

(* A place whose frame is settled.                                         *)
Settled(a) == a \in Nat /\ (a < TableBytes \/ (a < 2 * TableBytes /\ StaticIndex \in DOMAIN from))

DirInv ==
  /\ stage \in {"scan", "pmm", "reserve", "page"} => DOMAIN dir = {}
  /\ stage = "vtable" => DOMAIN dir = {LoadIndex} /\ dir[LoadIndex] = mach.tep - 1
  /\ DOMAIN vtab # {} => DOMAIN dir = DOMAIN vtab
  /\ \A i \in DOMAIN vtab :
       \E a : a = vtab[i] /\ Settled(a) /\ dir[i] = VirtToPhy(a)

VmmInv == TypeOK /\ BootInv /\ HeapInv /\ MemInv /\ DirInv

-----------------------------------------------------------------------------
(***************************************************************************)
(* Operators of the model.                                                 *)
(***************************************************************************)
LEMMA SmallestIs ==
  ASSUME NEW S, S \subseteq Int, NEW x \in S, \A y \in S : x <= y
  PROVE  Smallest(S) = x
<1>1. Smallest(S) \in S /\ \A y \in S : Smallest(S) <= y
  BY DEF Smallest
<1>2. Smallest(S) \in Int /\ x \in Int /\ Smallest(S) <= x /\ x <= Smallest(S)
  BY <1>1
<1> QED BY <1>2

LEMMA LargestIs ==
  ASSUME NEW S, S \subseteq Int, NEW x \in S, \A y \in S : y <= x
  PROVE  Largest(S) = x
<1>1. Largest(S) \in S /\ \A y \in S : y <= Largest(S)
  BY DEF Largest
<1>2. Largest(S) \in Int /\ x \in Int /\ Largest(S) <= x /\ x <= Largest(S)
  BY <1>1
<1> QED BY <1>2

LEMMA MachineFacts ==
  ASSUME mach \in Machines
  PROVE  /\ mach.base \in Nat /\ mach.ram \in Nat /\ mach.kernel \in 0..999
         /\ mach.tep \in Nat /\ mach.mbi \in Nat /\ mach.maps \in Nat
         /\ mach.base <= mach.tep - 2
         /\ mach.tep + 20 <= mach.kernel
         /\ mach.kernel <= mach.base + mach.ram
         /\ MapBytes \in Nat /\ BitmapBytes \in Nat
         /\ BitmapBytes * 8 <= mach.ram /\ mach.ram < BitmapBytes * 8 + 8
  BY MachinesAssumption DEF MapBytes, BitmapBytes

(* The entries of TepKmalloc, and the end of the last.                     *)
TepFirst == 1000
TepEnd == 1022

(* The fields of the machine by names of their own.                        *)
LEMMA MachineFields ==
  ASSUME mach \in Machines
  PROVE  \E b, t, k \in Nat :
           /\ mach.base = b /\ mach.tep = t /\ mach.kernel = k
           /\ b + 2 <= t /\ t + 20 <= k /\ k < TepFirst
<1>1. mach.base \in Nat /\ mach.tep \in Nat /\ mach.kernel \in Nat
  BY MachineFacts
<1>2. mach.base + 2 <= mach.tep /\ mach.tep + 20 <= mach.kernel /\ mach.kernel < TepFirst
  BY MachineFacts DEF TepFirst
<1> QED BY <1>1, <1>2

BootIs(i, k, t, e) ==
  /\ i < k => e = i * 4096 + 3
  /\ i \in k..999 => e = 0
  /\ i \in 1000..1019 => e = (t + i - 1000) * 4096 + 3
  /\ i = 1020 => e = t * 4096 + 79875
  /\ i = 1021 => e = t * 4096 + 81923
  /\ i = 1022 => e = 0

LEMMA BootValues ==
  ASSUME NEW k \in Nat, k < TepFirst, NEW t \in Nat,
         mach.kernel = k, mach.tep = t, NEW i \in 0..TepEnd
  PROVE  BootIs(i, k, t, BootEntry(i))
<1>1. BootEntry(i) = IF i < k THEN i * 4096 + 3
                     ELSE IF i \in 1000..1021 THEN t * 4096 + TepBytes(i) + 3
                     ELSE IF i = 1023 THEN mach.mbi * 4096 + 3 ELSE 0
  BY DEF BootEntry, PageSize
<1>2. TepBytes(i) = IF i = 1020 THEN 79872
                    ELSE IF i = 1021 THEN 81920 ELSE (i - 1000) * 4096
  BY DEF TepBytes, KB
<1> QED BY <1>1, <1>2 DEF TepFirst, TepEnd, BootIs

(* The scan finds the kernel and the 22 entries of TepKmalloc.             *)
LEMMA ScanFinds ==
  ASSUME mach \in Machines
  PROVE  SkFirst = TepFirst /\ SkLast = 1021
<1>0. PICK b, t, k \in Nat : /\ mach.base = b /\ mach.tep = t /\ mach.kernel = k
                             /\ b + 2 <= t /\ t + 20 <= k /\ k < TepFirst
  BY MachineFields
<1>1. /\ \A i \in 0..(k - 1) : BootEntry(i) # 0
      /\ \A i \in k..999 : BootEntry(i) = 0
      /\ \A i \in 1000..1021 : BootEntry(i) # 0
      /\ BootEntry(1022) = 0
  <2>1. ASSUME NEW i \in 0..TepEnd
        PROVE  /\ i < k => BootEntry(i) # 0
               /\ i \in k..999 => BootEntry(i) = 0
               /\ i \in 1000..1021 => BootEntry(i) # 0
               /\ i = 1022 => BootEntry(i) = 0
    <3>1. BootIs(i, k, t, BootEntry(i))
      BY <1>0, BootValues
    <3>2. i \in Nat
      BY DEF TepEnd
    <3> QED BY <1>0, <3>1, <3>2 DEF BootIs
  <2>2. ASSUME NEW i \in 0..(k - 1) PROVE BootEntry(i) # 0
    <3>1. i \in 0..TepEnd /\ i < k
      BY <1>0 DEF TepEnd, TepFirst
    <3> QED BY <2>1, <3>1
  <2>3. ASSUME NEW i \in k..999 PROVE BootEntry(i) = 0
    <3>1. i \in 0..TepEnd
      BY <1>0 DEF TepEnd, TepFirst
    <3> QED BY <2>1, <3>1
  <2>4. ASSUME NEW i \in 1000..1021 PROVE BootEntry(i) # 0
    <3>1. i \in 0..TepEnd
      BY DEF TepEnd
    <3> QED BY <2>1, <3>1
  <2>5. BootEntry(1022) = 0
    BY <2>1 DEF TepEnd
  <2> QED BY <2>2, <2>3, <2>4, <2>5
<1>2. Gap = k
  <2> DEFINE S == {i \in 0..1023 : BootEntry(i) = 0}
  <2>1. k \in S
    BY <1>0, <1>1 DEF TepFirst
  <2>2. \A i \in S : k <= i
    BY <1>0, <1>1
  <2>3. S \subseteq Int
    OBVIOUS
  <2> HIDE DEF S
  <2>4. Smallest(S) = k
    BY <2>1, <2>2, <2>3, SmallestIs
  <2> QED BY <2>4 DEF Gap, S
<1>3. SkFirst = TepFirst
  <2> DEFINE S == {i \in k..1023 : BootEntry(i) # 0}
  <2>1. TepFirst \in S
    BY <1>0, <1>1 DEF TepFirst
  <2>2. \A i \in S : TepFirst <= i
    BY <1>0, <1>1 DEF TepFirst
  <2>3. S \subseteq Int
    BY <1>0
  <2> HIDE DEF S
  <2>4. Smallest(S) = TepFirst
    BY <2>1, <2>2, <2>3, SmallestIs
  <2> QED BY <1>2, <2>4 DEF SkFirst, S
<1>4. SkLast = 1021
  <2> DEFINE S == {i \in TepFirst..1023 : BootEntry(i) = 0}
  <2>1. TepEnd \in S
    BY <1>1 DEF TepFirst, TepEnd
  <2>2. \A i \in S : TepEnd <= i
    BY <1>1 DEF TepFirst, TepEnd
  <2>3. S \subseteq Int
    BY DEF TepFirst
  <2> HIDE DEF S
  <2>4. Smallest(S) = TepEnd
    BY <2>1, <2>2, <2>3, SmallestIs
  <2>5. SkLast = TepEnd - 1
    BY <1>3, <2>4 DEF SkLast, S
  <2> QED BY <2>5 DEF TepEnd
<1> QED BY <1>3, <1>4

(* Entry 1021 is beyond the kernel's last only when TepKmalloc ends it.    *)
LEMMA KernelEndBounds ==
  ASSUME mach \in Machines
  PROVE  KernelEnd \in Nat /\ KernelEnd >= (mach.kernel - 1) * 4096 + 3
         /\ KernelEnd <= mach.kernel * 4096 + 3
<1>0. PICK b, t, k \in Nat : /\ mach.base = b /\ mach.tep = t /\ mach.kernel = k
                             /\ b + 2 <= t /\ t + 20 <= k /\ k < TepFirst
  BY MachineFields
<1> DEFINE Top == IF t + 20 = k THEN k * 4096 + 3 ELSE (k - 1) * 4096 + 3
           S == {BootEntry(i) : i \in 0..1021}
<1>1. ASSUME NEW i \in 0..1021
      PROVE  BootEntry(i) \in Nat /\ BootEntry(i) <= Top
  <2>1. BootIs(i, k, t, BootEntry(i))
    BY <1>0, BootValues DEF TepEnd
  <2> QED BY <1>0, <2>1 DEF BootIs, TepFirst
<1>2. Top \in S
  <2>1. CASE t + 20 = k
    <3>1. 1021 \in 0..TepEnd
      BY DEF TepEnd
    <3>2. BootEntry(1021) = Top
      BY <1>0, <2>1, <3>1, BootValues DEF BootIs
    <3> QED BY <3>2
  <2>2. CASE t + 20 # k
    <3>1. k - 1 \in 0..TepEnd
      BY <1>0 DEF TepEnd, TepFirst
    <3>2. BootIs(k - 1, k, t, BootEntry(k - 1))
      BY <1>0, <3>1, BootValues
    <3>3. BootEntry(k - 1) = Top /\ k - 1 \in 0..1021
      BY <1>0, <2>2, <3>2 DEF BootIs, TepFirst
    <3> QED BY <3>3
  <2> QED BY <2>1, <2>2
<1>3. S \subseteq Int /\ \A y \in S : y <= Top
  BY <1>1
<1>4. KernelEnd = Largest(S)
  BY ScanFinds DEF KernelEnd
<1>5. Top \in Nat /\ Top >= (k - 1) * 4096 + 3 /\ Top <= k * 4096 + 3
  BY <1>0
<1> HIDE DEF S, Top
<1>6. Largest(S) = Top
  BY <1>2, <1>3, LargestIs
<1> QED BY <1>0, <1>4, <1>5, <1>6

(* The loop that reserves the kernel's pages passes its last.              *)
LEMMA FirstBounds ==
  ASSUME mach \in Machines
  PROVE  /\ First \in Nat
         /\ mach.base + First > mach.kernel
         /\ mach.base + First <= mach.kernel + 2
<1>0. PICK b, t, k \in Nat : /\ mach.base = b /\ mach.tep = t /\ mach.kernel = k
                             /\ b + 2 <= t /\ t + 20 <= k /\ k < TepFirst
  BY MachineFields
<1>e. PICK e \in Nat : KernelEnd = e /\ e >= (k - 1) * 4096 + 3 /\ e <= k * 4096 + 3
  BY <1>0, KernelEndBounds
<1> DEFINE T == {n \in b..1023 : n * PageSize < e}
           U == b..k
           L == b..(k - 1)
<1>1. L \subseteq T /\ T \subseteq U
  BY <1>0, <1>e DEF PageSize, TepFirst
<1>2. /\ IsFiniteSet(U) /\ Cardinality(U) = k - b + 1
      /\ Cardinality(L) = k - b
  <2>1. b \in Int /\ k \in Int /\ k - 1 \in Int /\ ~(b > k) /\ ~(b > k - 1)
    BY <1>0
  <2> QED BY <2>1, FS_Interval
<1>3. First = 1 + Cardinality(T)
  BY <1>0, <1>e DEF First, KernelLoops
<1> HIDE DEF T, U, L
<1>4. IsFiniteSet(T) /\ Cardinality(T) \in Nat /\ Cardinality(T) <= Cardinality(U)
  BY <1>1, <1>2, FS_Subset, FS_CardinalityType
<1>5. Cardinality(L) <= Cardinality(T)
  BY <1>1, <1>4, FS_Subset
<1> QED BY <1>0, <1>2, <1>3, <1>4, <1>5

LEMMA PageAlignFacts ==
  ASSUME NEW a \in Nat
  PROVE  /\ PageAlign(a) \in Nat /\ PageAlign(a) > a
         /\ PageAlign(a) <= a + PageSize /\ PageAlign(a) % PageSize = 0
  BY DEF PageAlign, PageSize

LEMMA VirtBoot ==
  ASSUME NEW a \in Nat, a < TableBytes
  PROVE  VirtToPhy(a) = BootEntry(a \div PageSize) \div PageSize
<1>1. a \div TableBytes = 0 /\ a % TableBytes = a
  BY DEF TableBytes, MB, KB
<1>2. LoadIndex + a \div TableBytes = LoadIndex
  BY <1>1 DEF LoadIndex
<1> QED BY <1>1, <1>2 DEF VirtToPhy

LEMMA VirtStatic ==
  ASSUME NEW a \in Nat, TableBytes <= a, a < 2 * TableBytes
  PROVE  VirtToPhy(a) = Answer(from[StaticIndex] + (a - TableBytes) \div PageSize)
<1>1. a \div TableBytes = 1 /\ a % TableBytes = a - TableBytes
  BY DEF TableBytes, MB, KB
<1>2. LoadIndex + a \div TableBytes = StaticIndex /\ StaticIndex # LoadIndex
  BY <1>1 DEF LoadIndex, StaticIndex
<1> QED BY <1>1, <1>2 DEF VirtToPhy

LEMMA SameMachine ==
  ASSUME mach' = mach
  PROVE  /\ First' = First /\ MapBytes' = MapBytes /\ BitmapBytes' = BitmapBytes
         /\ \A n : Slot(n)' = Slot(n)
         /\ \A e : BootEntry(e)' = BootEntry(e)
         /\ \A n : Answer(n)' = Answer(n)
<1>1. MapBytes' = MapBytes /\ BitmapBytes' = BitmapBytes
  BY DEF MapBytes, BitmapBytes
<1>2. \A e : BootEntry(e)' = BootEntry(e)
  BY DEF BootEntry
<1>3. KernelEnd' = KernelEnd
  <2>1. Gap' = Gap
    BY DEF Gap, BootEntry
  <2>2. SkFirst' = SkFirst
    BY <2>1 DEF SkFirst, BootEntry
  <2>3. SkLast' = SkLast
    BY <2>2 DEF SkLast, BootEntry
  <2> QED BY <2>3 DEF KernelEnd, BootEntry
<1> QED BY <1>1, <1>2, <1>3 DEF First, KernelLoops, Slot, Answer

(* The frame of a settled place does not change.                           *)
LEMMA SettledStays ==
  ASSUME mach' = mach, NEW a, Settled(a),
         StaticIndex \in DOMAIN from =>
           /\ StaticIndex \in DOMAIN from'
           /\ from'[StaticIndex] = from[StaticIndex]
  PROVE  Settled(a)' /\ VirtToPhy(a)' = VirtToPhy(a)
<1>1. a \in Nat
  BY DEF Settled
<1>2. Settled(a)'
  BY DEF Settled, StaticIndex
<1>3. CASE a < TableBytes
  <2>1. LoadIndex + a \div TableBytes = LoadIndex
    BY <1>1, <1>3 DEF TableBytes, MB, KB, LoadIndex
  <2> QED BY <1>2, <2>1, SameMachine DEF VirtToPhy
<1>4. CASE ~(a < TableBytes)
  <2>1. LoadIndex + a \div TableBytes = StaticIndex /\ StaticIndex # LoadIndex
    BY <1>1, <1>4 DEF Settled, TableBytes, MB, KB, LoadIndex, StaticIndex
  <2>2. StaticIndex \in DOMAIN from
    BY <1>4 DEF Settled, StaticIndex
  <2> QED BY <1>2, <2>1, <2>2, SameMachine DEF VirtToPhy
<1> QED BY <1>3, <1>4

LEMMA IndexFacts ==
  /\ LoadIndex # StaticIndex /\ LoadIndex # FrameBufferIndex
  /\ StaticIndex # FrameBufferIndex
  /\ LoadIndex \notin HeapIndexes /\ StaticIndex \notin HeapIndexes
  /\ FrameBufferIndex \notin HeapIndexes
  /\ {LoadIndex, StaticIndex, FrameBufferIndex} \cup HeapIndexes \subseteq 768..1023
  BY DEF LoadIndex, StaticIndex, HeapIndexes, FrameBufferIndex

LEMMA SlotFacts ==
  ASSUME mach \in Machines
  PROVE  /\ Slot(1) = 0 /\ Slot(2) = MapBytes + 1 /\ Slot(3) = MapBytes + 10
         /\ Slot(4) = Slot(3) + BitmapBytes + 1 /\ Slot(5) = Slot(4) + 8193
         /\ Slot(6) = Slot(5) + 8193 /\ Slot(7) = Slot(6) + 8193
         /\ \A n \in 1..7 : Slot(n) \in Nat
<1>1. MapBytes \in Nat /\ BitmapBytes \in Nat
  BY MachineFacts
<1> QED BY <1>1 DEF Slot

-----------------------------------------------------------------------------
(***************************************************************************)
(* What a new table does to the directory and to the answers given.        *)
(***************************************************************************)
StaticStays ==
  StaticIndex \in DOMAIN from =>
    StaticIndex \in DOMAIN from' /\ from'[StaticIndex] = from[StaticIndex]

LEMMA NewDirEntry ==
  ASSUME DirInv, mach' = mach, StaticStays, stage' \in Filling,
         DOMAIN vtab # {}, NEW i, NEW a, Settled(a),
         vtab' = Extend(vtab, i, a), dir' = Extend(dir, i, VirtToPhy(a))
  PROVE  DirInv'
<1>1. DOMAIN dir = DOMAIN vtab
  BY DEF DirInv
<1>2. /\ DOMAIN vtab' = DOMAIN vtab \cup {i} /\ DOMAIN dir' = DOMAIN vtab \cup {i}
      /\ vtab'[i] = a /\ dir'[i] = VirtToPhy(a)
      /\ \A j \in DOMAIN vtab : j # i => vtab'[j] = vtab[j] /\ dir'[j] = dir[j]
  <2>1. /\ DOMAIN vtab' = DOMAIN vtab \cup {i} /\ vtab'[i] = a
        /\ \A j \in DOMAIN vtab : j # i => vtab'[j] = vtab[j]
    BY DEF Extend
  <2>2. /\ DOMAIN dir' = DOMAIN dir \cup {i} /\ dir'[i] = VirtToPhy(a)
        /\ \A j \in DOMAIN dir : j # i => dir'[j] = dir[j]
    BY DEF Extend
  <2> QED BY <1>1, <2>1, <2>2
<1>3. ASSUME NEW j \in DOMAIN vtab'
      PROVE  \E v : v = vtab'[j] /\ Settled(v)' /\ dir'[j] = VirtToPhy(v)'
  <2>1. CASE j = i
    <3>1. Settled(a)' /\ VirtToPhy(a)' = VirtToPhy(a)
      BY SettledStays DEF StaticStays
    <3> QED BY <1>2, <2>1, <3>1
  <2>2. CASE j # i
    <3>1. j \in DOMAIN vtab
      BY <1>2, <2>2
    <3>2. PICK v : v = vtab[j] /\ Settled(v) /\ dir[j] = VirtToPhy(v)
      BY <3>1 DEF DirInv
    <3>3. Settled(v)' /\ VirtToPhy(v)' = VirtToPhy(v)
      BY <3>2, SettledStays DEF StaticStays
    <3>4. vtab'[j] = v /\ dir'[j] = dir[j]
      BY <1>2, <2>2, <3>1, <3>2
    <3> QED BY <3>2, <3>3, <3>4
  <2> QED BY <2>1, <2>2
<1> QED BY <1>2, <1>3 DEF DirInv, Filling

LEMMA MoreAnswers ==
  ASSUME MemInv, mach \in Machines, mach' = mach, stage' \in Filling,
         NEW i, i \notin DOMAIN from, i = StaticIndex => DOMAIN from = {},
         given = First + 1024 * Cardinality(DOMAIN from),
         from' = Extend(from, i, given), given' = given + 1024
  PROVE  MemInv'
<1>1. First' = First /\ First \in Nat
  BY SameMachine, FirstBounds
<1>2. /\ DOMAIN from' = DOMAIN from \cup {i} /\ from'[i] = given
      /\ \A j \in DOMAIN from : from'[j] = from[j]
  BY DEF Extend
<1>3. /\ IsFiniteSet(DOMAIN from') /\ Cardinality(DOMAIN from) \in Nat
      /\ Cardinality(DOMAIN from') = Cardinality(DOMAIN from) + 1
  BY <1>2, FS_AddElement, FS_CardinalityType DEF MemInv
<1>4. given \in Nat /\ given >= First
      /\ given' = First' + 1024 * Cardinality(DOMAIN from')
  BY <1>1, <1>3
<1>5. \A j \in DOMAIN from' : from'[j] \in Nat
  BY <1>2, <1>4 DEF MemInv
<1>6. StaticIndex \in DOMAIN from' => from'[StaticIndex] = First'
  <2>1. CASE i = StaticIndex
    <3>1. given = First
      BY <1>1, <2>1, FS_EmptySet
    <3> QED BY <1>1, <1>2, <2>1, <3>1
  <2>2. CASE i # StaticIndex
    BY <1>1, <1>2, <2>2 DEF MemInv
  <2> QED BY <2>1, <2>2
<1>7. \A n : n \in First'..(given' - 1) <=> \E j \in DOMAIN from' : n \in Numbers(j)'
  <2> SUFFICES ASSUME NEW n
               PROVE  n \in First..(given + 1023)
                        <=> \E j \in DOMAIN from' : n \in Numbers(j)'
    BY <1>1, <1>4
  <2>1. n \in First..(given + 1023)
          <=> n \in First..(given - 1) \/ n \in given..(given + 1023)
    BY <1>1, <1>4
  <2>2. n \in First..(given - 1) <=> \E j \in DOMAIN from : n \in Numbers(j)
    BY DEF MemInv
  <2>3. \A j \in DOMAIN from : Numbers(j)' = Numbers(j)
    BY <1>2 DEF Numbers
  <2>4. Numbers(i)' = given..(given + 1023)
    BY <1>2 DEF Numbers
  <2>5. (\E j \in DOMAIN from' : n \in Numbers(j)')
          <=> (\E j \in DOMAIN from : n \in Numbers(j)) \/ n \in given..(given + 1023)
    <3>1. PICK G : G = given..(given + 1023)
      OBVIOUS
    <3>2. Numbers(i)' = G
      BY <2>4, <3>1
    <3>3. /\ \A j \in DOMAIN from' : j \in DOMAIN from \/ j = i
          /\ \A j \in DOMAIN from : j \in DOMAIN from'
          /\ i \in DOMAIN from'
      BY <1>2
    <3>4. (\E j \in DOMAIN from' : n \in Numbers(j)')
            <=> (\E j \in DOMAIN from : n \in Numbers(j)) \/ n \in G
      BY <2>3, <3>2, <3>3
    <3> QED BY <3>1, <3>4
  <2> QED BY <2>1, <2>2, <2>5
<1> QED BY <1>3, <1>4, <1>5, <1>6, <1>7 DEF MemInv, Filling

-----------------------------------------------------------------------------
(***************************************************************************)
(* The steps.                                                              *)
(***************************************************************************)
LEMMA VmmInvInit == Init => VmmInv
<1> SUFFICES ASSUME Init PROVE VmmInv
  OBVIOUS
<1>1. DOMAIN place = {} /\ DOMAIN dir = {} /\ DOMAIN vtab = {} /\ DOMAIN from = {}
  BY DEF Init
<1>2. mach \in Machines /\ stage = "scan" /\ given = 0
      /\ sk = [start |-> 0, size |-> 0, alloc |-> 0]
  BY DEF Init
<1>3. TypeOK
  BY <1>1, <1>2 DEF TypeOK
<1>4. BootInv
  BY <1>1, <1>2 DEF BootInv, Booting, Placed
<1>5. HeapInv
  BY <1>1, <1>2 DEF HeapInv, Placed, Filling
<1>6. MemInv
  <2>1. First \in Nat
    BY <1>2, FirstBounds
  <2>2. \A n : ~(n \in First..(given - 1))
    BY <1>2, <2>1 DEF First
  <2> QED BY <1>1, <1>2, <2>2, FS_EmptySet DEF MemInv
<1>7. DirInv
  BY <1>1, <1>2 DEF DirInv
<1> QED BY <1>3, <1>4, <1>5, <1>6, <1>7 DEF VmmInv

LEMMA FaultStep ==
  ASSUME VmmInv, Fault
  PROVE  VmmInv'
<1>1. UNCHANGED <<mach, sk, given, place, dir, vtab, from>> /\ stage' = "fault"
  BY DEF Fault, Become
<1>2. TypeOK'
  BY <1>1 DEF VmmInv, TypeOK
<1>3. BootInv'
  BY <1>1 DEF BootInv, Booting
<1>4. HeapInv'
  BY <1>1 DEF HeapInv, Filling
<1>5. MemInv'
  BY <1>1, SameMachine DEF VmmInv, MemInv, Numbers
<1>6. DirInv'
  <2> SUFFICES ASSUME NEW j \in DOMAIN vtab
               PROVE  \E v : v = vtab[j] /\ Settled(v)' /\ dir[j] = VirtToPhy(v)'
    BY <1>1 DEF VmmInv, DirInv
  <2>1. PICK v : v = vtab[j] /\ Settled(v) /\ dir[j] = VirtToPhy(v)
    BY DEF VmmInv, DirInv
  <2> QED BY <1>1, <2>1, SettledStays
<1> QED BY <1>2, <1>3, <1>4, <1>5, <1>6 DEF VmmInv

(* Until the first table there is none, and so nothing to keep.            *)
LEMMA NoTables ==
  ASSUME VmmInv, stage \in {"scan", "pmm", "reserve", "page", "vtable"},
         UNCHANGED <<mach, vtab, from>>,
         stage' \in {"scan", "pmm", "reserve", "page", "vtable"}
  PROVE  HeapInv'
<1>1. DOMAIN vtab = {} /\ DOMAIN from = {}
  BY DEF VmmInv, HeapInv, Filling, Placed
<1> QED BY <1>1 DEF HeapInv, Filling, Placed

LEMMA FindStaticHeapStep ==
  ASSUME VmmInv, FindStaticHeap
  PROVE  VmmInv'
<1>1. /\ stage = "scan" /\ stage' = "pmm"
      /\ UNCHANGED <<mach, given, place, dir, vtab, from>> /\ mach \in Machines
      /\ sk' = [start |-> BootStart, size |-> BootSize, alloc |-> 0]
  <2>1. SkFirst = 1000 /\ (SkLast - SkFirst) = 21
    BY ScanFinds DEF VmmInv, TypeOK, TepFirst
  <2> QED BY <2>1 DEF FindStaticHeap, Become, BootStart, BootSize, VmmInv, TypeOK
<1>2. TypeOK'
  BY <1>1 DEF VmmInv, TypeOK, BootStart, BootSize, PageSize
<1>3. BootInv'
  BY <1>1, SlotFacts, SameMachine DEF VmmInv, BootInv, Placed, Booting
<1>4. HeapInv'
  BY <1>1, NoTables
<1>5. MemInv'
  BY <1>1, SameMachine DEF VmmInv, MemInv, Numbers
<1>6. DirInv'
  BY <1>1 DEF VmmInv, DirInv, HeapInv, Filling, Placed
<1> QED BY <1>2, <1>3, <1>4, <1>5, <1>6 DEF VmmInv

LEMMA TakeIs ==
  ASSUME NEW x, NEW y, NEW a, NEW n, NEW c, c = a + n + 1
  PROVE  SkTake([start |-> x, size |-> y, alloc |-> a], n)
           = [start |-> x, size |-> y, alloc |-> c]
  BY DEF SkTake

LEMMA PmmInitStep ==
  ASSUME VmmInv, PmmInit
  PROVE  VmmInv'
<1>1. CASE stage' = "fault"
  BY <1>1, FaultStep DEF PmmInit, Become
<1>2. CASE stage' # "fault"
  <2> DEFINE a2 == MapBytes + 1
             a3 == a2 + 9
             a4 == a3 + BitmapBytes + 1
  <2>1. /\ stage = "pmm" /\ sk = [start |-> BootStart, size |-> BootSize, alloc |-> 0]
        /\ mach \in Machines
    BY <1>2, SlotFacts DEF PmmInit, VmmInv, TypeOK, BootInv, Booting, Placed, Fault,
                           Become
  <2>2. /\ stage' = "reserve" /\ UNCHANGED <<mach, given, dir, vtab, from>>
        /\ a3 + BitmapBytes <= BootSize
        /\ sk' = [start |-> BootStart, size |-> BootSize, alloc |-> a4]
        /\ place' = [MemoryArray |-> BootStart, PagesAlloc |-> BootStart + a2,
                     addr |-> BootStart + a3]
    <3>1. MapBytes \in Nat /\ BitmapBytes \in Nat /\ BootStart \in Nat
          /\ BootSize \in Nat
      BY <2>1, MachineFacts DEF BootStart, BootSize, PageSize
    <3>2. SkTake(sk, MapBytes) = [start |-> BootStart, size |-> BootSize, alloc |-> a2]
      BY <2>1, <3>1, TakeIs
    <3>3. SkTake(SkTake(sk, MapBytes), 8)
            = [start |-> BootStart, size |-> BootSize, alloc |-> a3]
      <4>1. a3 = a2 + 8 + 1
        BY <3>1
      <4> HIDE DEF a2, a3
      <4> QED BY <3>2, <4>1, TakeIs
    <3>4. SkTake(SkTake(SkTake(sk, MapBytes), 8), BitmapBytes)
            = [start |-> BootStart, size |-> BootSize, alloc |-> a4]
      <4>1. a4 = a3 + BitmapBytes + 1
        BY <3>1
      <4>2. SkTake([start |-> BootStart, size |-> BootSize, alloc |-> a3], BitmapBytes)
              = [start |-> BootStart, size |-> BootSize, alloc |-> a4]
        <5> HIDE DEF a3, a4
        <5> QED BY <4>1, TakeIs
      <4> HIDE DEF a3, a4
      <4> QED BY <3>3, <4>2
    <3>5. /\ SkPlace(sk) = BootStart
          /\ SkPlace(SkTake(sk, MapBytes)) = BootStart + a2
          /\ SkPlace(SkTake(SkTake(sk, MapBytes), 8)) = BootStart + a3
      BY <2>1, <3>1, <3>2, <3>3 DEF SkPlace
    <3>6. SkHasRoom(SkTake(SkTake(sk, MapBytes), 8), BitmapBytes)
            => a3 + BitmapBytes <= BootSize
      BY <3>3 DEF SkHasRoom
    <3> QED BY <1>2, <3>4, <3>5, <3>6 DEF PmmInit, Fault, Become
  <2>3. /\ a2 = Slot(2) /\ a3 = Slot(3) /\ a4 = Slot(4) /\ Slot(1) = 0
        /\ a4 \in Nat /\ a4 <= BootSize + 1
        /\ BootSize \in Nat /\ BootStart \in Nat /\ BootStart + Slot(1) = BootStart
    BY <2>1, <2>2, SlotFacts, MachineFacts DEF BootSize, BootStart, PageSize
  <2>4. \A n : Slot(n)' = Slot(n)
    BY <2>2, SameMachine
  <2> HIDE DEF a2, a3, a4
  <2>5. TypeOK'
    <3>1. sk' \in [start: Nat, size: Nat, alloc: 0..(sk'.size+1)]
      BY <2>2, <2>3
    <3> QED BY <2>2, <3>1 DEF VmmInv, TypeOK
  <2>6. BootInv'
    <3>1. Placed' = 3 /\ Placed = 0
      BY <2>1, <2>2 DEF Placed
    <3>2. DOMAIN place' = {Names[n] : n \in {k \in 1..5 : k <= 3}}
      BY <2>2 DEF Names
    <3>3. /\ place'["MemoryArray"] = BootStart + Slot(1)
          /\ place'["PagesAlloc"] = BootStart + Slot(2)
          /\ place'["addr"] = BootStart + Slot(3)
      BY <2>2, <2>3
    <3> QED BY <2>1, <2>2, <2>3, <2>4, <3>1, <3>2, <3>3 DEF BootInv, Booting
  <2>7. HeapInv'
    BY <2>1, <2>2, NoTables
  <2>8. MemInv'
    BY <2>1, <2>2, SameMachine DEF VmmInv, MemInv, Numbers
  <2>9. DirInv'
    BY <2>1, <2>2 DEF VmmInv, DirInv, HeapInv, Filling, Placed
  <2> QED BY <2>5, <2>6, <2>7, <2>8, <2>9 DEF VmmInv
<1> QED BY <1>1, <1>2

LEMMA ReserveKernelStep ==
  ASSUME VmmInv, ReserveKernel
  PROVE  VmmInv'
<1>1. /\ stage = "reserve" /\ stage' = "page" /\ mach \in Machines
      /\ UNCHANGED <<mach, sk, place, dir, vtab, from>>
      /\ given = 0 /\ given' = given + First
      /\ DOMAIN vtab = {} /\ DOMAIN from = {}
  <2>1. given = 0
    BY DEF ReserveKernel, VmmInv, MemInv
  <2>2. given' = given + First
    <3>1. given' = 0 + 1 + KernelLoops(KernelEnd) /\ given' = 1 + KernelLoops(KernelEnd)
      BY <2>1 DEF ReserveKernel
    <3>2. First \in Nat
      BY FirstBounds DEF VmmInv, TypeOK
    <3> QED BY <2>1, <3>1, <3>2 DEF First
  <2> QED BY <2>1, <2>2 DEF ReserveKernel, Become, VmmInv, TypeOK, HeapInv, Filling,
                            Placed, First
<1>2. First' = First /\ First \in Nat /\ \A n : Slot(n)' = Slot(n)
  BY <1>1, SameMachine, FirstBounds
<1>3. TypeOK'
  BY <1>1, <1>2 DEF VmmInv, TypeOK
<1>4. BootInv'
  BY <1>1, <1>2 DEF VmmInv, BootInv, Placed, Booting
<1>5. HeapInv'
  BY <1>1, NoTables
<1>6. MemInv'
  <2>1. given' = First
    BY <1>1, <1>2
  <2>2. \A n : ~(n \in First..(given' - 1))
    BY <1>2, <2>1
  <2> QED BY <1>1, <1>2, <2>1, <2>2, FS_EmptySet DEF VmmInv, MemInv
<1>7. DirInv'
  BY <1>1 DEF VmmInv, DirInv
<1> QED BY <1>3, <1>4, <1>5, <1>6, <1>7 DEF VmmInv

(* A structure of a page takes 8193 bytes of TepKmalloc.                   *)
LEMMA TakeSlot ==
  ASSUME VmmInv, stage \in {"page", "vtable", "static"}, SkHasRoom(sk, 8 * KB)
  PROVE  /\ mach \in Machines /\ Placed \in 3..5
         /\ SkPlace(sk) = BootStart + Slot(Placed + 1) /\ SkPlace(sk) \in Nat
         /\ Slot(Placed + 1) + 8192 <= BootSize
         /\ SkTake(sk, 8 * KB) =
              [start |-> BootStart, size |-> BootSize, alloc |-> Slot(Placed + 2)]
         /\ Slot(Placed + 2) \in 0..(BootSize + 1)
         /\ BootStart \in Nat /\ BootSize \in Nat
<1>1. mach \in Machines /\ Placed \in {3, 4, 5} /\ BootStart \in Nat /\ BootSize \in Nat
  BY DEF VmmInv, TypeOK, Placed, BootStart, BootSize, PageSize
<1>2. sk = [start |-> BootStart, size |-> BootSize, alloc |-> Slot(Placed + 1)]
  BY DEF VmmInv, BootInv, Booting
<1>3. Slot(Placed + 2) = Slot(Placed + 1) + 8193 /\ Slot(Placed + 1) \in Nat
  <2>1. /\ Slot(4) \in Nat /\ Slot(5) = Slot(4) + 8193 /\ Slot(6) = Slot(5) + 8193
        /\ Slot(7) = Slot(6) + 8193
    BY <1>1, SlotFacts
  <2> QED BY <1>1, <2>1
<1> QED BY <1>1, <1>2, <1>3 DEF SkHasRoom, SkPlace, SkTake, KB

LEMMA PlacedNames ==
  /\ {Names[n] : n \in {k \in 1..5 : k <= 4}}
       = {Names[n] : n \in {k \in 1..5 : k <= 3}} \cup {"table"}
  /\ {Names[n] : n \in {k \in 1..5 : k <= 5}}
       = {Names[n] : n \in {k \in 1..5 : k <= 4}} \cup {"vtable"}
  /\ {Names[n] : n \in {k \in 1..5 : k <= 6}}
       = {Names[n] : n \in {k \in 1..5 : k <= 5}}
<1>1. {k \in 1..5 : k <= 3} = {1, 2, 3} /\ {k \in 1..5 : k <= 4} = {1, 2, 3, 4}
      /\ {k \in 1..5 : k <= 5} = {1, 2, 3, 4, 5}
      /\ {k \in 1..5 : k <= 6} = {1, 2, 3, 4, 5}
  OBVIOUS
<1>2. Names[4] = "table" /\ Names[5] = "vtable"
  BY DEF Names
<1> QED BY <1>1, <1>2

LEMMA PageInitStep ==
  ASSUME VmmInv, PageInit
  PROVE  VmmInv'
<1>1. CASE stage' = "fault"
  BY <1>1, FaultStep DEF PageInit, Become
<1>2. CASE stage' # "fault"
  <2>1. /\ stage = "page" /\ stage' = "vtable" /\ SkHasRoom(sk, 8 * KB)
        /\ UNCHANGED <<mach, given, vtab, from>> /\ sk' = SkTake(sk, 8 * KB)
        /\ place' = Extend(place, "table", PageAlign(SkPlace(sk)))
        /\ dir' = Extend(dir, LoadIndex, mach.tep - 1)
    BY <1>2 DEF PageInit, Fault, Become
  <2>2. Placed = 3 /\ Placed' = 4
    BY <2>1 DEF Placed
  <2>3. /\ mach \in Machines /\ SkPlace(sk) = BootStart + Slot(4)
        /\ Slot(4) + 8192 <= BootSize
        /\ sk' = [start |-> BootStart, size |-> BootSize, alloc |-> Slot(5)]
        /\ Slot(5) \in 0..(BootSize + 1) /\ BootStart \in Nat /\ BootSize \in Nat
    BY <2>1, <2>2, TakeSlot
  <2>4. \A n : Slot(n)' = Slot(n)
    BY <2>1, SameMachine
  <2>5. /\ DOMAIN place' = DOMAIN place \cup {"table"}
        /\ place'["table"] = PageAlign(BootStart + Slot(4))
        /\ \A x \in DOMAIN place : x # "table" => place'[x] = place[x]
    BY <2>1, <2>3 DEF Extend
  <2>6. TypeOK'
    <3>1. sk' \in [start: Nat, size: Nat, alloc: 0..(sk'.size+1)]
      BY <2>3
    <3> QED BY <2>1, <2>5, <3>1 DEF VmmInv, TypeOK
  <2>7. BootInv'
    <3>1. /\ DOMAIN place = {Names[n] : n \in {k \in 1..5 : k <= 3}}
          /\ place["MemoryArray"] = BootStart + Slot(1)
          /\ place["PagesAlloc"] = BootStart + Slot(2)
          /\ place["addr"] = BootStart + Slot(3)
          /\ Slot(4) <= BootSize + 1
          /\ DOMAIN place = {"MemoryArray", "PagesAlloc", "addr"}
      <4>1. {Names[n] : n \in {k \in 1..5 : k <= 3}}
              = {"MemoryArray", "PagesAlloc", "addr"}
        <5>1. {k \in 1..5 : k <= 3} = {1, 2, 3}
          OBVIOUS
        <5> QED BY <5>1 DEF Names
      <4> QED BY <2>1, <2>2, <4>1 DEF VmmInv, BootInv
    <3>2. DOMAIN place' = {Names[n] : n \in {k \in 1..5 : k <= 4}}
      BY <2>5, <3>1, PlacedNames
    <3>3. /\ place'["MemoryArray"] = BootStart + Slot(1)
          /\ place'["PagesAlloc"] = BootStart + Slot(2)
          /\ place'["addr"] = BootStart + Slot(3)
      BY <2>5, <3>1
    <3>4. \A n \in 4..6 : n <= 4 => n = 4
      OBVIOUS
    <3> QED BY <2>1, <2>2, <2>3, <2>4, <2>5, <3>1, <3>2, <3>3, <3>4 DEF BootInv, Booting
  <2>8. HeapInv'
    BY <2>1, NoTables
  <2>9. MemInv'
    BY <2>1, SameMachine DEF VmmInv, MemInv, Numbers
  <2>10. DirInv'
    <3>1. DOMAIN dir = {} /\ DOMAIN vtab = {}
      BY <2>1, <2>2 DEF VmmInv, DirInv, HeapInv, Filling
    <3>2. DOMAIN dir' = {LoadIndex} /\ dir'[LoadIndex] = mach.tep - 1
      BY <2>1, <3>1 DEF Extend
    <3> QED BY <2>1, <3>1, <3>2 DEF DirInv
  <2> QED BY <2>6, <2>7, <2>8, <2>9, <2>10 DEF VmmInv
<1> QED BY <1>1, <1>2

(* What a step keeps that adds no structure by name.                       *)
LEMMA PlacesStay ==
  ASSUME VmmInv, Placed \in 3..6, stage # "fault", place' = place, mach' = mach
  PROVE  /\ Slot(4) <= BootSize + 1
         /\ place'["MemoryArray"] = BootStart + Slot(1)'
         /\ place'["PagesAlloc"] = BootStart + Slot(2)'
         /\ place'["addr"] = BootStart + Slot(3)'
         /\ \A n \in 4..6 : n <= Placed => Slot(n)' + 8192 <= BootSize
         /\ Placed >= 4 => place'["table"] = PageAlign(BootStart + Slot(4)')
         /\ Placed >= 5 => place'["vtable"] = PageAlign(BootStart + Slot(5)')
         /\ DOMAIN place' = {Names[n] : n \in {k \in 1..5 : k <= Placed}}
  BY SameMachine DEF VmmInv, BootInv

LEMMA VtableInitStep ==
  ASSUME VmmInv, VtableInit
  PROVE  VmmInv'
<1>1. CASE stage' = "fault"
  BY <1>1, FaultStep DEF VtableInit, Become
<1>2. CASE stage' # "fault"
  <2>1. /\ stage = "vtable" /\ stage' = "static" /\ SkHasRoom(sk, 8 * KB)
        /\ UNCHANGED <<mach, given, dir, from>> /\ sk' = SkTake(sk, 8 * KB)
        /\ place' = Extend(place, "vtable", PageAlign(SkPlace(sk)))
        /\ vtab' = Extend(vtab, LoadIndex, (mach.tep - 1) * PageSize)
    BY <1>2 DEF VtableInit, Fault, Become
  <2>2. Placed = 4 /\ Placed' = 5
    BY <2>1 DEF Placed
  <2>3. /\ mach \in Machines /\ SkPlace(sk) = BootStart + Slot(5)
        /\ Slot(5) + 8192 <= BootSize
        /\ sk' = [start |-> BootStart, size |-> BootSize, alloc |-> Slot(6)]
        /\ Slot(6) \in 0..(BootSize + 1) /\ BootStart \in Nat /\ BootSize \in Nat
    BY <2>1, <2>2, TakeSlot
  <2>4. \A n : Slot(n)' = Slot(n)
    BY <2>1, SameMachine
  <2>5. /\ DOMAIN place' = DOMAIN place \cup {"vtable"}
        /\ place'["vtable"] = PageAlign(BootStart + Slot(5))
        /\ \A x \in DOMAIN place : x # "vtable" => place'[x] = place[x]
    BY <2>1, <2>3 DEF Extend
  <2>6. /\ DOMAIN vtab = {} /\ DOMAIN from = {} /\ DOMAIN vtab' = {LoadIndex}
        /\ vtab'[LoadIndex] = (mach.tep - 1) * PageSize
    <3>1. DOMAIN vtab = {} /\ DOMAIN from = {}
      BY <2>1, <2>2 DEF VmmInv, HeapInv, Filling
    <3> QED BY <2>1, <3>1 DEF Extend
  <2>7. TypeOK'
    <3>1. sk' \in [start: Nat, size: Nat, alloc: 0..(sk'.size+1)]
      BY <2>3
    <3>2. DOMAIN vtab' \subseteq 768..1023 /\ DOMAIN from' \subseteq DOMAIN vtab'
      BY <2>1, <2>6 DEF LoadIndex
    <3>3. mach' \in Machines /\ given' \in Nat /\ stage' = "static"
          /\ DOMAIN place' \subseteq {"MemoryArray", "PagesAlloc", "addr", "table", "vtable"}
      BY <2>1, <2>5 DEF VmmInv, TypeOK
    <3> QED BY <3>1, <3>2, <3>3 DEF TypeOK
  <2>8. BootInv'
    <3>1. /\ DOMAIN place = {Names[n] : n \in {k \in 1..5 : k <= 4}}
          /\ place["MemoryArray"] = BootStart + Slot(1)
          /\ place["PagesAlloc"] = BootStart + Slot(2)
          /\ place["addr"] = BootStart + Slot(3)
          /\ place["table"] = PageAlign(BootStart + Slot(4))
          /\ Slot(4) <= BootSize + 1 /\ Slot(4) + 8192 <= BootSize
          /\ DOMAIN place = {"MemoryArray", "PagesAlloc", "addr", "table"}
      <4>1. {Names[n] : n \in {k \in 1..5 : k <= 4}}
              = {"MemoryArray", "PagesAlloc", "addr", "table"}
        <5>1. {k \in 1..5 : k <= 4} = {1, 2, 3, 4}
          OBVIOUS
        <5> QED BY <5>1 DEF Names
      <4> QED BY <2>1, <2>2, <4>1 DEF VmmInv, BootInv
    <3>2. DOMAIN place' = {Names[n] : n \in {k \in 1..5 : k <= 5}}
      BY <2>5, <3>1, PlacedNames
    <3>3. /\ place'["MemoryArray"] = BootStart + Slot(1)
          /\ place'["PagesAlloc"] = BootStart + Slot(2)
          /\ place'["addr"] = BootStart + Slot(3)
          /\ place'["table"] = PageAlign(BootStart + Slot(4))
      BY <2>5, <3>1
    <3>4. \A n \in 4..6 : n <= 5 => n = 4 \/ n = 5
      OBVIOUS
    <3> QED BY <2>1, <2>2, <2>3, <2>4, <2>5, <2>6, <3>1, <3>2, <3>3, <3>4
            DEF BootInv, Booting
  <2>9. HeapInv'
    BY <2>1, <2>2, <2>6 DEF HeapInv, Filling
  <2>10. MemInv'
    BY <2>1, SameMachine DEF VmmInv, MemInv, Numbers
  <2>11. DirInv'
    <3>1. DOMAIN dir = {LoadIndex} /\ dir[LoadIndex] = mach.tep - 1
      BY <2>1 DEF VmmInv, DirInv
    <3>2. PICK b, t, k \in Nat : /\ mach.base = b /\ mach.tep = t /\ mach.kernel = k
                                 /\ b + 2 <= t /\ t + 20 <= k /\ k < TepFirst
      BY <2>3, MachineFields
    <3>3. PICK a : a = (t - 1) * PageSize
      OBVIOUS
    <3>4. a \in Nat /\ a < TableBytes /\ a \div PageSize = t - 1
      BY <3>2, <3>3 DEF TepFirst, PageSize, TableBytes, MB, KB
    <3>5. BootEntry(t - 1) \div PageSize = t - 1
      <4>1. t - 1 \in 0..TepEnd /\ t - 1 < k
        BY <3>2 DEF TepFirst, TepEnd
      <4>2. BootEntry(t - 1) = (t - 1) * 4096 + 3
        BY <3>2, <4>1, BootValues DEF BootIs
      <4> QED BY <3>2, <4>2 DEF PageSize
    <3>6. Settled(a) /\ VirtToPhy(a) = t - 1
      BY <3>4, <3>5, VirtBoot DEF Settled
    <3>7. Settled(a)' /\ VirtToPhy(a)' = t - 1
      BY <2>1, <3>6, SettledStays
    <3>8. vtab'[LoadIndex] = a /\ dir'[LoadIndex] = t - 1 /\ DOMAIN dir' = {LoadIndex}
      BY <2>1, <2>6, <3>1, <3>2, <3>3
    <3> QED BY <2>1, <2>6, <3>7, <3>8 DEF DirInv
  <2> QED BY <2>7, <2>8, <2>9, <2>10, <2>11 DEF VmmInv
<1> QED BY <1>1, <1>2

LEMMA FillStaticStep ==
  ASSUME VmmInv, FillStatic
  PROVE  VmmInv'
<1>1. CASE stage' = "fault"
  BY <1>1, FaultStep DEF FillStatic, Become
<1>2. CASE stage' # "fault"
  <2>1. /\ stage = "static" /\ stage' = "heap" /\ SkHasRoom(sk, 8 * KB)
        /\ UNCHANGED <<mach, place>>
        /\ sk' = [start |-> TableBytes, size |-> 4 * MB, alloc |-> 0]
        /\ vtab' = Extend(vtab, StaticIndex, PageAlign(SkPlace(sk)))
        /\ dir' = Extend(dir, StaticIndex, VirtToPhy(PageAlign(SkPlace(sk))))
        /\ from' = Extend(from, StaticIndex, given) /\ given' = given + 1024
    BY <1>2 DEF FillStatic, FillTable, NewTable, Fault, Become
  <2>2. Placed = 5 /\ Placed' = 6
    BY <2>1 DEF Placed
  <2>3. /\ mach \in Machines /\ SkPlace(sk) = BootStart + Slot(6)
        /\ SkPlace(sk) \in Nat /\ Slot(6) + 8192 <= BootSize
    BY <2>1, <2>2, TakeSlot
  <2>4. /\ \A n : Slot(n)' = Slot(n)
        /\ Slot(6) \in Nat
    BY <2>1, <2>3, SameMachine, SlotFacts
  <2>5. /\ DOMAIN vtab = {LoadIndex} /\ DOMAIN from = {}
        /\ vtab[LoadIndex] = (mach.tep - 1) * PageSize
        /\ DOMAIN vtab' = {LoadIndex, StaticIndex} /\ DOMAIN from' = {StaticIndex}
        /\ vtab'[LoadIndex] = vtab[LoadIndex]
        /\ vtab'[StaticIndex] = PageAlign(BootStart + Slot(6))
        /\ from'[StaticIndex] = given
    <3>1. /\ DOMAIN vtab = {LoadIndex} /\ DOMAIN from = {}
          /\ vtab[LoadIndex] = (mach.tep - 1) * PageSize
      BY <2>1, <2>2 DEF VmmInv, HeapInv, BootInv, Filling
    <3>2. LoadIndex # StaticIndex
      BY IndexFacts
    <3> QED BY <2>1, <2>3, <3>1, <3>2 DEF Extend
  <2>6. given \in Nat /\ given = First + 1024 * Cardinality(DOMAIN from)
    BY <2>1 DEF VmmInv, TypeOK, MemInv
  <2>7. TypeOK'
    <3>1. sk' \in [start: Nat, size: Nat, alloc: 0..(sk'.size+1)]
      <4>1. TableBytes \in Nat /\ 4 * MB = TableBytes
        BY DEF TableBytes, MB, KB
      <4>2. sk' = [start |-> TableBytes, size |-> TableBytes, alloc |-> 0]
        BY <2>1, <4>1
      <4> QED BY <4>1, <4>2
    <3>2. DOMAIN vtab' \subseteq 768..1023 /\ DOMAIN from' \subseteq DOMAIN vtab'
      BY <2>5 DEF LoadIndex, StaticIndex
    <3>3. mach' \in Machines /\ given' \in Nat /\ stage' = "heap"
          /\ DOMAIN place' \subseteq {"MemoryArray", "PagesAlloc", "addr", "table", "vtable"}
      BY <2>1, <2>6 DEF VmmInv, TypeOK
    <3> QED BY <3>1, <3>2, <3>3 DEF TypeOK
  <2>8. BootInv'
    <3>1. \A n \in 4..6 : n <= 5 \/ n = 6
      OBVIOUS
    <3>2. 5 \in 3..6
      OBVIOUS
    <3>3. \A n \in 4..6 : Slot(n)' + 8192 <= BootSize
      BY <2>1, <2>2, <2>3, <2>4, <3>1, <3>2, PlacesStay
    <3>4. DOMAIN place' = {Names[n] : n \in {k \in 1..5 : k <= 6}}
      BY <2>1, <2>2, <3>2, PlacesStay, PlacedNames
    <3> QED BY <2>1, <2>2, <2>4, <2>5, <3>2, <3>3, <3>4, PlacesStay DEF BootInv, Booting
  <2>9. HeapInv'
    <3>1. Cardinality({StaticIndex}) = 1
      BY FS_Singleton
    <3>2. ~(HeapIndexes \subseteq DOMAIN vtab')
      <4>1. 770 \in HeapIndexes /\ 770 \notin {LoadIndex, StaticIndex}
        BY DEF HeapIndexes, LoadIndex, StaticIndex
      <4> QED BY <2>5, <4>1
    <3>3. sk'.start = TableBytes /\ sk'.size = TableBytes /\ sk'.alloc = 0
      BY <2>1 DEF TableBytes
    <3>4. HeapTables' = {}
      BY <2>5 DEF HeapTables
    <3> QED BY <2>1, <2>2, <2>5, <3>1, <3>2, <3>3, <3>4
            DEF HeapInv, HeapTaken, HeapPlaces, Filling
  <2>10. MemInv'
    <3>1. StaticIndex \notin DOMAIN from /\ stage' \in Filling
      BY <2>1, <2>5 DEF Filling
    <3>2. MemInv
      BY DEF VmmInv
    <3> QED BY <2>1, <2>3, <2>5, <2>6, <3>1, <3>2, MoreAnswers
  <2>11. DirInv'
    <3>1. PICK a : a = PageAlign(SkPlace(sk))
      OBVIOUS
    <3>2. Settled(a)
      <4>1. a \in Nat /\ a <= BootStart + Slot(6) + PageSize
        BY <2>3, <3>1, PageAlignFacts
      <4> QED BY <2>3, <2>4, <4>1 DEF Settled, BootStart, BootSize, PageSize, TableBytes, MB, KB
    <3>3. StaticStays /\ stage' \in Filling /\ DOMAIN vtab # {}
      BY <2>1, <2>5 DEF StaticStays, Filling
    <3>4. DirInv /\ vtab' = Extend(vtab, StaticIndex, a)
          /\ dir' = Extend(dir, StaticIndex, VirtToPhy(a)) /\ mach' = mach
      BY <2>1, <3>1 DEF VmmInv
    <3> QED BY <3>2, <3>3, <3>4, NewDirEntry
  <2> QED BY <2>7, <2>8, <2>9, <2>10, <2>11 DEF VmmInv
<1> QED BY <1>1, <1>2

(* Another table, from the static heap that the first one holds.           *)
LEMMA TableFromHeap ==
  ASSUME VmmInv, stage \in {"heap", "framebuffer"}, SkHasRoom(sk, 8 * KB),
         mach' = mach, place' = place,
         NEW i, i \in HeapIndexes \cup {FrameBufferIndex}, i \notin DOMAIN vtab,
         NEW a, a = PageAlign(SkPlace(sk)), vtab' = Extend(vtab, i, a),
         dir' = Extend(dir, i, VirtToPhy(a)), sk' = SkTake(sk, 8 * KB),
         stage' \in Filling, StaticStays
  PROVE  /\ BootInv' /\ DirInv'
         /\ sk' \in [start: Nat, size: Nat, alloc: 0..(sk'.size+1)]
         /\ DOMAIN vtab' = DOMAIN vtab \cup {i} /\ DOMAIN vtab' \subseteq 768..1023
         /\ sk'.start = TableBytes /\ sk'.size = TableBytes
         /\ sk.alloc \in Nat /\ sk'.alloc = sk.alloc + 8193
         /\ HeapPlaces'
<1>1. /\ sk.start = TableBytes /\ sk.size = TableBytes /\ sk.alloc \in Nat
      /\ TableBytes \in Nat /\ sk.alloc + 8192 <= TableBytes
      /\ stage \in Filling /\ stage # "done"
  BY DEF VmmInv, TypeOK, HeapInv, Filling, SkHasRoom, TableBytes, MB, KB
<1>2. /\ sk'.start = TableBytes /\ sk'.size = TableBytes
      /\ sk'.alloc = sk.alloc + 8193
      /\ sk' \in [start: Nat, size: Nat, alloc: 0..(sk'.size+1)]
  <2>1. sk' = [start |-> TableBytes, size |-> TableBytes, alloc |-> sk.alloc + 8193]
    BY <1>1 DEF VmmInv, TypeOK, SkTake, KB
  <2> QED BY <1>1, <2>1
<1>3. /\ a \in Nat /\ a > TableBytes + sk.alloc /\ a % PageSize = 0
      /\ a <= TableBytes + sk.alloc + PageSize
  <2>1. SkPlace(sk) \in Nat /\ SkPlace(sk) = TableBytes + sk.alloc
    BY <1>1 DEF SkPlace
  <2> QED BY <2>1, PageAlignFacts
<1>4. /\ DOMAIN vtab' = DOMAIN vtab \cup {i} /\ vtab'[i] = a
      /\ \A j \in DOMAIN vtab : vtab'[j] = vtab[j]
  BY DEF Extend
<1>5. i \notin {LoadIndex, StaticIndex} /\ {LoadIndex, StaticIndex} \subseteq DOMAIN vtab
  BY <1>1, IndexFacts DEF VmmInv, HeapInv
<1>6. HeapTables' = HeapTables \cup {i} /\ HeapTables \subseteq DOMAIN vtab
  BY <1>4, <1>5 DEF HeapTables
<1>7. ASSUME NEW j \in HeapTables
      PROVE  /\ vtab[j] \in Nat /\ vtab[j] % PageSize = 0 /\ TableBytes <= vtab[j]
             /\ vtab[j] + PageSize <= TableBytes + sk.alloc
             /\ vtab'[j] = vtab[j]
  BY <1>1, <1>4, <1>6 DEF VmmInv, HeapInv, HeapPlaces
<1>8. \A j \in HeapTables' :
        /\ vtab'[j] \in Nat /\ vtab'[j] % PageSize = 0
        /\ TableBytes <= vtab'[j]
        /\ vtab'[j] + PageSize <= TableBytes + sk'.alloc
  <2> SUFFICES ASSUME NEW j \in HeapTables'
               PROVE  /\ vtab'[j] \in Nat /\ vtab'[j] % PageSize = 0
                      /\ TableBytes <= vtab'[j]
                      /\ vtab'[j] + PageSize <= TableBytes + sk'.alloc
    OBVIOUS
  <2>1. CASE j = i
    BY <1>1, <1>2, <1>3, <1>4, <2>1 DEF PageSize
  <2>2. CASE j # i
    <3>1. j \in HeapTables
      BY <1>6, <2>2
    <3> QED BY <1>1, <1>2, <1>7, <3>1 DEF PageSize
  <2> QED BY <2>1, <2>2
<1>9. \A j, l \in HeapTables' : j # l => vtab'[j] # vtab'[l]
  <2>1. \A j \in HeapTables : vtab'[j] # a
    BY <1>1, <1>3, <1>7 DEF PageSize
  <2>2. \A j, l \in HeapTables : j # l => vtab[j] # vtab[l]
    BY <1>1 DEF VmmInv, HeapInv, HeapPlaces
  <2> QED BY <1>4, <1>6, <1>7, <2>1, <2>2
<1>10. DOMAIN vtab' \subseteq 768..1023
  <2>1. i \in 768..1023
    BY DEF HeapIndexes, FrameBufferIndex
  <2> QED BY <1>4, <2>1 DEF VmmInv, TypeOK
<1>11. BootInv'
  <2>1. Placed = 6 /\ Placed' = 6 /\ 6 \in 3..6 /\ stage # "fault" /\ stage' # "fault"
        /\ stage' # "scan" /\ stage' \notin Booting
    BY DEF Placed, Filling, Booting
  <2>2. \A n : Slot(n)' = Slot(n)
    BY SameMachine
  <2>3. \A n \in 4..6 : n <= 6
    OBVIOUS
  <2>4. vtab[LoadIndex] = (mach.tep - 1) * PageSize
        /\ vtab[StaticIndex] = PageAlign(BootStart + Slot(6))
    BY <2>1 DEF VmmInv, BootInv
  <2>5. vtab'[LoadIndex] = vtab[LoadIndex] /\ vtab'[StaticIndex] = vtab[StaticIndex]
    BY <1>4, <1>5
  <2> QED BY <2>1, <2>2, <2>3, <2>4, <2>5, PlacesStay DEF BootInv
<1>12. DirInv'
  <2>1. Settled(a)
    <3>1. StaticIndex \in DOMAIN from /\ a < 2 * TableBytes
      BY <1>1, <1>3 DEF VmmInv, HeapInv, PageSize
    <3> QED BY <1>3, <3>1 DEF Settled
  <2>2. DirInv /\ DOMAIN vtab # {}
    BY <1>5 DEF VmmInv
  <2> QED BY <2>1, <2>2, NewDirEntry
<1>13. HeapPlaces'
  BY <1>8, <1>9 DEF HeapPlaces
<1> QED BY <1>1, <1>2, <1>4, <1>10, <1>11, <1>12, <1>13

(* What HeapInv says of the set-up's last stages.                          *)
LEMMA HeapFacts ==
  ASSUME VmmInv, stage \in {"heap", "framebuffer"}
  PROVE  /\ StaticIndex \in DOMAIN from /\ DOMAIN from \subseteq DOMAIN vtab
         /\ DOMAIN from \subseteq HeapIndexes \cup {StaticIndex}
         /\ DOMAIN vtab = DOMAIN from \cup {LoadIndex}
         /\ sk.alloc = 8193 * (Cardinality(DOMAIN from) - 1)
<1>1. stage \in Filling /\ stage # "done"
  BY DEF Filling
<1>2. /\ sk.alloc \in Nat
      /\ sk.alloc = 8193 * (Cardinality(DOMAIN from) - 1) + 0
  BY <1>1 DEF VmmInv, HeapInv, HeapTaken, TypeOK
<1>3. Cardinality(DOMAIN from) \in Nat
  BY FS_CardinalityType DEF VmmInv, MemInv
<1>4. sk.alloc = 8193 * (Cardinality(DOMAIN from) - 1)
  BY <1>2, <1>3
<1> QED BY <1>1, <1>4 DEF VmmInv, HeapInv

(* What the tables of the heap leave to show of MemInv and HeapInv.        *)
LEMMA FillHeapStep ==
  ASSUME VmmInv, FillHeap
  PROVE  VmmInv'
<1>1. CASE stage' = "fault"
  BY <1>1, FaultStep DEF FillHeap, Become
<1>2. CASE stage' # "fault"
  <2>1. PICK i : i = Smallest(HeapIndexes \ DOMAIN vtab)
    OBVIOUS
  <2>2. /\ stage = "heap" /\ SkHasRoom(sk, 8 * KB)
        /\ stage' = IF HeapIndexes \subseteq DOMAIN vtab' THEN "framebuffer" ELSE "heap"
        /\ UNCHANGED <<mach, place>> /\ sk' = SkTake(sk, 8 * KB)
        /\ vtab' = Extend(vtab, i, PageAlign(SkPlace(sk)))
        /\ dir' = Extend(dir, i, VirtToPhy(PageAlign(SkPlace(sk))))
        /\ from' = Extend(from, i, given) /\ given' = given + 1024
    BY <1>2, <2>1 DEF FillHeap, FillTable, NewTable, Fault, Become
  <2>3. i \in HeapIndexes /\ i \notin DOMAIN vtab
    <3> DEFINE D == HeapIndexes \ DOMAIN vtab
    <3>1. D # {}
      BY <2>2 DEF VmmInv, HeapInv, Filling
    <3>2. PICK n \in Nat : D \in SUBSET (0..n)
      <4>1. D \in SUBSET (0..779) /\ 779 \in Nat
        BY DEF HeapIndexes
      <4> QED BY <4>1
    <3>3. PICK x \in D : \A y \in D : x <= y
      <4> HIDE DEF D
      <4> QED BY <3>1, <3>2, LeastIndexExists
    <3>4. D \subseteq Int
      BY <3>2
    <3> HIDE DEF D
    <3>5. Smallest(D) = x
      BY <3>3, <3>4, SmallestIs
    <3> QED BY <2>1, <3>3, <3>5 DEF D
  <2>4. stage' \in {"heap", "framebuffer"} /\ stage' \in Filling /\ stage \in Filling
    BY <2>2 DEF Filling
  <2>5. /\ StaticIndex \in DOMAIN from /\ DOMAIN from \subseteq DOMAIN vtab
        /\ DOMAIN from \subseteq HeapIndexes \cup {StaticIndex}
        /\ DOMAIN vtab = DOMAIN from \cup {LoadIndex}
        /\ sk.alloc = 8193 * (Cardinality(DOMAIN from) - 1)
    BY <2>2, HeapFacts
  <2>6. /\ DOMAIN from' = DOMAIN from \cup {i}
        /\ \A j \in DOMAIN from : from'[j] = from[j]
    BY <2>2, <2>3, <2>5 DEF Extend
  <2>7. StaticStays /\ i # StaticIndex /\ i \notin DOMAIN from
    BY <2>3, <2>5, <2>6, IndexFacts DEF StaticStays
  <2>8. PICK a : a = PageAlign(SkPlace(sk))
    OBVIOUS
  <2>9. /\ BootInv' /\ DirInv'
        /\ sk' \in [start: Nat, size: Nat, alloc: 0..(sk'.size+1)]
        /\ DOMAIN vtab' = DOMAIN vtab \cup {i} /\ DOMAIN vtab' \subseteq 768..1023
        /\ sk'.start = TableBytes /\ sk'.size = TableBytes
        /\ sk.alloc \in Nat /\ sk'.alloc = sk.alloc + 8193
        /\ HeapPlaces'
    BY <2>2, <2>3, <2>4, <2>7, <2>8, TableFromHeap
  <2>10. /\ mach \in Machines /\ given \in Nat /\ MemInv
         /\ given = First + 1024 * Cardinality(DOMAIN from)
         /\ IsFiniteSet(DOMAIN from)
    BY <2>2 DEF VmmInv, TypeOK, MemInv
  <2>11. TypeOK'
    <3>1. DOMAIN from' \subseteq DOMAIN vtab'
      BY <2>5, <2>6, <2>9
    <3>2. mach' \in Machines /\ given' \in Nat
          /\ DOMAIN place' \subseteq {"MemoryArray", "PagesAlloc", "addr", "table", "vtable"}
      BY <2>2, <2>10 DEF VmmInv, TypeOK
    <3> QED BY <2>4, <2>9, <3>1, <3>2 DEF TypeOK
  <2>12. HeapInv'
    <3>1. /\ Cardinality(DOMAIN from) \in Nat
          /\ Cardinality(DOMAIN from') = Cardinality(DOMAIN from) + 1
      BY <2>6, <2>7, <2>10, FS_AddElement, FS_CardinalityType
    <3>2. sk'.alloc = 8193 * (Cardinality(DOMAIN from') - 1)
      BY <2>5, <2>9, <3>1
    <3>3. /\ StaticIndex \in DOMAIN from'
          /\ DOMAIN from' \subseteq HeapIndexes \cup {StaticIndex}
          /\ DOMAIN vtab' = DOMAIN from' \cup {LoadIndex}
      BY <2>3, <2>5, <2>6, <2>9
    <3>4. stage' = "heap" => ~(HeapIndexes \subseteq DOMAIN vtab')
      BY <2>2
    <3>5. sk'.alloc = HeapTaken'
      BY <2>4, <2>9, <3>1, <3>2 DEF HeapTaken
    <3>6. DOMAIN vtab' = DOMAIN from' \cup {LoadIndex} \cup
            (IF stage' = "done" THEN {FrameBufferIndex} ELSE {})
      BY <2>4, <3>3
    <3>7. stage' \notin Filling \cup {"fault"} => FALSE
      BY <2>4
    <3> QED BY <2>4, <2>9, <3>3, <3>4, <3>5, <3>6, <3>7 DEF HeapInv
  <2>13. MemInv'
    BY <2>2, <2>4, <2>7, <2>10, MoreAnswers
  <2> QED BY <2>9, <2>11, <2>12, <2>13 DEF VmmInv
<1> QED BY <1>1, <1>2

LEMMA MapFrameBufferStep ==
  ASSUME VmmInv, MapFrameBuffer
  PROVE  VmmInv'
<1>1. CASE stage' = "fault"
  BY <1>1, FaultStep DEF MapFrameBuffer, Become
<1>2. CASE stage' # "fault"
  <2>1. PICK i : i = FrameBufferIndex
    OBVIOUS
  <2>2. /\ stage = "framebuffer" /\ stage' = "done" /\ SkHasRoom(sk, 8 * KB)
        /\ UNCHANGED <<mach, given, place, from>> /\ sk' = SkTake(sk, 8 * KB)
        /\ vtab' = Extend(vtab, i, PageAlign(SkPlace(sk)))
        /\ dir' = Extend(dir, i, VirtToPhy(PageAlign(SkPlace(sk))))
    BY <1>2, <2>1 DEF MapFrameBuffer, NewTable, Fault, Become
  <2>3. stage' \in Filling /\ stage \in Filling
    BY <2>2 DEF Filling
  <2>4. /\ StaticIndex \in DOMAIN from /\ DOMAIN from \subseteq DOMAIN vtab
        /\ DOMAIN from \subseteq HeapIndexes \cup {StaticIndex}
        /\ DOMAIN vtab = DOMAIN from \cup {LoadIndex}
        /\ sk.alloc = 8193 * (Cardinality(DOMAIN from) - 1)
    BY <2>2, HeapFacts
  <2>5. i \notin DOMAIN vtab /\ StaticStays
    BY <2>1, <2>2, <2>4, IndexFacts DEF StaticStays
  <2>6. PICK a : a = PageAlign(SkPlace(sk))
    OBVIOUS
  <2>7. /\ BootInv' /\ DirInv'
        /\ sk' \in [start: Nat, size: Nat, alloc: 0..(sk'.size+1)]
        /\ DOMAIN vtab' = DOMAIN vtab \cup {i} /\ DOMAIN vtab' \subseteq 768..1023
        /\ sk'.start = TableBytes /\ sk'.size = TableBytes
        /\ sk.alloc \in Nat /\ sk'.alloc = sk.alloc + 8193
        /\ HeapPlaces'
    BY <2>1, <2>2, <2>3, <2>5, <2>6, TableFromHeap
  <2>8. TypeOK'
    <3>1. DOMAIN from' \subseteq DOMAIN vtab'
      BY <2>2, <2>4, <2>7
    <3>2. mach' \in Machines /\ given' \in Nat
          /\ DOMAIN place' \subseteq {"MemoryArray", "PagesAlloc", "addr", "table", "vtable"}
      BY <2>2 DEF VmmInv, TypeOK
    <3> QED BY <2>2, <2>7, <3>1, <3>2 DEF TypeOK
  <2>9. HeapInv'
    <3>1. sk'.alloc = 8193 * (Cardinality(DOMAIN from') - 1) + 8193
      BY <2>2, <2>4, <2>7
    <3>2. /\ StaticIndex \in DOMAIN from'
          /\ DOMAIN from' \subseteq HeapIndexes \cup {StaticIndex}
          /\ DOMAIN vtab' = DOMAIN from' \cup {LoadIndex} \cup {FrameBufferIndex}
      BY <2>1, <2>2, <2>4, <2>7
    <3>3. sk'.alloc = HeapTaken'
      BY <2>2, <3>1 DEF HeapTaken
    <3>4. DOMAIN vtab' = DOMAIN from' \cup {LoadIndex} \cup
            (IF stage' = "done" THEN {FrameBufferIndex} ELSE {})
      BY <2>2, <3>2
    <3>5. stage' \notin Filling \cup {"fault"} => FALSE
      BY <2>3
    <3>6. stage' = "heap" => FALSE
      BY <2>2
    <3> QED BY <2>3, <2>7, <3>2, <3>3, <3>4, <3>5, <3>6 DEF HeapInv
  <2>10. MemInv'
    BY <2>2, SameMachine DEF VmmInv, MemInv, Numbers
  <2> QED BY <2>7, <2>8, <2>9, <2>10 DEF VmmInv
<1> QED BY <1>1, <1>2

LEMMA VmmInvStep == VmmInv /\ [Next]_vars => VmmInv'
<1> SUFFICES ASSUME VmmInv, [Next]_vars PROVE VmmInv'
  OBVIOUS
<1>1. CASE UNCHANGED vars
  <2>1. UNCHANGED <<mach, stage, sk, given, place, dir, vtab, from>>
    BY <1>1 DEF vars
  <2>2. TypeOK' /\ BootInv' /\ HeapInv'
    <3>1. \A n : Slot(n)' = Slot(n)
      BY <2>1, SameMachine
    <3>2. TypeOK'
      BY <2>1 DEF VmmInv, TypeOK
    <3>3. /\ Placed' = Placed /\ HeapPlaces' = HeapPlaces
          /\ HeapTaken' = HeapTaken
      BY <2>1 DEF Placed, HeapTables, HeapPlaces, HeapTaken
    <3>4. BootInv'
      BY <2>1, <3>1, <3>3 DEF VmmInv, BootInv
    <3>5. HeapInv'
      BY <2>1, <3>3 DEF VmmInv, HeapInv
    <3> QED BY <3>2, <3>4, <3>5
  <2>3. MemInv'
    BY <2>1, SameMachine DEF VmmInv, MemInv, Numbers
  <2>4. DirInv'
    <3>1. \A a : Settled(a)' = Settled(a) /\ VirtToPhy(a)' = VirtToPhy(a)
      BY <2>1, SameMachine DEF Settled, VirtToPhy
    <3> QED BY <2>1, <3>1 DEF VmmInv, DirInv
  <2> QED BY <2>2, <2>3, <2>4 DEF VmmInv
<1>2. CASE Next
  BY <1>2, FindStaticHeapStep, PmmInitStep, ReserveKernelStep, PageInitStep,
     VtableInitStep, FillStaticStep, FillHeapStep, MapFrameBufferStep DEF Next
<1> QED BY <1>1, <1>2

(* The places and sizes above hold from the scan of boot_page_table1 on,   *)
(* on every machine and through every order of the set-up that there is.   *)
THEOREM VmmInvariant == Spec => []VmmInv
<1>1. Init => VmmInv
  BY VmmInvInit
<1>2. VmmInv /\ [Next]_vars => VmmInv'
  BY VmmInvStep
<1> QED BY <1>1, <1>2, PTL DEF Spec

(* The table that the kernel writes an entry to is the one that the MMU    *)
(* walks, on every machine, also when memory runs out.                     *)
THEOREM VmmWalkAgrees == Spec => []WalkAgrees
<1>1. VmmInv => WalkAgrees
  <2> SUFFICES ASSUME VmmInv, DOMAIN vtab # {} PROVE WalkAgrees
    BY DEF WalkAgrees
  <2>1. DOMAIN dir = DOMAIN vtab
    BY DEF VmmInv, DirInv
  <2>2. ASSUME NEW i \in DOMAIN vtab PROVE dir[i] = VirtToPhy(vtab[i])
    BY DEF VmmInv, DirInv
  <2> QED BY <2>1, <2>2 DEF WalkAgrees
<1> QED BY <1>1, VmmInvariant, PTL

(* What the tables map, on a machine with memory enough: the frames from   *)
(* the one after the kernel's to the last that ReservePage has answered.   *)
LEMMA MappedIs ==
  ASSUME VmmInv, Enough, DOMAIN from # {}
  PROVE  /\ mach.base \in Nat /\ First \in Nat /\ given \in Nat /\ First <= given
         /\ UNION {FramesOf(i) : i \in DOMAIN from}
              = (mach.base + First)..(mach.base + given - 1)
<1>1. /\ mach \in Machines /\ given \in Nat /\ \A i \in DOMAIN from : from[i] \in Nat
      /\ given = First + 1024 * Cardinality(DOMAIN from)
      /\ Cardinality(DOMAIN from) \in Nat
      /\ \A n : n \in First..(given - 1) <=> \E i \in DOMAIN from : n \in Numbers(i)
  BY FS_CardinalityType DEF VmmInv, TypeOK, MemInv
<1>2. mach.base \in Nat /\ BitmapBytes \in Nat /\ First \in Nat
  BY <1>1, MachineFacts, FirstBounds
<1>3. PICK b, f, g, l \in Nat : /\ mach.base = b /\ First = f /\ given = g
                                /\ BitmapBytes * 8 = l
  BY <1>1, <1>2
<1>4. f <= g /\ g <= l
  BY <1>1, <1>2, <1>3 DEF Enough
<1>5. \A n \in f..(g - 1) : Answer(n) = b + n
  BY <1>3, <1>4 DEF Answer
<1>6. ASSUME NEW i \in DOMAIN from
      PROVE  FramesOf(i) = {b + n : n \in Numbers(i)} /\ Numbers(i) \subseteq f..(g - 1)
  <2>1. PICK k, w \in Nat : from[i] = k /\ w = 1023
    BY <1>1
  <2>2. Numbers(i) = k..(k + w) /\ FramesOf(i) = {Answer(k + e) : e \in 0..w}
    BY <2>1 DEF Numbers, FramesOf
  <2>3. Numbers(i) \subseteq f..(g - 1)
    BY <1>1, <1>3
  <2>4. \A e \in 0..w : k + e \in k..(k + w) /\ Answer(k + e) = b + (k + e)
    <3>1. \A e \in 0..w : k + e \in k..(k + w)
      OBVIOUS
    <3> QED BY <1>5, <2>2, <2>3, <3>1
  <2>5. \A n \in k..(k + w) : \E e \in 0..w : n = k + e
    <3> SUFFICES ASSUME NEW n \in k..(k + w) PROVE \E e \in 0..w : n = k + e
      OBVIOUS
    <3>1. n - k \in 0..w /\ n = k + (n - k)
      OBVIOUS
    <3> QED BY <3>1
  <2>6. FramesOf(i) = {b + n : n \in k..(k + w)}
    <3>1. ASSUME NEW x
          PROVE  x \in FramesOf(i) <=> \E n \in k..(k + w) : x = b + n
      <4>1. x \in FramesOf(i) <=> \E e \in 0..w : x = Answer(k + e)
        BY <2>2
      <4>2. (\E e \in 0..w : x = Answer(k + e)) <=> \E e \in 0..w : x = b + (k + e)
        BY <2>4
      <4>3. (\E e \in 0..w : x = b + (k + e)) <=> \E n \in k..(k + w) : x = b + n
        BY <2>4, <2>5
      <4> QED BY <4>1, <4>2, <4>3
    <3> QED BY <3>1
  <2> QED BY <2>2, <2>3, <2>6
<1>7. ASSUME NEW x
      PROVE  x \in UNION {FramesOf(i) : i \in DOMAIN from} <=> x \in (b + f)..(b + g - 1)
  <2>1. x \in UNION {FramesOf(i) : i \in DOMAIN from}
          <=> \E i \in DOMAIN from : \E n \in Numbers(i) : x = b + n
    BY <1>6
  <2>2. (\E i \in DOMAIN from : \E n \in Numbers(i) : x = b + n)
          <=> \E n \in f..(g - 1) : x = b + n
    <3>1. \A n : n \in f..(g - 1) <=> \E i \in DOMAIN from : n \in Numbers(i)
      BY <1>1, <1>3
    <3> QED BY <3>1
  <2>3. (\E n \in f..(g - 1) : x = b + n) <=> x \in (b + f)..(b + g - 1)
    <3>1. ASSUME x \in (b + f)..(b + g - 1) PROVE \E n \in f..(g - 1) : x = b + n
      <4>1. x - b \in f..(g - 1) /\ x = b + (x - b)
        BY <3>1
      <4> QED BY <4>1
    <3> QED BY <3>1
  <2> QED BY <2>1, <2>2, <2>3
<1> QED BY <1>3, <1>4, <1>7

(* With memory enough, every page that the tables map has a frame of its   *)
(* own, and none is the kernel's.                                          *)
THEOREM VmmMemoryIsItsOwn == Spec => []MemoryIsItsOwn
<1>1. VmmInv => MemoryIsItsOwn
  <2> DEFINE mapped == UNION {FramesOf(i) : i \in DOMAIN from}
  <2> SUFFICES ASSUME VmmInv, Enough
               PROVE  /\ Cardinality(mapped) = 1024 * Cardinality(DOMAIN from)
                      /\ mapped \cap (0..(mach.kernel - 1)) = {}
    BY DEF MemoryIsItsOwn
  <2>1. CASE DOMAIN from = {}
    <3>1. mapped = {}
      BY <2>1
    <3> QED BY <2>1, <3>1, FS_EmptySet
  <2>2. CASE DOMAIN from # {}
    <3>1. /\ mach \in Machines /\ given = First + 1024 * Cardinality(DOMAIN from)
          /\ Cardinality(DOMAIN from) \in Nat
      BY <2>2, FS_CardinalityType DEF VmmInv, TypeOK, MemInv
    <3>2. /\ mach.base \in Nat /\ First \in Nat /\ given \in Nat /\ First <= given
          /\ mapped = (mach.base + First)..(mach.base + given - 1)
      BY <2>2, MappedIs
    <3> HIDE DEF mapped
    <3>3. PICK c \in Nat : c = Cardinality(DOMAIN from)
      BY <3>1
    <3>4. PICK lo, hi \in Int : lo = mach.base + First /\ hi = mach.base + given - 1
      BY <3>2
    <3>5. hi - lo + 1 = 1024 * c /\ (lo > hi => c = 0)
      <4>1. PICK b, f, g \in Nat : mach.base = b /\ First = f /\ given = g
        BY <3>2
      <4>2. g = f + 1024 * c /\ lo = b + f /\ hi = b + g - 1
        BY <3>1, <3>3, <3>4, <4>1
      <4> QED BY <4>1, <4>2
    <3>6. Cardinality(lo..hi) = 1024 * c
      BY <3>5, FS_Interval
    <3>7. mach.kernel \in Nat /\ lo > mach.kernel
      BY <3>1, <3>4, FirstBounds, MachineFacts
    <3>8. (lo..hi) \cap (0..(mach.kernel - 1)) = {}
      BY <3>7
    <3>9. mapped = lo..hi
      BY <3>2, <3>4
    <3>10. Cardinality(mapped) = 1024 * Cardinality(DOMAIN from)
      BY <3>3, <3>6, <3>9
    <3> QED BY <3>8, <3>9, <3>10
  <2> QED BY <2>1, <2>2
<1> QED BY <1>1, VmmInvariant, PTL

-----------------------------------------------------------------------------
(***************************************************************************)
(* The structures, by where they are: one of the six of TepKmalloc,        *)
(* boot_page_table1, or a table of the static heap's 4 MB.                 *)
(***************************************************************************)
Ranked(s, n) ==
  /\ n \in 1..6 /\ n <= Placed
  /\ s.at \in Nat /\ s.bytes \in Nat
  /\ BootStart + Slot(n) <= s.at
  /\ s.at + s.bytes + 1 <= BootStart + Slot(n + 1)
  /\ s.name = IF n = 6 THEN <<"entries", StaticIndex>> ELSE <<Names[n], 0>>

BootTable(s) == /\ s.at = (mach.tep - 1) * PageSize /\ s.bytes = PageSize
                /\ s.name = <<"entries", LoadIndex>>

HeapTable(s, i) == /\ i \in HeapTables
                   /\ s.at = vtab[i] /\ s.bytes = PageSize /\ s.name = <<"entries", i>>

(* A memory map for which MemoryArray leaves a page of TepKmalloc, and     *)
(* 8 MB of memory.                                                         *)
FewMaps == \A m \in Machines : m.maps <= 6000
Roomy   == \A m \in Machines : m.ram >= 2048

LEMMA PlacedStructure ==
  ASSUME VmmInv, stage # "fault", NEW x \in DOMAIN place,
         NEW s, s = [at |-> place[x], bytes |-> Bytes[x], name |-> <<x, 0>>]
  PROVE  \E n : Ranked(s, n)
<1>1. PICK n \in 1..5 : n <= Placed /\ x = Names[n]
  BY DEF VmmInv, BootInv
<1>2. mach \in Machines /\ BootStart \in Nat
  BY DEF VmmInv, TypeOK, BootStart, PageSize
<1>3. Placed >= 3
  BY <1>1 DEF Placed
<1>4. /\ s.at = place[x] /\ s.bytes = Bytes[x]
      /\ s.name = IF n = 6 THEN <<"entries", StaticIndex>> ELSE <<Names[n], 0>>
  BY <1>1
<1>5. /\ place["MemoryArray"] = BootStart + Slot(1)
      /\ place["PagesAlloc"] = BootStart + Slot(2)
      /\ place["addr"] = BootStart + Slot(3)
      /\ Placed >= 4 => place["table"] = PageAlign(BootStart + Slot(4))
      /\ Placed >= 5 => place["vtable"] = PageAlign(BootStart + Slot(5))
  BY <1>3 DEF VmmInv, BootInv
<1>6. /\ Slot(1) = 0 /\ Slot(2) = MapBytes + 1 /\ Slot(3) = Slot(2) + 9
      /\ Slot(4) = Slot(3) + BitmapBytes + 1 /\ Slot(5) = Slot(4) + 8193
      /\ Slot(6) = Slot(5) + 8193 /\ MapBytes \in Nat /\ BitmapBytes \in Nat
      /\ Slot(2) \in Nat /\ Slot(3) \in Nat /\ Slot(4) \in Nat /\ Slot(5) \in Nat
  BY <1>2, MachineFacts, SlotFacts
<1>7. CASE n = 1
  <2>1. x = "MemoryArray"
    BY <1>1, <1>7 DEF Names
  <2>2. s.at = BootStart + Slot(1) /\ s.bytes = MapBytes
    BY <1>4, <1>5, <2>1 DEF Bytes
  <2>3. Ranked(s, 1)
    BY <1>1, <1>2, <1>4, <1>6, <1>7, <2>2 DEF Ranked
  <2> QED BY <2>3
<1>8. CASE n = 2
  <2>1. x = "PagesAlloc"
    BY <1>1, <1>8 DEF Names
  <2>2. s.at = BootStart + Slot(2) /\ s.bytes = 8
    BY <1>4, <1>5, <2>1 DEF Bytes
  <2>3. Ranked(s, 2)
    BY <1>1, <1>2, <1>4, <1>6, <1>8, <2>2 DEF Ranked
  <2> QED BY <2>3
<1>9. CASE n = 3
  <2>1. x = "addr"
    BY <1>1, <1>9 DEF Names
  <2>2. s.at = BootStart + Slot(3) /\ s.bytes = BitmapBytes
    BY <1>4, <1>5, <2>1 DEF Bytes
  <2>3. Ranked(s, 3)
    BY <1>1, <1>2, <1>4, <1>6, <1>9, <2>2 DEF Ranked
  <2> QED BY <2>3
<1>10. CASE n = 4
  <2>1. x = "table"
    BY <1>1, <1>10 DEF Names
  <2>2. s.at = PageAlign(BootStart + Slot(4)) /\ s.bytes = PageSize
    BY <1>1, <1>4, <1>5, <1>10, <2>1 DEF Bytes
  <2>3. BootStart + Slot(4) \in Nat
    BY <1>2, <1>6
  <2>4. /\ s.at \in Nat /\ s.at > BootStart + Slot(4)
        /\ s.at <= BootStart + Slot(4) + PageSize
    BY <2>2, <2>3, PageAlignFacts
  <2>5. Ranked(s, 4)
    BY <1>1, <1>2, <1>4, <1>6, <1>10, <2>2, <2>4 DEF Ranked, PageSize
  <2> QED BY <2>5
<1>11. CASE n = 5
  <2>1. x = "vtable"
    BY <1>1, <1>11 DEF Names
  <2>2. s.at = PageAlign(BootStart + Slot(5)) /\ s.bytes = PageSize
    BY <1>1, <1>4, <1>5, <1>11, <2>1 DEF Bytes
  <2>3. BootStart + Slot(5) \in Nat
    BY <1>2, <1>6
  <2>4. /\ s.at \in Nat /\ s.at > BootStart + Slot(5)
        /\ s.at <= BootStart + Slot(5) + PageSize
    BY <2>2, <2>3, PageAlignFacts
  <2>5. Ranked(s, 5)
    BY <1>1, <1>2, <1>4, <1>6, <1>11, <2>2, <2>4 DEF Ranked, PageSize
  <2> QED BY <2>5
<1> QED BY <1>1, <1>7, <1>8, <1>9, <1>10, <1>11

LEMMA TableStructure ==
  ASSUME VmmInv, stage # "fault", NEW i \in DOMAIN vtab,
         NEW s, s = [at |-> vtab[i], bytes |-> PageSize, name |-> <<"entries", i>>]
  PROVE  (\E n : Ranked(s, n)) \/ BootTable(s) \/ HeapTable(s, i)
<1>1. s.at = vtab[i] /\ s.bytes = PageSize /\ s.name = <<"entries", i>>
  OBVIOUS
<1>2. Placed >= 5 /\ mach \in Machines /\ (i = StaticIndex => Placed = 6)
  BY IndexFacts DEF VmmInv, TypeOK, HeapInv, Placed, Filling
<1>3. CASE i = LoadIndex
  BY <1>1, <1>2, <1>3 DEF VmmInv, BootInv, BootTable
<1>4. CASE i = StaticIndex
  <2>1. s.at = PageAlign(BootStart + Slot(6)) /\ Placed = 6
    BY <1>1, <1>2, <1>4 DEF VmmInv, BootInv
  <2>2. BootStart \in Nat /\ Slot(6) \in Nat /\ Slot(7) = Slot(6) + 8193
    BY <1>2, SlotFacts DEF BootStart, PageSize
  <2>3. BootStart + Slot(6) \in Nat
    BY <2>2
  <2>4. /\ s.at \in Nat /\ s.at > BootStart + Slot(6)
        /\ s.at <= BootStart + Slot(6) + PageSize
    BY <2>1, <2>3, PageAlignFacts
  <2>5. Ranked(s, 6)
    BY <1>1, <1>4, <2>1, <2>2, <2>4 DEF Ranked, PageSize
  <2> QED BY <2>5
<1>5. CASE i \notin {LoadIndex, StaticIndex}
  BY <1>1, <1>5 DEF HeapTable, HeapTables
<1> QED BY <1>3, <1>4, <1>5

LEMMA Kinds ==
  ASSUME VmmInv, stage # "fault", NEW s \in Structures
  PROVE  (\E n : Ranked(s, n)) \/ BootTable(s) \/ \E i : HeapTable(s, i)
<1>1. CASE \E x \in DOMAIN place :
             s = [at |-> place[x], bytes |-> Bytes[x], name |-> <<x, 0>>]
  BY <1>1, PlacedStructure
<1>2. CASE \E i \in DOMAIN vtab :
             s = [at |-> vtab[i], bytes |-> PageSize, name |-> <<"entries", i>>]
  BY <1>2, TableStructure
<1> QED BY <1>1, <1>2 DEF Structures

LEMMA PageBounds ==
  ASSUME NEW a \in Nat, NEW z \in Nat, NEW lo \in Nat, NEW hi \in Nat,
         lo * PageSize <= a, z < hi * PageSize,
         NEW p \in (a \div PageSize)..(z \div PageSize)
  PROVE  p \in Nat /\ lo <= p /\ p < hi
  BY DEF PageSize

(* Two structures on one page, one behind the other.                       *)
LEMMA SamePage ==
  ASSUME NEW s, NEW t, s.at \in Nat, s.at >= 1, s.bytes \in Nat, t.at \in Nat,
         t.bytes \in Nat, s.at + s.bytes <= t.at,
         NEW p, p \in Pages(s), p \in Pages(t)
  PROVE  Highest(s, p) < Lowest(t, p)
<1>1. PICK a, b, c, d \in Nat : s.at = a /\ s.bytes = b /\ t.at = c /\ t.bytes = d
  OBVIOUS
<1>2. /\ p \in (a \div 4096)..((a + b - 1) \div 4096)
      /\ p \in (c \div 4096)..((c + d - 1) \div 4096)
  BY <1>1 DEF Pages, PageSize
<1>3. p \in Nat /\ p * 4096 <= a + b - 1 /\ a + b <= c /\ c < (p + 1) * 4096 /\ a >= 1
  BY <1>1, <1>2
<1>4. Lowest(t, p) = c % 4096
  BY <1>1, <1>3 DEF Lowest, PageSize
<1>5. Highest(s, p) = (a + b - 1) % 4096
  BY <1>1, <1>3 DEF Highest, PageSize
<1>6. c % 4096 = c - p * 4096 /\ (a + b - 1) % 4096 = a + b - 1 - p * 4096
  BY <1>3
<1> QED BY <1>3, <1>4, <1>5, <1>6

LEMMA SlotEnds ==
  ASSUME VmmInv, stage # "fault", NEW n \in 1..6, n <= Placed
  PROVE  Slot(n + 1) <= BootSize + 1 /\ Slot(n + 1) \in Nat /\ Slot(n) \in Nat
<1>1. mach \in Machines /\ Placed >= 3 /\ BootSize \in Nat
  BY DEF VmmInv, TypeOK, Placed, BootSize, PageSize
<1>2. /\ Slot(1) = 0 /\ Slot(2) = MapBytes + 1 /\ Slot(3) = Slot(2) + 9
      /\ Slot(4) = Slot(3) + BitmapBytes + 1 /\ Slot(5) = Slot(4) + 8193
      /\ Slot(6) = Slot(5) + 8193 /\ Slot(7) = Slot(6) + 8193
      /\ MapBytes \in Nat /\ BitmapBytes \in Nat
  BY <1>1, MachineFacts, SlotFacts
<1>3. Slot(4) <= BootSize + 1 /\ (n \in 4..6 => Slot(n) + 8192 <= BootSize)
  BY <1>1 DEF VmmInv, BootInv
<1>4. n \in {1, 2, 3, 4, 5, 6}
  OBVIOUS
<1> QED BY <1>1, <1>2, <1>3, <1>4

LEMMA RankedPages ==
  ASSUME VmmInv, stage # "fault", NEW s, NEW n, Ranked(s, n)
  PROVE  s.at \in Nat /\ s.bytes \in Nat /\ s.at >= 1
         /\ \A p \in Pages(s) : p \in 1000..1020
<1>1. n \in 1..6 /\ n <= Placed /\ s.at \in Nat /\ s.bytes \in Nat
      /\ BootStart + Slot(n) <= s.at /\ s.at + s.bytes + 1 <= BootStart + Slot(n + 1)
  BY DEF Ranked
<1>2. Slot(n + 1) <= BootSize + 1 /\ Slot(n + 1) \in Nat /\ Slot(n) \in Nat
  BY <1>1, SlotEnds
<1>3. BootStart = 1000 * 4096 /\ BootSize = 21 * 4096
  BY DEF BootStart, BootSize, PageSize
<1>4. s.at >= 1000 * 4096 /\ s.at + s.bytes - 1 < 1021 * 4096
  BY <1>1, <1>2, <1>3
<1>5. \A p \in Pages(s) : p \in 1000..1020
  BY <1>1, <1>4 DEF Pages, PageSize
<1> QED BY <1>1, <1>4, <1>5

(* A structure placed before another ends before it, and before the page   *)
(* that is mapped twice.                                                   *)
LEMMA RankedOrder ==
  ASSUME VmmInv, stage # "fault", FewMaps,
         NEW s, NEW n, Ranked(s, n), NEW t, NEW m, Ranked(t, m), n < m
  PROVE  s.at + s.bytes <= t.at /\ \A p \in Pages(s) : p <= 1018
<1>1. /\ n \in 1..6 /\ s.at \in Nat /\ s.bytes \in Nat
      /\ s.at + s.bytes + 1 <= BootStart + Slot(n + 1)
      /\ m \in 1..6 /\ m <= Placed /\ BootStart + Slot(m) <= t.at /\ t.at \in Nat
  BY DEF Ranked
<1>2. /\ mach \in Machines /\ BootStart = 1000 * 4096 /\ BootSize = 21 * 4096
      /\ BootStart \in Nat
  BY DEF VmmInv, TypeOK, BootSize, BootStart, PageSize
<1>3. /\ Slot(1) = 0 /\ Slot(2) = MapBytes + 1 /\ Slot(3) = Slot(2) + 9
      /\ Slot(4) = Slot(3) + BitmapBytes + 1 /\ Slot(5) = Slot(4) + 8193
      /\ Slot(6) = Slot(5) + 8193
      /\ MapBytes \in Nat /\ BitmapBytes \in Nat
  BY <1>2, MachineFacts, SlotFacts
<1>4. MapBytes <= 12 * 6000
  BY <1>2, MachineFacts DEF MapBytes, FewMaps
<1>5. Slot(n + 1) <= Slot(m) /\ Slot(m) \in Nat
  BY <1>1, <1>3
<1>6. Slot(m) <= 19 * 4096
  <2>1. m \in 4..6 => Slot(m) + 8192 <= BootSize
    BY <1>1 DEF VmmInv, BootInv
  <2>2. m \in {1, 2, 3} \/ m \in 4..6
    BY <1>1
  <2> QED BY <1>2, <1>3, <1>4, <1>5, <2>1, <2>2
<1>7. Slot(n + 1) \in Nat
  <2>1. n \in {1, 2, 3, 4, 5}
    BY <1>1
  <2>2. /\ Slot(2) \in Nat /\ Slot(3) \in Nat /\ Slot(4) \in Nat /\ Slot(5) \in Nat
        /\ Slot(6) \in Nat
    BY <1>3
  <2> QED BY <2>1, <2>2
<1>8. s.at + s.bytes <= t.at /\ s.at + s.bytes - 1 < 1019 * 4096
  BY <1>1, <1>2, <1>5, <1>6, <1>7
<1>9. \A p \in Pages(s) : p <= 1018
  BY <1>1, <1>8 DEF Pages, PageSize
<1> QED BY <1>8, <1>9

(* The frames of the three kinds of structure.                             *)
LEMMA BootFrame ==
  ASSUME mach \in Machines, NEW p \in 1000..1020
  PROVE  Frame(p) = mach.tep + (IF p = 1020 THEN 19 ELSE p - 1000)
<1>1. PICK b, t, k \in Nat : /\ mach.base = b /\ mach.tep = t /\ mach.kernel = k
                             /\ b + 2 <= t /\ t + 20 <= k /\ k < TepFirst
  BY MachineFields
<1>2. PICK a : a = p * PageSize
  OBVIOUS
<1>3. a \in Nat /\ a < TableBytes /\ a \div PageSize = p
  BY <1>2 DEF PageSize, TableBytes, MB, KB
<1>4. Frame(p) = BootEntry(p) \div PageSize
  BY <1>2, <1>3, VirtBoot DEF Frame
<1>5. BootIs(p, k, t, BootEntry(p))
  <2>1. p \in 0..TepEnd
    BY DEF TepEnd
  <2> QED BY <1>1, <2>1, BootValues
<1>6. BootEntry(p) \div 4096 = t + (IF p = 1020 THEN 19 ELSE p - 1000)
  <2>1. CASE p = 1020
    <3>1. BootEntry(p) = t * 4096 + 79875
      BY <1>5, <2>1 DEF BootIs
    <3> QED BY <2>1, <3>1
  <2>2. CASE p # 1020
    <3>1. BootEntry(p) = (t + p - 1000) * 4096 + 3
      BY <1>5, <2>2 DEF BootIs
    <3> QED BY <2>2, <3>1
  <2> QED BY <2>1, <2>2
<1> QED BY <1>1, <1>4, <1>6 DEF PageSize

LEMMA BootTableFrame ==
  ASSUME mach \in Machines, NEW s, BootTable(s), NEW p \in Pages(s)
  PROVE  Frame(p) = mach.tep - 1
<1>1. PICK b, t, k \in Nat : /\ mach.base = b /\ mach.tep = t /\ mach.kernel = k
                             /\ b + 2 <= t /\ t + 20 <= k /\ k < TepFirst
  BY MachineFields
<1>2. p = t - 1 /\ p \in Nat
  <2>1. s.at = (t - 1) * 4096 /\ s.bytes = 4096
    BY <1>1 DEF BootTable, PageSize
  <2>2. p \in (((t - 1) * 4096) \div 4096)..(((t - 1) * 4096 + 4096 - 1) \div 4096)
    BY <2>1 DEF Pages, PageSize
  <2> QED BY <1>1, <2>2
<1>3. PICK a : a = p * PageSize
  OBVIOUS
<1>4. a \in Nat /\ a < TableBytes /\ a \div PageSize = p
  BY <1>1, <1>2, <1>3 DEF PageSize, TableBytes, MB, KB, TepFirst
<1>5. Frame(p) = BootEntry(p) \div PageSize
  BY <1>3, <1>4, VirtBoot DEF Frame
<1>6. BootEntry(p) = p * 4096 + 3
  <2>1. p \in 0..TepEnd /\ p < k
    BY <1>1, <1>2 DEF TepEnd, TepFirst
  <2> QED BY <1>1, <2>1, BootValues DEF BootIs
<1>7. BootEntry(p) \div PageSize = p
  BY <1>2, <1>6 DEF PageSize
<1> QED BY <1>1, <1>2, <1>5, <1>7

LEMMA FewTables ==
  ASSUME IsFiniteSet(DOMAIN from), DOMAIN from \subseteq HeapIndexes \cup {StaticIndex}
  PROVE  Cardinality(DOMAIN from) \in Nat /\ Cardinality(DOMAIN from) <= 11
<1>1. DOMAIN from \subseteq 769..779
  BY DEF HeapIndexes, StaticIndex
<1>2. PICK lo, hi \in Int : lo = 769 /\ hi = 779
  OBVIOUS
<1>3. IsFiniteSet(lo..hi) /\ Cardinality(lo..hi) = 11
  <2>1. ~(lo > hi) /\ hi - lo + 1 = 11
    BY <1>2
  <2> QED BY <2>1, FS_Interval
<1>4. Cardinality(DOMAIN from) <= Cardinality(lo..hi)
  BY <1>1, <1>2, <1>3, FS_Subset
<1> QED BY <1>3, <1>4, FS_CardinalityType

(* The tables of the static heap's 4 MB are in its first 25 pages.         *)
LEMMA HeapTableFrame ==
  ASSUME VmmInv, stage # "fault", Roomy,
         NEW s, NEW i, HeapTable(s, i), NEW p \in Pages(s)
  PROVE  /\ p \in Nat /\ vtab[i] = p * PageSize
         /\ Frame(p) = mach.base + First + (p - 1024) /\ p >= 1024
<1>1. /\ mach \in Machines /\ stage \in Filling /\ i \in HeapTables
      /\ IsFiniteSet(DOMAIN from)
      /\ StaticIndex \in DOMAIN from => from[StaticIndex] = First
  <2>1. HeapTables # {}
    BY DEF HeapTable
  <2>2. stage \in Filling
    BY <2>1 DEF VmmInv, HeapInv, HeapTables
  <2> QED BY <2>2 DEF VmmInv, TypeOK, MemInv, HeapTable
<1>2. /\ StaticIndex \in DOMAIN from
      /\ DOMAIN from \subseteq HeapIndexes \cup {StaticIndex}
      /\ sk.alloc = HeapTaken /\ HeapPlaces
  BY <1>1 DEF VmmInv, HeapInv
<1>3. Cardinality(DOMAIN from) \in Nat /\ Cardinality(DOMAIN from) <= 11
  BY <1>1, <1>2, FewTables
<1>4. HeapTaken \in Int /\ HeapTaken <= 8193 * 11
  BY <1>3 DEF HeapTaken
<1>5. /\ vtab[i] \in Nat /\ vtab[i] % 4096 = 0 /\ 1024 * 4096 <= vtab[i]
      /\ vtab[i] + 4096 <= 1024 * 4096 + 8193 * 11
  <2>1. /\ vtab[i] \in Nat /\ vtab[i] % PageSize = 0
        /\ TableBytes <= vtab[i] /\ vtab[i] + PageSize <= TableBytes + sk.alloc
    BY <1>1, <1>2 DEF HeapPlaces
  <2> QED BY <1>2, <1>4, <2>1 DEF PageSize, TableBytes, MB, KB
<1>6. PICK v \in Nat : v = vtab[i]
  BY <1>5
<1>7. p = v \div 4096 /\ v = p * 4096 /\ p \in 1024..1050
  <2>1. p \in (v \div 4096)..((v + 4096 - 1) \div 4096)
    BY <1>6 DEF HeapTable, Pages, PageSize
  <2> QED BY <1>5, <1>6, <2>1
<1>8. Frame(p) = Answer(First + (p - 1024))
  <2>1. PICK a : a = p * PageSize
    OBVIOUS
  <2>2. a \in Nat /\ TableBytes <= a /\ a < 2 * TableBytes
        /\ (a - TableBytes) \div PageSize = p - 1024
    BY <1>7, <2>1 DEF TableBytes, PageSize, MB, KB
  <2>3. VirtToPhy(a) = Answer(from[StaticIndex] + (a - TableBytes) \div PageSize)
    BY <2>2, VirtStatic
  <2> QED BY <1>1, <1>2, <2>1, <2>2, <2>3 DEF Frame
<1>9. First + (p - 1024) < BitmapBytes * 8
  <2>1. /\ First \in Nat /\ mach.base + First <= mach.kernel + 2 /\ mach.base \in Nat
        /\ mach.kernel \in 0..999 /\ BitmapBytes \in Nat
        /\ mach.ram < BitmapBytes * 8 + 8 /\ mach.ram \in Nat
    BY <1>1, FirstBounds, MachineFacts
  <2>2. mach.ram >= 2048
    BY <1>1 DEF Roomy
  <2>3. PICK b, f, k, l, r \in Nat :
          /\ mach.base = b /\ First = f /\ mach.kernel = k /\ BitmapBytes = l
          /\ mach.ram = r
    <3>1. mach.kernel \in Nat
      BY <2>1
    <3> QED BY <2>1, <3>1
  <2>4. f <= 1001 /\ l * 8 > 2040
    BY <2>1, <2>2, <2>3
  <2> QED BY <1>7, <2>3, <2>4
<1>10. First \in Nat /\ mach.base \in Nat
  BY <1>1, FirstBounds, MachineFacts
<1> QED BY <1>6, <1>7, <1>8, <1>9, <1>10 DEF Answer, PageSize

(* No two structures meet in a frame, whichever is the earlier.            *)
LEMMA RankedApart ==
  ASSUME VmmInv, stage # "fault", FewMaps,
         NEW s, NEW n, Ranked(s, n), NEW t, NEW m, Ranked(t, m), n < m,
         NEW p \in Pages(s), NEW q \in Pages(t), Frame(p) = Frame(q)
  PROVE  Highest(s, p) < Lowest(t, q)
<1>1. /\ s.at \in Nat /\ s.bytes \in Nat /\ s.at >= 1 /\ p \in 1000..1020
      /\ t.at \in Nat /\ t.bytes \in Nat /\ q \in 1000..1020
  BY RankedPages
<1>2. s.at + s.bytes <= t.at /\ p <= 1018
  BY RankedOrder
<1>3. mach \in Machines /\ mach.tep \in Nat
  BY MachineFacts DEF VmmInv, TypeOK
<1>4. p = q
  <2>1. /\ Frame(p) = mach.tep + (IF p = 1020 THEN 19 ELSE p - 1000)
        /\ Frame(q) = mach.tep + (IF q = 1020 THEN 19 ELSE q - 1000)
    BY <1>1, <1>3, BootFrame
  <2>2. PICK c \in Nat : c = mach.tep
    BY <1>3
  <2>3. PICK x : x = Frame(p) /\ x = Frame(q)
    OBVIOUS
  <2>4. x = c + (IF p = 1020 THEN 19 ELSE p - 1000)
    BY <2>1, <2>2, <2>3
  <2>5. x = c + (IF q = 1020 THEN 19 ELSE q - 1000)
    BY ONLY <2>1, <2>2, <2>3
  <2> QED BY <1>1, <1>2, <2>4, <2>5
<1> QED BY <1>1, <1>2, <1>4, SamePage

(* The frame of a page by the kind of structure it holds.                  *)
LEMMA KindFrames ==
  ASSUME VmmInv, stage # "fault", Roomy, NEW s, NEW p \in Pages(s)
  PROVE  /\ (\E n : Ranked(s, n)) => /\ Frame(p) \in Nat
                                     /\ mach.tep <= Frame(p) /\ Frame(p) < mach.kernel
         /\ BootTable(s) => Frame(p) = mach.tep - 1
         /\ \A i : HeapTable(s, i) => Frame(p) \in Nat /\ Frame(p) > mach.kernel
<1>1. mach \in Machines
  BY DEF VmmInv, TypeOK
<1>2. /\ mach.tep \in Nat /\ mach.kernel \in Nat /\ mach.tep + 20 <= mach.kernel
      /\ First \in Nat /\ mach.base \in Nat /\ mach.base + First > mach.kernel
  BY <1>1, MachineFacts, FirstBounds
<1>3. ASSUME NEW n, Ranked(s, n)
      PROVE  /\ Frame(p) \in Nat /\ mach.tep <= Frame(p) /\ Frame(p) < mach.kernel
  <2>1. p \in 1000..1020
    BY <1>3, RankedPages
  <2>2. Frame(p) = mach.tep + (IF p = 1020 THEN 19 ELSE p - 1000)
    BY <1>1, <2>1, BootFrame
  <2> QED BY <1>2, <2>1, <2>2
<1>4. ASSUME NEW i, HeapTable(s, i)
      PROVE  Frame(p) \in Nat /\ Frame(p) > mach.kernel
  <2>1. p \in Nat /\ Frame(p) = mach.base + First + (p - 1024) /\ p >= 1024
    BY <1>4, HeapTableFrame
  <2> QED BY <1>2, <2>1
<1> QED BY <1>1, <1>3, <1>4, BootTableFrame

(* The structures that the kernel lives by share no byte of memory,        *)
(* although a page of TepKmalloc is mapped twice.                          *)
THEOREM VmmStructuresApart ==
  ASSUME FewMaps, Roomy
  PROVE  Spec => []StructuresApart
<1>1. VmmInv => StructuresApart
  <2> SUFFICES ASSUME VmmInv, stage # "fault",
                      NEW s \in Structures, NEW t \in Structures,
                      NEW p \in Pages(s), NEW q \in Pages(t),
                      Frame(p) = Frame(q), s.name # t.name
               PROVE  Highest(s, p) < Lowest(t, q) \/ Highest(t, q) < Lowest(s, p)
    BY DEF StructuresApart, VmmInv
  <2>1. /\ (\E n : Ranked(s, n)) \/ BootTable(s) \/ \E i : HeapTable(s, i)
        /\ (\E n : Ranked(t, n)) \/ BootTable(t) \/ \E i : HeapTable(t, i)
    BY Kinds
  <2>0. mach \in Machines
    BY DEF VmmInv, TypeOK
  <2>2. mach.tep \in Nat /\ mach.kernel \in Nat /\ mach.tep + 20 <= mach.kernel
    <3>1. mach.kernel \in 0..999 /\ mach.tep \in Nat /\ mach.tep + 20 <= mach.kernel
      BY <2>0, MachineFacts
    <3> QED BY ONLY <3>1
  <2>3. ASSUME NEW n, Ranked(s, n), NEW m, Ranked(t, m)
        PROVE  Highest(s, p) < Lowest(t, q) \/ Highest(t, q) < Lowest(s, p)
    <3>1. n \in 1..6 /\ m \in 1..6 /\ n # m
      BY <2>3 DEF Ranked
    <3>2. CASE n < m
      BY <2>3, <3>2, RankedApart
    <3>3. CASE m < n
      BY <2>3, <3>3, RankedApart
    <3> QED BY <3>1, <3>2, <3>3
  <2>4. ASSUME NEW i, HeapTable(s, i), NEW j, HeapTable(t, j)
        PROVE  FALSE
    <3>1. i \in HeapTables /\ j \in HeapTables /\ i # j
      BY <2>4 DEF HeapTable
    <3>2. vtab[i] # vtab[j]
      <4>1. stage \in Filling
        BY <3>1 DEF VmmInv, HeapInv, HeapTables
      <4> QED BY <3>1, <4>1 DEF VmmInv, HeapInv, HeapPlaces
    <3>3. /\ p \in Nat /\ vtab[i] = p * PageSize
          /\ Frame(p) = mach.base + First + (p - 1024) /\ p >= 1024
          /\ q \in Nat /\ vtab[j] = q * PageSize
          /\ Frame(q) = mach.base + First + (q - 1024) /\ q >= 1024
      BY <2>4, HeapTableFrame
    <3>4. First \in Nat /\ mach.base \in Nat
      BY <2>0, FirstBounds, MachineFacts
    <3>5. PICK c \in Nat : c = mach.base + First
      BY <3>4
    <3>6. PICK x : x = Frame(p) /\ x = Frame(q)
      OBVIOUS
    <3>7. p = q
      <4>1. x = c + (p - 1024)
        BY <3>3, <3>5, <3>6
      <4>2. x = c + (q - 1024)
        BY ONLY <3>3, <3>5, <3>6
      <4> QED BY <3>3, <4>1, <4>2
    <3> QED BY <3>2, <3>3, <3>7
  <2>5. ~(BootTable(s) /\ BootTable(t))
    BY DEF BootTable
  <2>6. /\ (\E n : Ranked(s, n)) => /\ Frame(p) \in Nat
                                    /\ mach.tep <= Frame(p) /\ Frame(p) < mach.kernel
        /\ BootTable(s) => Frame(p) = mach.tep - 1
        /\ \A i : HeapTable(s, i) => Frame(p) \in Nat /\ Frame(p) > mach.kernel
    BY KindFrames
  <2>7. /\ (\E n : Ranked(t, n)) => /\ Frame(q) \in Nat
                                    /\ mach.tep <= Frame(q) /\ Frame(q) < mach.kernel
        /\ BootTable(t) => Frame(q) = mach.tep - 1
        /\ \A i : HeapTable(t, i) => Frame(q) \in Nat /\ Frame(q) > mach.kernel
    BY KindFrames
  <2> QED BY <2>1, <2>2, <2>3, <2>4, <2>5, <2>6, <2>7
<1> QED BY <1>1, VmmInvariant, PTL

-----------------------------------------------------------------------------
(***************************************************************************)
(* skmalloc answers every request of the set-up that TepKmalloc has room   *)
(* for, and every one from the 4 MB after it.                              *)
(***************************************************************************)
TepKmallocHolds ==
  12 * mach.maps + 8 + mach.ram \div 8 + 3 * 8 * KB + 5 <= 21 * PageSize

LEMMA RoomInBoot ==
  ASSUME VmmInv, TepKmallocHolds
  PROVE  /\ stage = "pmm" => /\ SkHasRoom(sk, MapBytes)
                             /\ SkHasRoom(SkTake(sk, MapBytes), 8)
                             /\ SkHasRoom(SkTake(SkTake(sk, MapBytes), 8), BitmapBytes)
         /\ stage \in {"page", "vtable", "static"} => SkHasRoom(sk, 8 * KB)
<1>1. mach \in Machines /\ MapBytes \in Nat /\ BitmapBytes \in Nat
  BY MachineFacts DEF VmmInv, TypeOK
<1>2. PICK x, y \in Nat : MapBytes = x /\ BitmapBytes = y
  BY <1>1
<1>3. x + y <= 61427
  BY <1>2 DEF TepKmallocHolds, MapBytes, BitmapBytes, KB, PageSize
<1>4. BootStart = 4096000 /\ BootSize = 86016
  BY DEF BootStart, BootSize, PageSize
<1>5. ASSUME stage = "pmm"
      PROVE  /\ SkHasRoom(sk, MapBytes) /\ SkHasRoom(SkTake(sk, MapBytes), 8)
             /\ SkHasRoom(SkTake(SkTake(sk, MapBytes), 8), BitmapBytes)
  <2>1. sk = [start |-> BootStart, size |-> BootSize, alloc |-> 0]
    BY <1>1, <1>5, SlotFacts DEF VmmInv, BootInv, Booting, Placed
  <2>2. PICK c, d : c = x + 1 /\ d = x + 10
    OBVIOUS
  <2>3. SkTake(sk, MapBytes) = [start |-> BootStart, size |-> BootSize, alloc |-> c]
    <3>1. c = 0 + x + 1
      BY <2>2
    <3> QED BY <1>2, <2>1, <3>1, TakeIs
  <2>4. SkTake([start |-> BootStart, size |-> BootSize, alloc |-> c], 8)
          = [start |-> BootStart, size |-> BootSize, alloc |-> d]
    <3>1. d = c + 8 + 1
      BY <2>2
    <3> QED BY <3>1, TakeIs
  <2>5. SkHasRoom(sk, MapBytes)
    BY <1>2, <1>3, <1>4, <2>1 DEF SkHasRoom
  <2>6. SkHasRoom(SkTake(sk, MapBytes), 8)
    BY <1>3, <1>4, <2>2, <2>3 DEF SkHasRoom
  <2>7. SkHasRoom([start |-> BootStart, size |-> BootSize, alloc |-> d], BitmapBytes)
    BY <1>2, <1>3, <1>4, <2>2 DEF SkHasRoom
  <2> QED BY <2>3, <2>4, <2>5, <2>6, <2>7
<1>6. ASSUME stage \in {"page", "vtable", "static"}
      PROVE  SkHasRoom(sk, 8 * KB)
  <2>1. Placed \in {3, 4, 5}
    BY <1>6 DEF Placed
  <2>2. sk.size = BootSize /\ sk.alloc = Slot(Placed + 1)
    BY <1>6 DEF VmmInv, BootInv, Booting
  <2>3. Slot(4) = x + y + 11 /\ Slot(5) = x + y + 8204 /\ Slot(6) = x + y + 16397
    BY <1>2 DEF Slot
  <2>4. Slot(Placed + 1) + 8192 <= 86016
    BY <1>3, <2>1, <2>3
  <2> QED BY <1>4, <2>2, <2>4 DEF SkHasRoom, KB
<1> QED BY <1>5, <1>6

LEMMA RoomInHeap ==
  ASSUME VmmInv, stage \in {"heap", "framebuffer"}
  PROVE  SkHasRoom(sk, 8 * KB)
<1>1. /\ DOMAIN from \subseteq HeapIndexes \cup {StaticIndex}
      /\ sk.alloc = 8193 * (Cardinality(DOMAIN from) - 1)
  BY HeapFacts
<1>2. Cardinality(DOMAIN from) \in Nat /\ Cardinality(DOMAIN from) <= 11
  BY <1>1, FewTables DEF VmmInv, MemInv
<1>3. sk.size = TableBytes
  BY DEF VmmInv, HeapInv, Filling
<1> QED BY <1>1, <1>2, <1>3 DEF SkHasRoom, TableBytes, MB, KB

(* The set-up comes to its end, with no null answer of skmalloc used, on   *)
(* every machine whose memory map and bitmap fit.                          *)
THEOREM VmmBootHeapLasts == Spec => []BootHeapLasts
<1>1. Init => BootHeapLasts
  BY DEF Init, BootHeapLasts
<1>2. VmmInv /\ BootHeapLasts /\ [Next]_vars => BootHeapLasts'
  <2> SUFFICES ASSUME VmmInv, BootHeapLasts, [Next]_vars,
                      TepKmallocHolds'
               PROVE  stage' # "fault"
    BY DEF BootHeapLasts, TepKmallocHolds
  <2>1. mach' = mach
    BY DEF Next, vars, FindStaticHeap, PmmInit, ReserveKernel, PageInit, VtableInit,
           FillStatic, FillHeap, MapFrameBuffer, FillTable, Fault
  <2>2. TepKmallocHolds
    BY <2>1 DEF TepKmallocHolds
  <2>3. /\ stage = "pmm" => /\ SkHasRoom(sk, MapBytes)
                            /\ SkHasRoom(SkTake(sk, MapBytes), 8)
                            /\ SkHasRoom(SkTake(SkTake(sk, MapBytes), 8), BitmapBytes)
        /\ stage \in {"page", "vtable", "static"} => SkHasRoom(sk, 8 * KB)
    BY <2>2, RoomInBoot
  <2>4. stage \in {"heap", "framebuffer"} => SkHasRoom(sk, 8 * KB)
    BY RoomInHeap
  <2>5. CASE UNCHANGED vars
    BY <2>2, <2>5 DEF vars, BootHeapLasts, TepKmallocHolds
  <2>6. CASE FindStaticHeap \/ ReserveKernel
    BY <2>6 DEF FindStaticHeap, ReserveKernel, Become
  <2>7. CASE PmmInit
    BY <2>3, <2>7 DEF PmmInit, Become
  <2>8. CASE PageInit \/ VtableInit \/ FillStatic
    BY <2>3, <2>8 DEF PageInit, VtableInit, FillStatic, Become
  <2>9. CASE FillHeap \/ MapFrameBuffer
    BY <2>4, <2>9 DEF FillHeap, MapFrameBuffer, Become
  <2> QED BY <2>5, <2>6, <2>7, <2>8, <2>9 DEF Next
<1> QED BY <1>1, <1>2, VmmInvariant, PTL DEF Spec

=============================================================================
