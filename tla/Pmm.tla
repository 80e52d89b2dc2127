-------------------------------- MODULE Pmm ---------------------------------
(***************************************************************************)
(* The physical memory manager (src/System/memory/pmm, src/lib/bitmap): a  *)
(* bit for each page of the installed memory, set while the page is in     *)
(* use.  A page is its address divided by PAGE_SIZE, a bit its place in    *)
(* PagesAlloc.  pmm::init makes MemoryArray of the memory map that GRUB    *)
(* left, and from it learns how many bits there are and what they are of.  *)
(*                                                                         *)
(* The parts of the interface do not agree on the page that a bit stands   *)
(* for: ReservePage counts from the last available region of MemoryArray,  *)
(* freeBlock from the first one less a page, ForcePage from address 0.     *)
(*                                                                         *)
(* held is what the callers make of it: how many of them have been given a *)
(* page and have not given it back.                                        *)
(***************************************************************************)
EXTENDS Integers, FiniteSetsExt, Sequences

CONSTANTS Machines,   \* maps: [given: GRUB's, behind: what the memory behind
                      \* it reads as], sequences of regions
          ByteBits,   \* bits to a byte of PagesAlloc; 8
          MaxBook,    \* bound: pages of a book
          MaxHeld     \* bound: callers that may hold one page

Regions == [first : Nat, pages : Nat, free : BOOLEAN]

ASSUME PmmAssumption == /\ ByteBits \in Nat \ {0}
                        /\ MaxBook \in Nat \ {0} /\ MaxHeld \in Nat \ {0}
                        /\ Machines \subseteq [given : Seq(Regions) \ {<< >>},
                                                behind : Seq(Regions)]

VARIABLES machine,    \* the machine's map
          array,      \* MemoryArray, MemoryArraySize entries of it
          installed,  \* InstalledMemory, in pages
          turn,       \* the entry that pmm::init counts next; the pages that
                      \* ReserveBook has yet to reserve
          pool,       \* [used: the set bits, held: how often each page is held]
          history,    \* which of "free", "force" and "exhausted" have happened
          status      \* "off" until pmm::init, "count" in its last loop, "ok",
                      \* "book" in the loop of ReserveBook, "assert" after
                      \* ASSERT_NOT_REACHED, "stray" once a bit outside
                      \* PagesAlloc has been written

pmmVars == <<machine, array, installed, turn, pool, history, status>>

-----------------------------------------------------------------------------
(***************************************************************************)
(* pmm::init.  Its loops go to the next entry before they look at one, so  *)
(* the first is never seen, and take a length in bytes for one in entries, *)
(* so that they go on far behind the last.  A region at address 0 is left  *)
(* out and not counted, but the index of the array moves on.  An entry     *)
(* that is not written is zero, as the static heap is.                     *)
(***************************************************************************)
Zero == [first |-> 0, pages |-> 0, free |-> FALSE]

Walked(m) == Tail(m.given) \o m.behind
NonNull(m) == {k \in DOMAIN Walked(m) : Walked(m)[k].first > 0}
MemoryEntries(m) == Cardinality(NonNull(m))

Filled(m) ==
  [k \in 1..MemoryEntries(m) |-> IF k \in NonNull(m) THEN Walked(m)[k] ELSE Zero]

EveryEntry(a) == DOMAIN a
Available(a) == {k \in DOMAIN a : a[k].free}

Bits == (installed \div ByteBits) * ByteBits
First == IF Available(array) = {} THEN 0 ELSE array[Min(Available(array))].first
Last  == IF Available(array) = {} THEN 0 ELSE array[Max(Available(array))].first

Bit    == 0..(Bits - 1)
Frames == 0..(Last + Bits - 1)

PmmInit ==
  /\ status = "off"
  /\ array' = Filled(machine)
  /\ turn' = 1
  /\ status' = "count"
  /\ UNCHANGED <<machine, installed, pool, history>>

CountEntry ==
  /\ status = "count" /\ turn \in DOMAIN array
  /\ installed' = IF turn \in Available(array) THEN installed + array[turn].pages ELSE installed
  /\ turn' = turn + 1
  /\ UNCHANGED <<machine, array, pool, history, status>>

MakeBitmap ==
  /\ status = "count" /\ turn \notin DOMAIN array
  /\ pool' = [used |-> {}, held |-> [p \in Frames |-> 0]]
  /\ turn' = 0
  /\ status' = "ok"
  /\ UNCHANGED <<machine, array, installed, history>>

-----------------------------------------------------------------------------
Clear(r) == Bit \ r.used

(***************************************************************************)
(* ReservePage: the bit, which is 0 both when bit 0 is the first clear one *)
(* and when none is clear, and what becomes of the pool.                   *)
(***************************************************************************)
HighestClear(r) ==
  IF Clear(r) = {} THEN 0
  ELSE CHOOSE b \in Clear(r) : \A c \in Clear(r) : c <= b

FirstClear(r) ==
  IF Clear(r) = {} THEN 0
  ELSE CHOOSE b \in Clear(r) : \A c \in Clear(r) : b <= c

PageOf(b) == b + Last

ReserveMarkingNext(r) ==
  [used |-> r.used \cup {FirstClear(r) + 1},
   held |-> [r.held EXCEPT ![PageOf(FirstClear(r))] = @ + 1]]

Reserve(r) ==
  [used |-> r.used \cup {FirstClear(r)},
   held |-> [r.held EXCEPT ![PageOf(FirstClear(r))] = @ + 1]]

(* freeBook: the bits that freeBlock clears.  For the first page of the    *)
(* region the bit is -1, which it takes for an error and leaves alone.     *)
BitFreed(p) == p - First - 1

FreedBits(p, n) == {BitFreed(q) : q \in p..(p + n - 1)} \ {-1}

Returned(r, p, n) ==
  [used |-> r.used \ FreedBits(p, n),
   held |-> [q \in Frames |-> IF q \in p..(p + n - 1) THEN r.held[q] - 1
                              ELSE r.held[q]]]

(* ForceBook: it stops the kernel at the first bit that is set already.    *)
Forced(r, p, n) ==
  [used |-> r.used \cup (p..(p + n - 1)),
   held |-> [q \in Frames |-> IF q \in p..(p + n - 1) THEN r.held[q] + 1
                              ELSE r.held[q]]]

-----------------------------------------------------------------------------
PmmStart ==
  /\ machine \in Machines
  /\ array = << >> /\ installed = 0 /\ turn = 0
  /\ pool = [used |-> {}, held |-> << >>]
  /\ history = {}
  /\ status = "off"

Bounded(r) == \A p \in Frames : r.held[p] <= MaxHeld

(* ReserveBook: a page for its answer, and n - 1 more.                     *)
ReserveBook(n) ==
  /\ status = "ok"
  /\ turn' = n /\ status' = "book"
  /\ UNCHANGED <<machine, array, installed, pool, history>>

ReservePage ==
  /\ status = "book"
  /\ IF Bit = {} THEN status' = "stray" /\ UNCHANGED <<turn, pool>>
     ELSE /\ pool' = Reserve(pool)
          /\ Bounded(pool')
          /\ turn' = turn - 1
          /\ status' = IF turn = 1 THEN "ok" ELSE "book"
  /\ history' = IF Clear(pool) = {} THEN history \cup {"exhausted"} ELSE history
  /\ UNCHANGED <<machine, array, installed>>

(* A caller gives back pages that it was given.                            *)
FreeBook(p, n) ==
  /\ status = "ok"
  /\ p..(p + n - 1) \subseteq {q \in Frames : pool.held[q] > 0}
  /\ pool' = Returned(pool, p, n)
  /\ history' = history \cup {"free"}
  /\ status' = IF FreedBits(p, n) \subseteq Bit THEN "ok" ELSE "stray"
  /\ UNCHANGED <<machine, array, installed, turn>>

FreeBlock(p) == FreeBook(p, 1)

ForceBook(p, n) ==
  /\ status = "ok"
  /\ p..(p + n - 1) \subseteq Bit
  /\ IF p..(p + n - 1) \cap pool.used = {}
     THEN /\ pool' = Forced(pool, p, n)
          /\ Bounded(pool')
          /\ status' = "ok"
     ELSE /\ \E k \in 0..(n - 1) :
               /\ p + k \in pool.used
               /\ p..(p + k - 1) \cap pool.used = {}
               /\ pool' = Forced(pool, p, k)
          /\ Bounded(pool')
          /\ status' = "assert"
  /\ history' = history \cup {"force"}
  /\ UNCHANGED <<machine, array, installed, turn>>

DoReserveBook == \E n \in 1..MaxBook : ReserveBook(n)
DoFreeBlock   == \E p \in Frames : FreeBlock(p)
DoFreeBook    == \E p \in Frames, n \in 2..MaxBook : FreeBook(p, n)
DoForceBook   == \E p \in Bit, n \in 1..MaxBook : ForceBook(p, n)

PmmNext ==
  \/ PmmInit \/ CountEntry \/ MakeBitmap
  \/ DoReserveBook \/ ReservePage
  \/ DoFreeBlock \/ DoFreeBook \/ DoForceBook

PmmSpec == PmmStart /\ [][PmmNext]_pmmVars

-----------------------------------------------------------------------------
(***************************************************************************)
(* Properties.                                                             *)
(***************************************************************************)
BitmapMade == status \notin {"off", "count"}

PmmTypeOK ==
  /\ pool.used \subseteq Bit
  /\ BitmapMade => pool.held \in [Frames -> 0..MaxHeld]
  /\ installed \in Nat /\ turn \in Nat
  /\ history \subseteq {"free", "force", "exhausted"}
  /\ status \in {"off", "count", "ok", "book", "assert", "stray"}

(* While the kernel only reserves, as it does when it boots, and has not   *)
(* run out of pages: no page is given to two callers, and a page is marked *)
(* exactly when someone has it.                                            *)
HandedOutOnce ==
  /\ PmmTypeOK
  /\ BitmapMade /\ history = {} =>
       \A b \in Bit : pool.held[PageOf(b)] = (IF b \in pool.used THEN 1 ELSE 0)

(* And then the pages are given out in address order, none skipped: a book *)
(* is consecutive pages, as freeBook takes it to be, and vmm::init may     *)
(* count on the first n answers being the first n pages of the region.     *)
UsedIsPrefix ==
  history = {} => pool.used = 0..(Cardinality(pool.used) - 1)

(* On a machine with one free region besides the first, whose map names no *)
(* other region at address 0 and has only zeros behind it, what is given   *)
(* out is memory: although the loops of pmm::init go on behind the map,    *)
(* every page that a caller was given lies in that region, also after any  *)
(* number of pages have been freed or memory has run out, and of the       *)
(* region all pages can be had but what does not fill a byte of the        *)
(* bitmap.  With two free regions their lengths are added up and the pages *)
(* run over the end of the last; a null region, or other things behind the *)
(* map, lose regions or add what is none.                                  *)
FreeRegions(s) == {k \in DOMAIN s : s[k].free}
OnePiece(m) ==
  /\ Cardinality(FreeRegions(Tail(m.given))) = 1
  /\ \A k \in DOMAIN Tail(m.given) : Tail(m.given)[k].first > 0
  /\ \A k \in DOMAIN m.behind : m.behind[k] = Zero
Region(m) == Tail(m.given)[CHOOSE k \in FreeRegions(Tail(m.given)) : TRUE]

PagesAreMemory ==
  BitmapMade /\ OnePiece(machine) =>
    LET free == Region(machine)
    IN  /\ Bits > free.pages - ByteBits
        /\ "force" \notin history =>
             \A p \in Frames : pool.held[p] > 0 =>
                p \in free.first..(free.first + free.pages - 1)

=============================================================================
