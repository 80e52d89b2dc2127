--------------------------- MODULE Storage_proofs ---------------------------
(* The disks and their driver, for any machine, sector size and number of   *)
(* calls; and the partitions, the virtual file system and ext2 over them,   *)
(* for any disk, directory tree and paths.                                  *)
EXTENDS Ata, Vfs, NatLemmas, TLAPS, SequenceTheorems

(* What the proofs about the driver turn on is which drive may be in the    *)
(* middle of which command: a drive that serves a read or an IDENTIFY is    *)
(* the one the driver waits for (Shape), as ide_poll and the search leave   *)
(* none behind; only a write, which does not poll, can leave a drive that   *)
(* waits for data, and then the write was late.                             *)

Searching == at.pc \in {"identify", "check", "wait busy", "wait data", "take ident"}
Asking    == at.pc \in {"check", "wait busy", "wait data", "take ident"}

Phases == {"idle", "lag", "busy", "data", "storing", "error"}
Commands == {"none", "identify", "read", "write", "flush"}
Drives == [phase : Phases, cmd : Commands, lba : Lba, moved : Seq(Word)]
Pcs == {"identify", "check", "wait busy", "wait data", "take ident",
        "delay", "poll", "words", "flush", "pause", "up"}

Typed ==
    /\ machine \in Machines /\ selected \in [Bus -> 0 .. 1]
    /\ drive \in [Place -> Drives]
    /\ media \in [Place -> [Lba -> [1 .. Words -> Word]]]
    /\ disks \in Seq([select : 0 .. 3, info : Word])
    /\ buffer \in Seq([1 .. Words -> Word]) /\ Len(buffer) = Len(disks)
    /\ at \in [pc : Pcs, place : Place, call : {"identify", "read", "write"},
               disk : Nat, lba : Nat, word : 0 .. Words]
    /\ history \in [writes : Nat, failed : BOOLEAN, late : BOOLEAN]

Serving(p) == drive[p].phase \in {"lag", "busy", "data"}
Serves(p, cmd) == Serving(p) /\ drive[p].cmd = cmd

(* What a drive can be in the middle of.                                    *)
Shape(p) ==
    /\ ~Present(p) \/ drive[p].phase = "idle" => drive[p] = Resting
    /\ drive[p].phase = "error" => drive[p].cmd = "none" /\ drive[p].moved = <<>>
    /\ drive[p].phase \in {"lag", "busy"} =>
         drive[p].moved = <<>> /\ drive[p].cmd # "none"
    /\ drive[p].phase = "data" =>
         Len(drive[p].moved) < Words /\ drive[p].cmd \in {"identify", "read", "write"}
    /\ drive[p].phase = "storing" =>
         Len(drive[p].moved) = Words /\ drive[p].cmd = "write"
    /\ drive[p].phase = "lag" => p = at.place /\ at.pc \notin {"identify", "poll", "up"}
    /\ Serves(p, "identify") =>
         /\ p = at.place /\ Asking /\ drive[p].moved = <<>>
         /\ drive[p].phase = "data" => machine[p] = "ata"
    /\ Serves(p, "read") =>
         p = at.place /\ at.call = "read" /\ at.pc \in {"delay", "poll", "words"}

(* The table of disks once the first n places have been looked at.          *)
Add(p, found) == IF machine[p] = "ata" THEN Append(found, Listed(p, Name(p))) ELSE found
Found(n) ==
    IF n = 0 THEN <<>>
    ELSE IF n = 1 THEN Add(<<0, 0>>, <<>>)
    ELSE IF n = 2 THEN Add(<<0, 1>>, Add(<<0, 0>>, <<>>))
    ELSE IF n = 3 THEN Add(<<1, 0>>, Add(<<0, 1>>, Add(<<0, 0>>, <<>>)))
    ELSE Add(<<1, 1>>, Add(<<1, 0>>, Add(<<0, 1>>, Add(<<0, 0>>, <<>>))))

Looked == IF Searching THEN SelectOf(at.place) ELSE 4

SearchInv ==
    /\ disks = Found(Looked)
    /\ \A p \in Place : SelectOf(p) < Looked => ~Floating(p[1])
    /\ Searching =>
         /\ at.call = "identify" /\ history.writes = 0
         /\ \A p \in Place : SelectOf(p) > SelectOf(at.place) => drive[p] = Resting
         /\ at.pc = "identify" => drive[at.place] = Resting
    /\ Asking =>
         /\ selected[at.place[1]] = at.place[2]
         /\ Present(at.place) => \/ Serves(at.place, "identify")
                                 \/ drive[at.place].phase = "error" /\ machine[at.place] = "atapi"
    /\ at.pc \in {"wait data", "take ident"} => ~Floating(at.place[1])
    /\ at.pc = "take ident" => drive[at.place].phase = "data" /\ Serves(at.place, "identify")

(* A call is made of a disk of the table.                                   *)
CallInv ==
    /\ at.call = "identify" => Searching \/ at.pc = "up"
    /\ at.call # "identify" =>
         /\ ~Searching /\ at.disk \in DOMAIN disks
         /\ at.place = DriveOf(disks[at.disk].select)
         /\ selected[at.place[1]] = at.place[2]
    /\ at.call = "read" => at.pc # "flush"
    /\ at.call = "write" => at.pc # "poll"
    /\ at.pc = "delay" \/ at.pc = "poll" => at.word = 0
    /\ at.pc \in {"words", "flush"} => at.word < Words

Target == at.lba % LbaLimit
Asks == media[at.place][Target]
Got == buffer[at.disk]

(* A read: either the drive serves it, and the words so far are the         *)
(* sector's, or nothing comes of it.                                        *)
ReadInv ==
    at.call = "read" =>
        /\ Serves(at.place, "read") =>
             /\ drive[at.place].lba = Target
             /\ Len(drive[at.place].moved) = at.word
             /\ \A k \in 1 .. at.word : Got[k] = Asks[k]
        /\ at.pc = "words" /\ ~Serves(at.place, "read") =>
             \A k \in 1 .. at.word : Got[k] = <<"junk">>
        /\ at.pc = "words" => drive[at.place].phase \notin {"lag", "busy"}
        /\ at.pc \in {"pause", "up"} =>
             (drive[at.place].phase = "idle" /\ Got = Asks) \/ Got = Junk

(* Before the first write no drive has anything left to do between calls.   *)
ZeroInv ==
    history.writes = 0 =>
        /\ at.call # "write" /\ media = [p \in Place |-> Sectors(p)]
        /\ \A p \in Place :
             /\ drive[p].cmd \notin {"write", "flush"}
             /\ Serving(p) => drive[p].cmd \in {"identify", "read"}
        /\ at.call = "read" /\ ~history.failed =>
             /\ at.pc \in {"delay", "poll", "words"} => Serves(at.place, "read")
             /\ at.pc \in {"pause", "up"} => Got = Asks

Whole(v) == [k \in 1 .. Words |-> <<v, k>>]
Stored == \/ /\ drive[at.place].phase = "storing" /\ drive[at.place].lba = Target
             /\ drive[at.place].moved = Got
          \/ drive[at.place].cmd # "write" /\ Asks = Got
Refused == history.failed /\ drive[at.place].cmd # "write"
Taking(n) == /\ Serves(at.place, "write") /\ drive[at.place].lba = Target
             /\ Len(drive[at.place].moved) = n
             /\ \A k \in 1 .. n : drive[at.place].moved[k] = Got[k]

(* A write that is not late: the drive takes each word of it, has them all, *)
(* or has refused it.                                                       *)
WriteInv ==
    /\ at.call = "write" => \E v \in Values : Got = Whole(v)
    /\ ~history.late =>
        /\ \A p \in Place, l \in Lba :
             media[p][l] \in {Sectors(p)[l]} \cup {Whole(v) : v \in Values}
        /\ \A p \in Place :
             /\ drive[p].phase = "storing" => \E v \in Values : drive[p].moved = Whole(v)
             /\ Serves(p, "write") =>
                  p = at.place /\ at.call = "write" /\ at.pc \in {"delay", "words", "flush"}
        /\ at.call = "write" =>
             /\ at.pc = "delay" => Refused \/ Taking(0)
             /\ at.pc = "words" => \/ Refused
                                   \/ Taking(at.word) /\ drive[at.place].phase = "data"
             /\ at.pc = "flush" =>
                  \/ Refused
                  \/ Taking(at.word + 1) /\ drive[at.place].phase = "data" /\ at.word + 1 < Words
                  \/ Stored /\ at.word + 1 = Words
             /\ at.pc \in {"pause", "up"} => Refused \/ Stored

AtaInv == /\ Typed /\ (\A p \in Place : Shape(p)) /\ SearchInv /\ CallInv
          /\ ReadInv /\ ZeroInv /\ WriteInv

------------------------------------------------------------------------------
(* Places, words and drives.                                                *)

LEMMA Places == Place = {<<0, 0>>, <<0, 1>>, <<1, 0>>, <<1, 1>>}
<1>1. ASSUME NEW p \in Place
      PROVE  p \in {<<0, 0>>, <<0, 1>>, <<1, 0>>, <<1, 1>>}
  <2>1. PICK a \in {0, 1}, b \in {0, 1} : p = <<a, b>>
    BY DEF Place, Bus
  <2> QED BY <2>1
<1>2. {<<0, 0>>, <<0, 1>>, <<1, 0>>, <<1, 1>>} \subseteq Place
  BY DEF Place, Bus
<1> QED BY <1>1, <1>2

LEMMA PlaceFacts ==
  ASSUME NEW p \in Place
  PROVE  /\ p[1] \in Bus /\ p[2] \in 0 .. 1 /\ <<p[1], p[2]>> = p
         /\ SelectOf(p) \in 0 .. 3 /\ DriveOf(SelectOf(p)) = p
         /\ p = <<1, 1>> => SelectOf(p) = 3
         /\ p # <<1, 1>> => /\ Following(p) \in Place
                            /\ SelectOf(Following(p)) = SelectOf(p) + 1
<1>1. CASE p = <<0, 0>>
  <2>1. p[1] = 0 /\ p[2] = 0 /\ SelectOf(p) = 0 /\ Following(p) = <<0, 1>>
    BY <1>1 DEF SelectOf, Following
  <2>2. DriveOf(0) = <<0, 0>> /\ SelectOf(<<0, 1>>) = 1 /\ <<0, 1>> \in Place
    BY Places DEF DriveOf, SelectOf
  <2> QED BY <1>1, <2>1, <2>2 DEF Bus
<1>2. CASE p = <<0, 1>>
  <2>1. p[1] = 0 /\ p[2] = 1 /\ SelectOf(p) = 1 /\ Following(p) = <<1, 0>>
    BY <1>2 DEF SelectOf, Following
  <2>2. DriveOf(1) = <<0, 1>> /\ SelectOf(<<1, 0>>) = 2 /\ <<1, 0>> \in Place
    BY Places DEF DriveOf, SelectOf
  <2> QED BY <1>2, <2>1, <2>2 DEF Bus
<1>3. CASE p = <<1, 0>>
  <2>1. p[1] = 1 /\ p[2] = 0 /\ SelectOf(p) = 2 /\ Following(p) = <<1, 1>>
    BY <1>3 DEF SelectOf, Following
  <2>2. DriveOf(2) = <<1, 0>> /\ SelectOf(<<1, 1>>) = 3 /\ <<1, 1>> \in Place
    BY Places DEF DriveOf, SelectOf
  <2> QED BY <1>3, <2>1, <2>2 DEF Bus
<1>4. CASE p = <<1, 1>>
  <2>1. p[1] = 1 /\ p[2] = 1 /\ SelectOf(p) = 3
    BY <1>4 DEF SelectOf
  <2>2. DriveOf(3) = <<1, 1>>
    BY DEF DriveOf
  <2> QED BY <1>4, <2>1, <2>2 DEF Bus
<1> QED BY <1>1, <1>2, <1>3, <1>4, Places

LEMMA WordFacts ==
  /\ \A p \in Place, l \in Lba, k \in 1 .. Words : <<p, l, k>> \in Word
  /\ \A v \in Values, k \in 1 .. Words : <<v, k>> \in Word
  /\ \A p \in Place : <<"ident", p>> \in Word
  /\ <<"zero">> \in Word /\ <<"junk">> \in Word
<1>1. \A p \in Place, l \in Lba, k \in 1 .. Words : <<p, l, k>> \in Place \X Lba \X (1 .. Words)
  OBVIOUS
<1>2. \A v \in Values, k \in 1 .. Words : <<v, k>> \in Values \X (1 .. Words)
  OBVIOUS
<1> QED BY <1>1, <1>2 DEF Word

LEMMA Sizes == Words \in Nat /\ Words >= 1 /\ LbaLimit \in Nat /\ LbaLimit >= 1 /\ 0 \in Lba
  BY SizesAssumption DEF Lba

LEMMA NewDrive ==
  ASSUME NEW ph \in Phases, NEW c \in Commands, NEW l \in Lba, NEW w \in Seq(Word)
  PROVE  [phase |-> ph, cmd |-> c, lba |-> l, moved |-> w] \in Drives
  BY DEF Drives

LEMMA RestingFacts ==
  /\ Resting \in Drives /\ Resting.phase = "idle" /\ Resting.cmd = "none"
  /\ Resting.moved = <<>>
  /\ [Resting EXCEPT !.phase = "error"] \in Drives
  /\ [Resting EXCEPT !.phase = "error"].phase = "error"
  /\ [Resting EXCEPT !.phase = "error"].cmd = "none"
  /\ [Resting EXCEPT !.phase = "error"].moved = <<>>
<1>1. [Resting EXCEPT !.phase = "error"]
        = [phase |-> "error", cmd |-> "none", lba |-> 0, moved |-> <<>>]
  BY DEF Resting
<1>2. Resting = [phase |-> "idle", cmd |-> "none", lba |-> 0, moved |-> <<>>]
  BY DEF Resting
<1>3. <<>> \in Seq(Word)
  OBVIOUS
<1> QED BY <1>1, <1>2, <1>3, Sizes DEF Drives, Phases, Commands

(* A step that changes one drive, or none.                                  *)
LEMMA OneDrive ==
  ASSUME Typed, NEW p \in Place, NEW r \in Drives, drive' = [drive EXCEPT ![p] = r]
  PROVE  /\ drive' \in [Place -> Drives] /\ drive'[p] = r
         /\ \A q \in Place : q # p => drive'[q] = drive[q]
  BY DEF Typed

LEMMA DriveType ==
  ASSUME Typed, NEW p \in Place
  PROVE  /\ drive[p] \in Drives /\ drive[p].phase \in Phases /\ drive[p].cmd \in Commands
         /\ drive[p].lba \in Lba /\ drive[p].moved \in Seq(Word)
         /\ drive[p] = [phase |-> drive[p].phase, cmd |-> drive[p].cmd,
                        lba |-> drive[p].lba, moved |-> drive[p].moved]
  BY DEF Typed, Drives

(* A drive takes a command when it has nothing to do, or ignores it.        *)
LEMMA TakenIs ==
  ASSUME Typed, NEW p \in Place, NEW cmd \in Commands, NEW lba \in Lba,
         drive' = Taken(p, cmd, lba)
  PROVE  /\ drive' \in [Place -> Drives]
         /\ \A q \in Place : q # p => drive'[q] = drive[q]
         /\ \/ /\ Present(p) /\ drive[p].phase \in {"idle", "error"}
               /\ drive'[p] = [phase |-> "lag", cmd |-> cmd, lba |-> lba, moved |-> <<>>]
            \/ /\ ~(Present(p) /\ drive[p].phase \in {"idle", "error"})
               /\ drive'[p] = drive[p]
<1>1. CASE Present(p) /\ drive[p].phase \in {"idle", "error"}
  <2>1. PICK r : r = [phase |-> "lag", cmd |-> cmd, lba |-> lba, moved |-> <<>>]
    OBVIOUS
  <2>2. r \in Drives
    BY <2>1 DEF Drives, Phases
  <2>3. drive' = [drive EXCEPT ![p] = r]
    BY <1>1, <2>1 DEF Taken
  <2>4. /\ drive' \in [Place -> Drives] /\ drive'[p] = r
        /\ \A q \in Place : q # p => drive'[q] = drive[q]
    BY <2>2, <2>3, OneDrive
  <2> QED BY <1>1, <2>1, <2>4
<1>2. CASE ~(Present(p) /\ drive[p].phase \in {"idle", "error"})
  <2>1. drive' = drive
    BY <1>2 DEF Taken
  <2> QED BY <1>2, <2>1 DEF Typed
<1> QED BY <1>1, <1>2

LEMMA WordInType ==
  ASSUME Typed, NEW p \in Place, Shape(p)
  PROVE  WordIn(p) \in Word
<1>1. CASE drive[p].phase = "data" /\ drive[p].cmd \in {"identify", "read"}
  <2>1. /\ drive[p].moved \in Seq(Word) /\ Len(drive[p].moved) < Words
        /\ drive[p].lba \in Lba
    BY <1>1, DriveType DEF Shape
  <2>2. Len(drive[p].moved) + 1 \in 1 .. Words
    BY <2>1, Sizes, LenProperties
  <2>3. Holds(p) \in [1 .. Words -> Word]
    BY <2>1, WordFacts DEF Holds, Ident, Typed
  <2> QED BY <1>1, <2>2, <2>3 DEF WordIn
<1> QED BY <1>1, WordFacts DEF WordIn

(* The word goes to a drive that waits for it.                              *)
LEMMA AfterWordIs ==
  ASSUME Typed, NEW p \in Place, Shape(p), NEW w \in Word, drive' = AfterWord(p, w)
  PROVE  /\ drive' \in [Place -> Drives]
         /\ \A q \in Place : q # p => drive'[q] = drive[q]
         /\ drive[p].phase # "data" => drive'[p] = drive[p]
         /\ drive[p].phase = "data" =>
              \E m \in Seq(Word) :
                /\ m = Append(drive[p].moved, w) /\ Len(m) = Len(drive[p].moved) + 1
                /\ \/ /\ Len(m) < Words
                      /\ drive'[p] = [phase |-> "data", cmd |-> drive[p].cmd,
                                      lba |-> drive[p].lba, moved |-> m]
                   \/ /\ Len(m) = Words /\ drive[p].cmd = "write"
                      /\ drive'[p] = [phase |-> "storing", cmd |-> "write",
                                      lba |-> drive[p].lba, moved |-> m]
                   \/ Len(m) = Words /\ drive[p].cmd # "write" /\ drive'[p] = Resting
<1>1. CASE drive[p].phase # "data"
  <2>1. drive' = drive
    BY <1>1 DEF AfterWord
  <2> QED BY <1>1, <2>1 DEF Typed
<1>2. CASE drive[p].phase = "data"
  <2>1. PICK d \in Drives : d = drive[p]
    BY DriveType
  <2>2. PICK m : m = Append(d.moved, w)
    OBVIOUS
  <2>3. d.moved \in Seq(Word) /\ Len(d.moved) < Words /\ d.phase = "data"
    BY <1>2, <2>1, DriveType DEF Shape
  <2>4. m \in Seq(Word) /\ Len(m) = Len(d.moved) + 1 /\ Len(d.moved) \in Nat
    BY <2>2, <2>3, AppendProperties, LenProperties
  <2>5. PICK r : r = IF Len(m) < Words THEN [d EXCEPT !.moved = m]
                     ELSE IF d.cmd = "write" THEN [d EXCEPT !.moved = m, !.phase = "storing"]
                     ELSE Resting
    OBVIOUS
  <2>6. drive' = [drive EXCEPT ![p] = r]
    BY <1>2, <2>1, <2>2, <2>5 DEF AfterWord, Typed
  <2>7. [d EXCEPT !.moved = m] = [phase |-> "data", cmd |-> d.cmd, lba |-> d.lba, moved |-> m]
    BY <2>3 DEF Drives
  <2>8. [d EXCEPT !.moved = m, !.phase = "storing"]
          = [phase |-> "storing", cmd |-> d.cmd, lba |-> d.lba, moved |-> m]
    <3>1. PICK a, b, c, e : d = [phase |-> a, cmd |-> b, lba |-> c, moved |-> e]
      BY DEF Drives
    <3>2. PICK x : x = [d EXCEPT !.moved = m]
      OBVIOUS
    <3>3. x = [phase |-> a, cmd |-> b, lba |-> c, moved |-> m]
      BY <3>1, <3>2
    <3>4. [d EXCEPT !.moved = m, !.phase = "storing"] = [x EXCEPT !.phase = "storing"]
      BY <3>2
    <3>5. [x EXCEPT !.phase = "storing"]
            = [phase |-> "storing", cmd |-> b, lba |-> c, moved |-> m]
      BY <3>3
    <3> QED BY <3>1, <3>4, <3>5
  <2>9. d.cmd \in Commands /\ d.lba \in Lba
    BY DEF Drives
  <2>10. /\ [phase |-> "data", cmd |-> d.cmd, lba |-> d.lba, moved |-> m] \in Drives
         /\ [phase |-> "storing", cmd |-> d.cmd, lba |-> d.lba, moved |-> m] \in Drives
    BY <2>4, <2>9, NewDrive DEF Phases
  <2>11. r \in Drives
    BY <2>5, <2>7, <2>8, <2>10, RestingFacts
  <2>12. /\ drive' \in [Place -> Drives] /\ drive'[p] = r
         /\ \A q \in Place : q # p => drive'[q] = drive[q]
    BY <2>6, <2>11, OneDrive
  <2>13. ~(Len(m) < Words) => Len(m) = Words
    BY <2>3, <2>4, Sizes
  <2>14. \/ Len(m) < Words /\ r = [phase |-> "data", cmd |-> d.cmd, lba |-> d.lba, moved |-> m]
         \/ /\ Len(m) = Words /\ d.cmd = "write"
            /\ r = [phase |-> "storing", cmd |-> "write", lba |-> d.lba, moved |-> m]
         \/ Len(m) = Words /\ d.cmd # "write" /\ r = Resting
    BY <2>5, <2>7, <2>8, <2>13
  <2> QED BY <1>2, <2>1, <2>2, <2>4, <2>12, <2>14
<1> QED BY <1>1, <1>2

------------------------------------------------------------------------------
(* The steps of a drive.                                                    *)

LEMMA PhaseTo ==
  ASSUME Typed, NEW p \in Place, NEW ph \in Phases,
         drive' = [drive EXCEPT ![p].phase = ph]
  PROVE  /\ drive' \in [Place -> Drives]
         /\ \A q \in Place : q # p => drive'[q] = drive[q]
         /\ drive'[p].phase = ph /\ drive'[p].cmd = drive[p].cmd
         /\ drive'[p].lba = drive[p].lba /\ drive'[p].moved = drive[p].moved
<1>1. PICK d \in Drives : d = drive[p]
  BY DriveType
<1>2. PICK r : r = [d EXCEPT !.phase = ph]
  OBVIOUS
<1>3. r \in Drives /\ r.phase = ph /\ r.cmd = d.cmd /\ r.lba = d.lba /\ r.moved = d.moved
  BY <1>2 DEF Drives
<1>4. drive' = [drive EXCEPT ![p] = r]
  BY <1>1, <1>2 DEF Typed
<1> QED BY <1>1, <1>3, <1>4, OneDrive

(* Storing writes the sector and nothing else.                              *)
LEMMA StoreMedia ==
  ASSUME Typed, NEW p \in Place, Shape(p), Store(p)
  PROVE  /\ media' \in [Place -> [Lba -> [1 .. Words -> Word]]]
         /\ \A q \in Place : q # p => media'[q] = media[q]
         /\ \A l \in Lba : l # drive[p].lba => media'[p][l] = media[p][l]
         /\ media'[p][drive[p].lba] = drive[p].moved
<1>1. PICK x \in Lba, m \in Seq(Word) : x = drive[p].lba /\ m = drive[p].moved
  BY DriveType
<1>2. Len(m) = Words
  BY <1>1 DEF Store, Shape
<1>3. m \in [1 .. Words -> Word]
  BY <1>2, LenProperties, ElementOfSeq
<1>4. media' = [media EXCEPT ![p][x] = m]
  BY <1>1 DEF Store
<1>5. PICK f \in [Lba -> [1 .. Words -> Word]] : f = media[p]
  BY DEF Typed
<1>6. PICK g : g = [f EXCEPT ![x] = m]
  OBVIOUS
<1>7. g \in [Lba -> [1 .. Words -> Word]] /\ g[x] = m /\ \A l \in Lba : l # x => g[l] = f[l]
  BY <1>3, <1>6
<1>8. media' = [media EXCEPT ![p] = g]
  BY <1>4, <1>5, <1>6 DEF Typed
<1> QED BY <1>1, <1>5, <1>7, <1>8 DEF Typed

LEMMA DriveStepIs ==
  ASSUME AtaInv, NEW p \in Place, DriveStep(p)
  PROVE  /\ UNCHANGED <<machine, selected, disks, buffer, at>>
         /\ drive' \in [Place -> Drives] /\ \A q \in Place : q # p => drive'[q] = drive[q]
         /\ Present(p) /\ drive[p].phase \in {"lag", "busy", "storing"}
         /\ history' \in [writes : Nat, failed : BOOLEAN, late : BOOLEAN]
         /\ history'.writes = history.writes /\ history'.late = history.late
         /\ history.failed => history'.failed
         /\ \/ /\ drive[p].phase = "lag" /\ drive'[p].phase = "busy"
               /\ drive'[p].cmd = drive[p].cmd /\ drive'[p].lba = drive[p].lba
               /\ drive'[p].moved = drive[p].moved /\ media' = media
            \/ /\ drive[p].phase = "busy" /\ drive'[p].phase = "data"
               /\ drive[p].cmd # "flush"
               /\ ~(machine[p] = "atapi" /\ drive[p].cmd = "identify")
               /\ drive'[p].cmd = drive[p].cmd /\ drive'[p].lba = drive[p].lba
               /\ drive'[p].moved = drive[p].moved /\ media' = media
            \/ /\ drive[p].phase = "busy" /\ drive'[p].phase = "error"
               /\ machine[p] = "atapi" \/ drive[p].cmd # "identify"
               /\ drive[p].cmd # "flush"
               /\ drive'[p].cmd = "none" /\ drive'[p].moved = <<>> /\ media' = media
               /\ at.call # "identify" => history'.failed
            \/ drive[p].phase = "storing" /\ drive'[p] = Resting /\ Store(p)
            \/ /\ drive[p].phase = "busy" /\ drive[p].cmd = "flush"
               /\ drive'[p] = Resting /\ media' = media
<1>1. Typed /\ Shape(p) /\ drive[p].phase \in {"lag", "busy", "storing"}
  BY DEF AtaInv, DriveStep, RaiseBusy, Offer, Fail, Store, Flush
<1>2. Present(p)
  BY <1>1, RestingFacts DEF Shape
<1>3. UNCHANGED <<machine, selected, disks, buffer, at>>
  BY DEF DriveStep, RaiseBusy, Offer, Fail, Store, Flush
<1>4. history \in [writes : Nat, failed : BOOLEAN, late : BOOLEAN]
  BY <1>1 DEF Typed
<1>5. CASE RaiseBusy(p)
  <2>1. "busy" \in Phases /\ drive' = [drive EXCEPT ![p].phase = "busy"]
    BY <1>5 DEF Phases, RaiseBusy
  <2> QED BY <1>1, <1>2, <1>3, <1>4, <1>5, <2>1, PhaseTo DEF RaiseBusy
<1>6. CASE Offer(p)
  <2>1. "data" \in Phases /\ drive' = [drive EXCEPT ![p].phase = "data"]
    BY <1>6 DEF Phases, Offer
  <2> QED BY <1>1, <1>2, <1>3, <1>4, <1>6, <2>1, PhaseTo DEF Offer
<1>7. CASE Fail(p)
  <2>1. PICK r : r = [Resting EXCEPT !.phase = "error"]
    OBVIOUS
  <2>2. r \in Drives /\ r.phase = "error" /\ r.cmd = "none" /\ r.moved = <<>>
    BY <2>1, RestingFacts
  <2>3. drive' = [drive EXCEPT ![p] = r]
    BY <1>7, <2>1 DEF Fail
  <2>4. /\ drive' \in [Place -> Drives] /\ drive'[p] = r
        /\ \A q \in Place : q # p => drive'[q] = drive[q]
    BY <1>1, <2>2, <2>3, OneDrive
  <2>5. /\ history' \in [writes : Nat, failed : BOOLEAN, late : BOOLEAN]
        /\ history'.writes = history.writes /\ history'.late = history.late
        /\ history'.failed = (history.failed \/ at.call # "identify")
    BY <1>4, <1>7 DEF Fail
  <2> QED BY <1>1, <1>2, <1>3, <1>7, <2>2, <2>4, <2>5 DEF Fail
<1>8. CASE Store(p)
  <2>1. drive' = [drive EXCEPT ![p] = Resting] /\ history' = history
    BY <1>8 DEF Store
  <2> QED BY <1>1, <1>2, <1>3, <1>4, <1>8, <2>1, OneDrive, RestingFacts DEF Store
<1>9. CASE Flush(p)
  <2>1. drive' = [drive EXCEPT ![p] = Resting] /\ history' = history
    BY <1>9 DEF Flush
  <2> QED BY <1>1, <1>2, <1>3, <1>4, <1>9, <2>1, OneDrive, RestingFacts DEF Flush
<1> QED BY <1>5, <1>6, <1>7, <1>8, <1>9 DEF DriveStep

LEMMA DriveStepKeeps ==
  ASSUME AtaInv, NEW p \in Place, DriveStep(p)
  PROVE  AtaInv'
<1>0. /\ UNCHANGED <<machine, selected, disks, buffer, at>>
      /\ drive' \in [Place -> Drives] /\ \A q \in Place : q # p => drive'[q] = drive[q]
      /\ Present(p) /\ drive[p].phase \in {"lag", "busy", "storing"}
      /\ history' \in [writes : Nat, failed : BOOLEAN, late : BOOLEAN]
      /\ history'.writes = history.writes /\ history'.late = history.late
      /\ history.failed => history'.failed
  BY DriveStepIs
<1>a. \/ /\ drive[p].phase = "lag" /\ drive'[p].phase = "busy"
         /\ drive'[p].cmd = drive[p].cmd /\ drive'[p].lba = drive[p].lba
         /\ drive'[p].moved = drive[p].moved /\ media' = media
      \/ /\ drive[p].phase = "busy" /\ drive'[p].phase = "data"
         /\ drive[p].cmd # "flush"
         /\ ~(machine[p] = "atapi" /\ drive[p].cmd = "identify")
         /\ drive'[p].cmd = drive[p].cmd /\ drive'[p].lba = drive[p].lba
         /\ drive'[p].moved = drive[p].moved /\ media' = media
      \/ /\ drive[p].phase = "busy" /\ drive'[p].phase = "error"
         /\ machine[p] = "atapi" \/ drive[p].cmd # "identify"
         /\ drive[p].cmd # "flush"
         /\ drive'[p].cmd = "none" /\ drive'[p].moved = <<>> /\ media' = media
         /\ at.call # "identify" => history'.failed
      \/ drive[p].phase = "storing" /\ drive'[p] = Resting /\ Store(p)
      \/ /\ drive[p].phase = "busy" /\ drive[p].cmd = "flush"
         /\ drive'[p] = Resting /\ media' = media
  BY DriveStepIs
<1>b. /\ Typed /\ \A q \in Place : Shape(q)
      /\ SearchInv /\ CallInv /\ ReadInv /\ ZeroInv /\ WriteInv
  BY DEF AtaInv
<1>c. at.place \in Place /\ drive[p] # Resting /\ machine[p] \in {"ata", "atapi"}
  BY <1>0, <1>b, RestingFacts DEF Typed, Present
<1>d. /\ Resting.phase = "idle" /\ Resting.cmd = "none"
      /\ drive[p].phase \in {"lag", "busy"} => drive[p].moved = <<>> /\ drive[p].cmd # "none"
      /\ drive[p].phase = "storing" => drive[p].cmd = "write"
      /\ drive[p].cmd \in Commands
  BY <1>b, RestingFacts, DriveType DEF Shape
<1>e. ASSUME NEW q \in Place
      PROVE  /\ Serves(q, "read")' => /\ Serves(q, "read") /\ drive'[q].lba = drive[q].lba
                                      /\ drive'[q].moved = drive[q].moved
             /\ Serves(q, "read") /\ drive[q].phase # "busy" => Serves(q, "read")'
             /\ drive[q].phase \in {"data", "idle", "error"} => drive'[q] = drive[q]
             /\ drive[q].phase \notin {"lag", "busy"} => drive'[q].phase \notin {"lag", "busy"}
             /\ drive[q].cmd # "write" => drive'[q].cmd # "write"
             /\ Serves(q, "identify") => \/ Serves(q, "identify")'
                                         \/ drive'[q].phase = "error" /\ machine[q] = "atapi"
             /\ Serves(q, "read") /\ at.call # "identify" /\ ~history'.failed =>
                  Serves(q, "read")'
  <2>1. CASE q # p
    <3>1. drive'[q] = drive[q]
      BY <1>0, <2>1
    <3> QED BY <3>1 DEF Serves, Serving
  <2>2. CASE q = p
    BY <1>0, <1>a, <1>d, <2>2 DEF Serves, Serving
  <2> QED BY <2>1, <2>2
<1>1. Typed'
  <2>1. media' \in [Place -> [Lba -> [1 .. Words -> Word]]]
    BY <1>a, <1>b, StoreMedia DEF Typed
  <2> QED BY <1>0, <1>b, <2>1 DEF Typed
<1>2. ASSUME NEW q \in Place PROVE Shape(q)'
  <2>1. Present(q)' = Present(q) /\ Asking' = Asking
    BY <1>0 DEF Present, Asking
  <2>2. CASE q # p
    BY <1>0, <1>b, <2>1, <2>2 DEF Shape, Serves, Serving
  <2>3. CASE q = p
    <3>1. Shape(p)
      BY <1>b
    <3>2. Len(<<>>) = 0 /\ 0 < Words
      BY Sizes
    <3> QED BY <1>0, <1>a, <1>c, <1>d, <2>1, <2>3, <3>1, <3>2
            DEF Shape, Serves, Serving, Commands
  <2> QED BY <2>2, <2>3
<1>3. SearchInv'
  <2>1. /\ Searching' = Searching /\ Asking' = Asking /\ Looked' = Looked
        /\ \A n : Found(n)' = Found(n)
        /\ \A q : Present(q)' = Present(q)
        /\ \A b : Floating(b)' = Floating(b)
    BY <1>0 DEF Searching, Asking, Looked, Found, Add, Present, Floating
  <2>5. disks' = Found(Looked)' /\ \A q \in Place : SelectOf(q) < Looked' => ~Floating(q[1])'
    BY <1>0, <1>b, <2>1 DEF SearchInv
  <2>2. Asking /\ Present(at.place) =>
          \/ Serves(at.place, "identify")'
          \/ drive'[at.place].phase = "error" /\ machine[at.place] = "atapi"
    <3>1. Asking /\ Present(at.place) =>
            \/ Serves(at.place, "identify")
            \/ drive[at.place].phase = "error" /\ machine[at.place] = "atapi"
      BY <1>b DEF SearchInv
    <3>2. drive[at.place].phase = "error" => drive'[at.place] = drive[at.place]
      BY <1>c, <1>e
    <3>3. Serves(at.place, "identify") =>
            \/ Serves(at.place, "identify")'
            \/ drive'[at.place].phase = "error" /\ machine[at.place] = "atapi"
      BY <1>0, <1>c, <1>e DEF Serves, Serving
    <3> QED BY <3>1, <3>2, <3>3
  <2>3. at.pc = "take ident" => drive'[at.place].phase = "data" /\ Serves(at.place, "identify")'
    <3>1. at.pc = "take ident" => drive[at.place].phase = "data" /\ Serves(at.place, "identify")
      BY <1>b DEF SearchInv
    <3> QED BY <1>0, <1>c, <3>1 DEF Serves, Serving
  <2>4. Searching => /\ \A q \in Place : SelectOf(q) > SelectOf(at.place) => drive'[q] = Resting
                     /\ at.pc = "identify" => drive'[at.place] = Resting
    BY <1>0, <1>b, <1>c DEF SearchInv
  <2> QED BY <1>0, <1>b, <2>1, <2>2, <2>3, <2>4, <2>5 DEF SearchInv
<1>4. CallInv'
  BY <1>0, <1>b DEF CallInv, Searching
<1>5. /\ drive[p].phase # "storing" => media' = media
      /\ drive[p].phase = "storing" => Store(p) /\ drive'[p] = Resting
  BY <1>a
<1>6. ReadInv'
  <2> SUFFICES ASSUME at.call = "read" PROVE ReadInv'
    BY <1>0 DEF ReadInv
  <2>1. Got' = Got /\ Target' = Target
    BY <1>0 DEF Got, Target
  <2>2. Serves(at.place, "read")' =>
          /\ Serves(at.place, "read") /\ drive'[at.place].lba = drive[at.place].lba
          /\ drive'[at.place].moved = drive[at.place].moved
    <3>1. PICK q \in Place : q = at.place
      BY <1>c
    <3>2. Serves(q, "read")' => /\ Serves(q, "read") /\ drive'[q].lba = drive[q].lba
                                /\ drive'[q].moved = drive[q].moved
      BY <1>e
    <3> QED BY <1>0, <3>1, <3>2 DEF Serves, Serving
  <2>3. drive[at.place].phase # "storing" => Asks' = Asks
    <3>1. CASE drive[p].phase # "storing"
      BY <1>0, <1>5, <3>1 DEF Asks, Target
    <3>2. CASE drive[p].phase = "storing"
      BY <1>0, <1>5, <1>b, <1>c, <3>2, StoreMedia DEF Asks, Target
    <3> QED BY <3>1, <3>2
  <2>4. Serves(at.place, "read")' =>
             /\ drive'[at.place].lba = Target
             /\ Len(drive'[at.place].moved) = at.word
             /\ \A k \in 1 .. at.word : Got[k] = Asks'[k]
    <3> SUFFICES ASSUME Serves(at.place, "read")'
                 PROVE  /\ drive'[at.place].lba = Target
                        /\ Len(drive'[at.place].moved) = at.word
                        /\ \A k \in 1 .. at.word : Got[k] = Asks'[k]
      OBVIOUS
    <3>1. /\ Serves(at.place, "read") /\ drive[at.place].phase # "storing"
          /\ drive'[at.place].lba = drive[at.place].lba
          /\ drive'[at.place].moved = drive[at.place].moved
      BY <2>2 DEF Serves, Serving
    <3> QED BY <1>b, <2>3, <3>1 DEF ReadInv
  <2>5. at.pc = "words" =>
          /\ ~Serves(at.place, "read")' => \A k \in 1 .. at.word : Got[k] = <<"junk">>
          /\ drive'[at.place].phase \notin {"lag", "busy"}
    <3> SUFFICES ASSUME at.pc = "words"
                 PROVE /\ ~Serves(at.place, "read")' => \A k \in 1 .. at.word : Got[k] = <<"junk">>
                       /\ drive'[at.place].phase \notin {"lag", "busy"}
      OBVIOUS
    <3>1. drive[at.place].phase \notin {"lag", "busy"}
      BY <1>b DEF ReadInv
    <3>2. Serves(at.place, "read") => Serves(at.place, "read")'
      BY <1>0, <1>c, <1>e, <3>1 DEF Serves, Serving
    <3>3. drive'[at.place].phase \notin {"lag", "busy"}
      BY <1>c, <1>e, <3>1
    <3> QED BY <1>b, <3>2, <3>3 DEF ReadInv
  <2>6. at.pc \in {"pause", "up"} =>
             (drive'[at.place].phase = "idle" /\ Got = Asks') \/ Got = Junk
    <3>1. at.pc \in {"pause", "up"} =>
             (drive[at.place].phase = "idle" /\ Got = Asks) \/ Got = Junk
      BY <1>b DEF ReadInv
    <3>2. drive[at.place].phase = "idle" => drive'[at.place] = drive[at.place]
      BY <1>c, <1>e
    <3> QED BY <2>3, <3>1, <3>2
  <2>7. Junk' = Junk
    BY DEF Junk
  <2> QED BY <1>0, <2>1, <2>4, <2>5, <2>6, <2>7 DEF ReadInv
<1>7. ZeroInv'
  <2> SUFFICES ASSUME history.writes = 0 PROVE ZeroInv'
    BY <1>0 DEF ZeroInv
  <2>1. drive[p].phase # "storing" /\ media' = media
    BY <1>5, <1>b, <1>d DEF ZeroInv
  <2>2. ASSUME NEW q \in Place
        PROVE  /\ drive'[q].cmd \notin {"write", "flush"}
               /\ Serving(q)' => drive'[q].cmd \in {"identify", "read"}
    <3>1. /\ drive[q].cmd \notin {"write", "flush"}
          /\ Serving(q) => drive[q].cmd \in {"identify", "read"}
      BY <1>b DEF ZeroInv
    <3>2. CASE q # p
      BY <1>0, <3>1, <3>2 DEF Serving
    <3>3. CASE q = p
      BY <1>a, <1>d, <2>1, <3>1, <3>3 DEF Serving
    <3> QED BY <3>2, <3>3
  <2>3. at.call = "read" /\ ~history'.failed =>
             /\ at.pc \in {"delay", "poll", "words"} => Serves(at.place, "read")'
             /\ at.pc \in {"pause", "up"} => Got' = Asks'
    <3> SUFFICES ASSUME at.call = "read" /\ ~history'.failed
                 PROVE  /\ at.pc \in {"delay", "poll", "words"} => Serves(at.place, "read")'
                        /\ at.pc \in {"pause", "up"} => Got' = Asks'
      OBVIOUS
    <3>1. /\ at.pc \in {"delay", "poll", "words"} => Serves(at.place, "read")
          /\ at.pc \in {"pause", "up"} => Got = Asks
      BY <1>0, <1>b DEF ZeroInv
    <3>2. Got' = Got /\ Asks' = Asks
      BY <1>0, <2>1 DEF Got, Asks, Target
    <3>3. Serves(at.place, "read") => Serves(at.place, "read")'
      BY <1>0, <1>c, <1>e DEF Serves, Serving
    <3> QED BY <3>1, <3>2, <3>3
  <2>4. media' = [q \in Place |-> Sectors(q)] /\ at.call # "write"
    BY <1>b, <2>1 DEF ZeroInv
  <2>5. \A q : Sectors(q)' = Sectors(q)
    BY DEF Sectors
  <2> QED BY <1>0, <2>2, <2>3, <2>4, <2>5 DEF ZeroInv
<1>8. WriteInv'
  <2>1. /\ Got' = Got /\ Target' = Target
        /\ \A q : Sectors(q)' = Sectors(q)
        /\ \A v : Whole(v)' = Whole(v)
    BY <1>0 DEF Got, Target, Sectors, Whole
  <2>2. at.call = "write" => \E v \in Values : Got = Whole(v)
    BY <1>b DEF WriteInv
  <2> SUFFICES ASSUME ~history.late
               PROVE  /\ \A q \in Place, l \in Lba :
                           media'[q][l] \in {Sectors(q)[l]} \cup {Whole(v) : v \in Values}
                      /\ \A q \in Place :
                           /\ drive'[q].phase = "storing" =>
                                \E v \in Values : drive'[q].moved = Whole(v)
                           /\ Serves(q, "write")' =>
                                /\ q = at.place /\ at.call = "write"
                                /\ at.pc \in {"delay", "words", "flush"}
                      /\ at.call = "write" =>
                           /\ at.pc = "delay" => Refused' \/ Taking(0)'
                           /\ at.pc = "words" =>
                                Refused' \/ (Taking(at.word)' /\ drive'[at.place].phase = "data")
                           /\ at.pc = "flush" =>
                                \/ Refused'
                                \/ /\ Taking(at.word + 1)' /\ drive'[at.place].phase = "data"
                                   /\ at.word + 1 < Words
                                \/ Stored' /\ at.word + 1 = Words
                           /\ at.pc \in {"pause", "up"} => Refused' \/ Stored'
    BY <1>0, <2>1, <2>2 DEF WriteInv
  <2>3. ASSUME NEW q \in Place, NEW l \in Lba
        PROVE  media'[q][l] \in {Sectors(q)[l]} \cup {Whole(v) : v \in Values}
    <3>1. media[q][l] \in {Sectors(q)[l]} \cup {Whole(v) : v \in Values}
      BY <1>b DEF WriteInv
    <3>2. CASE drive[p].phase # "storing"
      BY <1>5, <3>1, <3>2
    <3>3. CASE drive[p].phase = "storing"
      <4>1. \E v \in Values : drive[p].moved = Whole(v)
        BY <1>b, <3>3 DEF WriteInv
      <4>2. media'[q][l] = media[q][l] \/ media'[q][l] = drive[p].moved
        BY <1>5, <1>b, <3>3, StoreMedia
      <4> QED BY <3>1, <4>1, <4>2
    <3> QED BY <3>2, <3>3
  <2>4. ASSUME NEW q \in Place
        PROVE  /\ drive'[q].phase = "storing" => \E v \in Values : drive'[q].moved = Whole(v)
               /\ Serves(q, "write")' => /\ q = at.place /\ at.call = "write"
                                         /\ at.pc \in {"delay", "words", "flush"}
    <3>1. /\ drive[q].phase = "storing" => \E v \in Values : drive[q].moved = Whole(v)
          /\ Serves(q, "write") => /\ q = at.place /\ at.call = "write"
                                   /\ at.pc \in {"delay", "words", "flush"}
      BY <1>b DEF WriteInv
    <3>2. CASE q # p
      BY <1>0, <3>1, <3>2 DEF Serves, Serving
    <3>3. CASE q = p
      BY <1>a, <1>d, <3>1, <3>3 DEF Serves, Serving
    <3> QED BY <3>2, <3>3
  <2>5. ASSUME at.call = "write"
        PROVE  /\ Refused => Refused'
               /\ \A n : /\ Taking(n) => Refused' \/ Taking(n)'
                         /\ Taking(n) /\ drive[at.place].phase = "data" =>
                              Taking(n)' /\ drive'[at.place].phase = "data"
               /\ Stored => Stored'
    <3>1. Refused => Refused'
      BY <1>0, <1>c, <1>e DEF Refused
    <3>2. ASSUME NEW n, Taking(n)
          PROVE  /\ Refused' \/ Taking(n)'
                 /\ drive[at.place].phase = "data" =>
                      Taking(n)' /\ drive'[at.place].phase = "data"
      <4>1. CASE at.place # p
        BY <1>0, <1>c, <2>1, <3>2, <4>1 DEF Taking, Serves, Serving
      <4>2. CASE at.place = p
        <5>1. drive[p].phase \in {"lag", "busy"} /\ drive[p].cmd = "write"
          BY <1>0, <3>2, <4>2 DEF Taking, Serves, Serving
        <5>2. \/ /\ drive'[p].phase \in {"busy", "data"} /\ drive'[p].cmd = drive[p].cmd
                 /\ drive'[p].lba = drive[p].lba /\ drive'[p].moved = drive[p].moved
              \/ drive'[p].cmd = "none" /\ history'.failed
          BY <1>a, <2>5, <5>1
        <5> QED BY <1>0, <2>1, <3>2, <4>2, <5>1, <5>2 DEF Taking, Serves, Serving, Refused
      <4> QED BY <4>1, <4>2
    <3>3. ASSUME Stored PROVE Stored'
      <4>1. CASE at.place # p
        <5>1. Asks' = Asks
          BY <1>0, <1>5, <1>b, <1>c, <4>1, StoreMedia DEF Asks, Target
        <5> QED BY <1>0, <1>c, <2>1, <3>3, <4>1, <5>1 DEF Stored
      <4>2. CASE at.place = p /\ drive[p].phase = "storing"
        <5>1. drive[p].lba = Target /\ drive[p].moved = Got
          BY <1>d, <3>3, <4>2 DEF Stored
        <5>2. Asks' = Got
          BY <1>0, <1>5, <1>b, <2>1, <4>2, <5>1, StoreMedia DEF Asks, Target
        <5> QED BY <1>0, <1>5, <1>d, <2>1, <4>2, <5>2 DEF Stored
      <4>3. CASE at.place = p /\ drive[p].phase # "storing"
        <5>1. drive[p].cmd # "write" /\ Asks = Got
          BY <3>3, <4>3 DEF Stored
        <5>2. Asks' = Asks
          BY <1>0, <1>5, <4>3 DEF Asks, Target
        <5>3. drive'[p].cmd # "write"
          BY <1>a, <1>d, <4>3, <5>1
        <5> QED BY <1>0, <2>1, <4>3, <5>1, <5>2, <5>3 DEF Stored
      <4> QED BY <4>1, <4>2, <4>3
    <3> QED BY <3>1, <3>2, <3>3
  <2>6. at.call = "write" =>
             /\ at.pc = "delay" => Refused \/ Taking(0)
             /\ at.pc = "words" => Refused \/ (Taking(at.word) /\ drive[at.place].phase = "data")
             /\ at.pc = "flush" =>
                  \/ Refused
                  \/ Taking(at.word + 1) /\ drive[at.place].phase = "data" /\ at.word + 1 < Words
                  \/ Stored /\ at.word + 1 = Words
             /\ at.pc \in {"pause", "up"} => Refused \/ Stored
    BY <1>b DEF WriteInv
  <2> QED BY <1>0, <2>3, <2>4, <2>5, <2>6
<1> QED BY <1>1, <1>2, <1>3, <1>4, <1>6, <1>7, <1>8 DEF AtaInv

------------------------------------------------------------------------------
(* The steps of the search.                                                 *)

LEMMA Fields ==
  ASSUME Typed
  PROVE  at = [pc |-> at.pc, place |-> at.place, call |-> at.call, disk |-> at.disk,
               lba |-> at.lba, word |-> at.word]
  BY DEF Typed

(* While the driver searches, no drive has met another command.             *)
LEMMA SearchFacts ==
  ASSUME AtaInv, Searching
  PROVE  /\ at.call = "identify" /\ history.writes = 0
         /\ media = [p \in Place |-> Sectors(p)]
         /\ \A p \in Place : drive[p].cmd \in {"none", "identify"}
<1>1. /\ Typed /\ \A p \in Place : Shape(p)
      /\ at.call = "identify" /\ history.writes = 0 /\ ZeroInv
  BY DEF AtaInv, SearchInv
<1>2. ASSUME NEW p \in Place PROVE drive[p].cmd \in {"none", "identify"}
  <2>1. drive[p].cmd \in Commands /\ drive[p].phase \in Phases
    BY <1>1, DriveType
  <2>2. drive[p].cmd \notin {"write", "flush"} /\ ~Serves(p, "read")
    BY <1>1 DEF ZeroInv, Shape
  <2>3. drive[p].phase \notin {"lag", "busy", "data"} => drive[p].cmd \in {"none", "write"}
    BY <1>1, <2>1, RestingFacts DEF Phases, Shape
  <2> QED BY <2>1, <2>2, <2>3 DEF Commands, Serves, Serving
<1> QED BY <1>1, <1>2 DEF ZeroInv

LEMMA SearchStep ==
  ASSUME AtaInv, Searching, UNCHANGED <<machine, media, history>>,
         at'.call = "identify", at'.pc \in {"identify", "check", "wait busy", "wait data",
                                            "take ident", "up"},
         Typed', \A p \in Place : Shape(p)', SearchInv',
         \A p \in Place : drive'[p].cmd \in {"none", "identify"}
  PROVE  AtaInv'
<1>1. CallInv' /\ ReadInv'
  BY DEF CallInv, ReadInv, Searching
<1>2. ASSUME NEW p \in Place
      PROVE  drive'[p].phase # "storing" /\ (Serving(p)' => drive'[p].cmd = "identify")
  BY DEF Shape, Serving
<1>3. \A p : Sectors(p)' = Sectors(p)
  BY DEF Sectors
<1>4. \A v : Whole(v)' = Whole(v)
  BY DEF Whole
<1>5. ZeroInv'
  BY <1>2, <1>3, SearchFacts DEF ZeroInv
<1>6. WriteInv'
  <2>1. ~history.late => \A p \in Place, l \in Lba :
          media[p][l] \in {Sectors(p)[l]} \cup {Whole(v) : v \in Values}
    BY DEF AtaInv, WriteInv
  <2>2. \A p \in Place : ~Serves(p, "write")'
    BY <1>2 DEF Serves
  <2> QED BY <1>2, <1>3, <1>4, <2>1, <2>2 DEF WriteInv
<1> QED BY <1>1, <1>5, <1>6 DEF AtaInv

LEMMA SendIdentifyKeeps ==
  ASSUME AtaInv, SendIdentify
  PROVE  AtaInv'
<1>1. /\ Typed /\ at.pc = "identify" /\ Searching /\ ~Asking /\ SearchInv
      /\ \A q \in Place : Shape(q)
  BY DEF AtaInv, SendIdentify, Searching, Asking
<1>2. PICK p \in Place : p = at.place
  BY <1>1 DEF Typed
<1>3. /\ drive' = Taken(p, "identify", 0) /\ "identify" \in Commands
      /\ selected' = [selected EXCEPT ![p[1]] = p[2]]
      /\ at' = [at EXCEPT !.pc = "check"]
      /\ UNCHANGED <<machine, media, disks, buffer, history>>
  BY <1>2 DEF SendIdentify, Commands
<1>4. /\ at'.pc = "check" /\ at'.place = p /\ at'.call = at.call
      /\ at' \in [pc : Pcs, place : Place, call : {"identify", "read", "write"},
                  disk : Nat, lba : Nat, word : 0 .. Words]
  BY <1>1, <1>2, <1>3 DEF Typed, Pcs
<1>5. drive[p] = Resting
  BY <1>1, <1>2 DEF SearchInv
<1>6. /\ drive' \in [Place -> Drives] /\ \A q \in Place : q # p => drive'[q] = drive[q]
      /\ \/ Present(p) /\ drive'[p] = [phase |-> "lag", cmd |-> "identify", lba |-> 0, moved |-> <<>>]
         \/ ~Present(p) /\ drive'[p] = Resting
  BY <1>1, <1>3, <1>5, TakenIs, Sizes, RestingFacts
<1>7. selected' \in [Bus -> 0 .. 1] /\ selected'[p[1]] = p[2]
  BY <1>1, <1>3, PlaceFacts DEF Typed
<1>8. Typed'
  BY <1>1, <1>3, <1>4, <1>6, <1>7 DEF Typed
<1>9. Searching' /\ Asking' /\ Looked' = Looked /\ \A n : Found(n)' = Found(n)
  BY <1>1, <1>2, <1>3, <1>4 DEF Searching, Asking, Looked, Found, Add
<1>10. \A q \in Place : Shape(q)'
  <2>1. \A q \in Place : q # p => ~Serving(q) /\ drive[q].phase # "lag"
    BY <1>1, <1>2, SearchFacts, RestingFacts DEF Shape, Serving, Serves
  <2>2. ASSUME NEW q \in Place, q # p PROVE Shape(q)'
    BY <1>1, <1>3, <1>6, <2>1, <2>2 DEF Shape, Present, Serves, Serving
  <2>3. Shape(p)'
    BY <1>3, <1>4, <1>6, <1>9, RestingFacts DEF Shape, Present, Serves, Serving
  <2> QED BY <2>2, <2>3
<1>11. SearchInv'
  <2>1. \A b : Floating(b)' = Floating(b)
    BY <1>3 DEF Floating
  <2>2. disks' = Found(Looked)' /\ \A q \in Place : SelectOf(q) < Looked' => ~Floating(q[1])'
    BY <1>1, <1>3, <1>9, <2>1 DEF SearchInv
  <2>3. /\ at'.call = "identify" /\ history'.writes = 0
        /\ \A q \in Place : SelectOf(q) > SelectOf(p) => drive'[q] = Resting
    <3>1. ASSUME NEW q \in Place, SelectOf(q) > SelectOf(p) PROVE drive'[q] = Resting
      <4>1. q # p
        BY <3>1, PlaceFacts
      <4> QED BY <1>1, <1>2, <1>6, <3>1, <4>1 DEF SearchInv
    <3> QED BY <1>1, <1>3, <1>4, <3>1, SearchFacts
  <2>4. Present(p)' => Serves(p, "identify")'
    BY <1>3, <1>6 DEF Present, Serves, Serving
  <2> QED BY <1>4, <1>7, <1>9, <2>2, <2>3, <2>4 DEF SearchInv, Serves, Serving, Present
<1>12. \A q \in Place : drive'[q].cmd \in {"none", "identify"}
  BY <1>1, <1>6, SearchFacts, RestingFacts
<1> QED BY <1>1, <1>3, <1>4, <1>8, <1>10, <1>11, <1>12, SearchFacts, SearchStep

(* The table after one more place.                                          *)
LEMMA FoundNext ==
  ASSUME NEW p \in Place
  PROVE  Found(SelectOf(p) + 1) = Add(p, Found(SelectOf(p)))
<1>1. CASE p = <<0, 0>>
  <2>1. SelectOf(p) = 0
    BY <1>1 DEF SelectOf
  <2> QED BY <1>1, <2>1 DEF Found
<1>2. CASE p = <<0, 1>>
  <2>1. SelectOf(p) = 1
    BY <1>2 DEF SelectOf
  <2> QED BY <1>2, <2>1 DEF Found
<1>3. CASE p = <<1, 0>>
  <2>1. SelectOf(p) = 2
    BY <1>3 DEF SelectOf
  <2> QED BY <1>3, <2>1 DEF Found
<1>4. CASE p = <<1, 1>>
  <2>1. SelectOf(p) = 3
    BY <1>4 DEF SelectOf
  <2> QED BY <1>4, <2>1 DEF Found
<1> QED BY <1>1, <1>2, <1>3, <1>4, Places

LEMMA NextPlaceIs ==
  ASSUME Typed, Searching, at' = NextPlace(at.place)
  PROVE  /\ at' \in [pc : Pcs, place : Place, call : {"identify", "read", "write"},
                     disk : Nat, lba : Nat, word : 0 .. Words]
         /\ at'.pc \in {"identify", "up"} /\ at'.call = at.call
         /\ Looked' = SelectOf(at.place) + 1
         /\ at'.pc = "identify" => /\ at'.place \in Place
                                   /\ SelectOf(at'.place) = SelectOf(at.place) + 1
<1>1. PICK p \in Place : p = at.place
  BY DEF Typed
<1>2. CASE p = <<1, 1>>
  <2>1. at' = [at EXCEPT !.pc = "up"]
    BY <1>1, <1>2 DEF NextPlace
  <2>2. at'.pc = "up" /\ SelectOf(p) = 3
    BY <1>2, <2>1, PlaceFacts DEF Typed
  <2>3. Looked' = 4
    BY <2>2 DEF Looked, Searching
  <2>4. at' \in [pc : Pcs, place : Place, call : {"identify", "read", "write"},
                 disk : Nat, lba : Nat, word : 0 .. Words] /\ at'.call = at.call
    BY <2>1 DEF Typed, Pcs
  <2> QED BY <1>1, <2>2, <2>3, <2>4
<1>3. CASE p # <<1, 1>>
  <2>1. PICK f \in Place : f = Following(p) /\ SelectOf(f) = SelectOf(p) + 1
    BY <1>3, PlaceFacts
  <2>2. PICK a : a = [at EXCEPT !.pc = "identify"]
    OBVIOUS
  <2>3. at' = [a EXCEPT !.place = f]
    BY <1>1, <1>3, <2>1, <2>2 DEF NextPlace
  <2>4. /\ a \in [pc : Pcs, place : Place, call : {"identify", "read", "write"},
                  disk : Nat, lba : Nat, word : 0 .. Words]
        /\ a.pc = "identify" /\ a.call = at.call
    BY <2>2 DEF Typed, Pcs
  <2>5. /\ at' \in [pc : Pcs, place : Place, call : {"identify", "read", "write"},
                    disk : Nat, lba : Nat, word : 0 .. Words]
        /\ at'.pc = "identify" /\ at'.call = at.call /\ at'.place = f
    BY <2>3, <2>4
  <2>6. Looked' = SelectOf(f)
    BY <2>5 DEF Looked, Searching
  <2> QED BY <1>1, <2>1, <2>5, <2>6
<1> QED BY <1>2, <1>3

(* The place has been looked at: the drive there has nothing left to do.    *)
LEMMA Advance ==
  ASSUME AtaInv, Asking, UNCHANGED <<machine, selected, media, history>>,
         at' = NextPlace(at.place), ~Floating(at.place[1]),
         drive' \in [Place -> Drives],
         \A q \in Place : q # at.place => drive'[q] = drive[q],
         drive'[at.place] = Resting \/ (drive'[at.place] = drive[at.place]
                                         /\ drive[at.place].phase = "error"),
         disks' = Add(at.place, disks),
         disks' \in Seq([select : 0 .. 3, info : Word]),
         buffer' \in Seq([1 .. Words -> Word]), Len(buffer') = Len(disks')
  PROVE  AtaInv'
<1>1. Typed /\ Searching /\ SearchInv /\ \A q \in Place : Shape(q)
  BY DEF AtaInv, Asking, Searching
<1>2. PICK p \in Place : p = at.place
  BY <1>1 DEF Typed
<1>3. /\ at' \in [pc : Pcs, place : Place, call : {"identify", "read", "write"},
                  disk : Nat, lba : Nat, word : 0 .. Words]
      /\ at'.pc \in {"identify", "up"} /\ at'.call = at.call
      /\ Looked' = SelectOf(p) + 1
      /\ at'.pc = "identify" => /\ at'.place \in Place
                                /\ SelectOf(at'.place) = SelectOf(p) + 1
  BY <1>1, <1>2, NextPlaceIs
<1>4. Typed'
  BY <1>1, <1>3 DEF Typed
<1>5. /\ ~Asking' /\ (Searching' <=> at'.pc = "identify") /\ Looked = SelectOf(p)
      /\ \A n : Found(n)' = Found(n)
  <2>1. \A n : Found(n)' = Found(n)
    BY DEF Found, Add
  <2>2. ~Asking' /\ (Searching' <=> at'.pc = "identify")
    <3>1. CASE at'.pc = "identify"
      BY <3>1 DEF Asking, Searching
    <3>2. CASE at'.pc = "up"
      BY <3>2 DEF Asking, Searching
    <3> QED BY <1>3, <3>1, <3>2
  <2> QED BY <1>1, <1>2, <2>1, <2>2 DEF Looked
<1>6. ASSUME NEW q \in Place
      PROVE  ~Serving(q)' /\ (drive'[q] = drive[q] \/ drive'[q] = Resting)
  <2>1. CASE q = p
    BY <1>2, <2>1, RestingFacts DEF Serving
  <2>2. CASE q # p
    <3>1. drive[q].phase # "lag" /\ ~Serves(q, "identify") /\ drive'[q] = drive[q]
      BY <1>1, <1>2, <2>2 DEF Shape
    <3>2. Serving(q) => drive[q].cmd # "none"
      BY <1>1 DEF Shape, Serving
    <3> QED BY <1>1, <3>1, <3>2, SearchFacts DEF Serving, Serves
  <2> QED BY <2>1, <2>2
<1>7. \A q \in Place : Shape(q)'
  BY <1>1, <1>6, RestingFacts DEF Shape, Serves, Serving, Present
<1>8. SearchInv'
  <2>1. disks' = Found(Looked)'
    BY <1>1, <1>2, <1>3, <1>5, FoundNext DEF SearchInv
  <2>2. ASSUME NEW q \in Place, SelectOf(q) < SelectOf(p) + 1 PROVE ~Floating(q[1])'
    <3>1. SelectOf(q) \in 0 .. 3 /\ SelectOf(p) \in 0 .. 3
      BY PlaceFacts
    <3>2. SelectOf(q) < SelectOf(p) \/ SelectOf(q) = SelectOf(p)
      BY <2>2, <3>1
    <3>3. SelectOf(q) = SelectOf(p) => q = p
      BY PlaceFacts
    <3> QED BY <1>1, <1>2, <1>5, <3>2, <3>3 DEF SearchInv, Floating
  <2>3. ASSUME NEW q \in Place, SelectOf(q) > SelectOf(p) PROVE drive'[q] = Resting
    <3>1. q # p
      BY <2>3, PlaceFacts
    <3> QED BY <1>1, <1>2, <2>3, <3>1 DEF SearchInv
  <2>4. at'.pc = "identify" =>
           /\ \A q \in Place : SelectOf(q) > SelectOf(at'.place) => SelectOf(q) > SelectOf(p)
           /\ SelectOf(at'.place) > SelectOf(p) /\ at'.place \in Place
    <3>1. ASSUME at'.pc = "identify"
          PROVE  /\ \A q \in Place : SelectOf(q) > SelectOf(at'.place) => SelectOf(q) > SelectOf(p)
                 /\ SelectOf(at'.place) > SelectOf(p) /\ at'.place \in Place
      <4>1. PICK a \in Int, b \in Int : a = SelectOf(p) /\ b = SelectOf(at'.place) /\ b = a + 1
        BY <1>3, <3>1, PlaceFacts
      <4>2. ASSUME NEW q \in Place, SelectOf(q) > b PROVE SelectOf(q) > a
        <5>1. SelectOf(q) \in Int
          BY PlaceFacts
        <5> QED BY <4>1, <4>2, <5>1
      <4> QED BY <1>3, <3>1, <4>1, <4>2
    <3> QED BY <3>1
  <2> QED BY <1>1, <1>3, <1>5, <2>1, <2>2, <2>3, <2>4, SearchFacts DEF SearchInv
<1>9. \A q \in Place : drive'[q].cmd \in {"none", "identify"}
  BY <1>1, <1>6, SearchFacts, RestingFacts
<1> QED BY <1>1, <1>3, <1>4, <1>7, <1>8, <1>9, SearchFacts, SearchStep

LEMMA AskingFacts ==
  ASSUME AtaInv, Asking
  PROVE  /\ at.place \in Place /\ at.place[1] \in Bus
         /\ Chosen(at.place[1]) = at.place
         /\ at.call = "identify" /\ Searching
         /\ Present(at.place) => \/ Serves(at.place, "identify")
                                 \/ drive[at.place].phase = "error" /\ machine[at.place] = "atapi"
         /\ ~Present(at.place) => drive[at.place] = Resting
         /\ machine[at.place] = "ata" => Serves(at.place, "identify")
         /\ Serves(at.place, "identify") /\ drive[at.place].phase = "data" =>
              machine[at.place] = "ata"
<1>1. PICK p \in Place : p = at.place /\ Shape(p)
  BY DEF AtaInv, Typed
<1>2. selected[p[1]] = p[2] /\ Searching /\ at.call = "identify"
  BY <1>1 DEF AtaInv, SearchInv, Asking, Searching
<1>3. Chosen(p[1]) = p
  BY <1>2, PlaceFacts DEF Chosen
<1>4. Present(p) => \/ Serves(p, "identify")
                    \/ drive[p].phase = "error" /\ machine[p] = "atapi"
  BY <1>1 DEF AtaInv, SearchInv
<1>5. ~Present(p) => drive[p] = Resting
  BY <1>1 DEF Shape
<1>6. Serves(p, "identify") /\ drive[p].phase = "data" => machine[p] = "ata"
  BY <1>1 DEF Shape
<1> QED BY <1>1, <1>2, <1>3, <1>4, <1>5, <1>6, PlaceFacts DEF Present

(* The driver goes on waiting for the drive at the same place.              *)
LEMMA StaysAsking ==
  ASSUME AtaInv, Asking, UNCHANGED <<machine, selected, drive, media, disks, buffer, history>>,
         NEW x \in {"wait busy", "wait data", "take ident"}, at' = [at EXCEPT !.pc = x],
         x # "wait busy" => ~Floating(at.place[1]),
         x = "take ident" => drive[at.place].phase = "data" /\ Serves(at.place, "identify")
  PROVE  AtaInv'
<1>1. Typed /\ Searching /\ SearchInv /\ \A q \in Place : Shape(q)
  BY DEF AtaInv, Asking, Searching
<1>2. /\ at' \in [pc : Pcs, place : Place, call : {"identify", "read", "write"},
                  disk : Nat, lba : Nat, word : 0 .. Words]
      /\ at'.pc = x /\ at'.place = at.place /\ at'.call = at.call
  BY <1>1 DEF Typed, Pcs
<1>3. Typed'
  BY <1>1, <1>2 DEF Typed
<1>4. Asking' /\ Searching'
  BY <1>2 DEF Asking, Searching
<1>5. ASSUME NEW q \in Place PROVE Shape(q)'
  <2>1. at'.pc \notin {"identify", "poll", "up"}
    BY <1>2
  <2>2. Shape(q) /\ drive' = drive /\ machine' = machine /\ at'.place = at.place
    BY <1>1, <1>2
  <2>3. ~Serves(q, "read")
    BY <2>2, AskingFacts DEF Shape
  <2> QED BY <1>4, <2>1, <2>2, <2>3 DEF Shape, Serves, Serving, Present
<1>6. SearchInv'
  <2>1. Looked' = Looked /\ \A n : Found(n)' = Found(n)
    BY <1>1, <1>2, <1>4 DEF Looked, Found, Add
  <2>2. \A b : Floating(b)' = Floating(b)
    BY DEF Floating
  <2>3. disks' = Found(Looked)' /\ \A q \in Place : SelectOf(q) < Looked' => ~Floating(q[1])'
    BY <1>1, <2>1, <2>2 DEF SearchInv
  <2> QED BY <1>1, <1>2, <1>4, <2>2, <2>3 DEF SearchInv, Serves, Serving, Present
<1> QED BY <1>1, <1>2, <1>3, <1>5, <1>6, SearchFacts, SearchStep

LEMMA CheckStatusKeeps ==
  ASSUME AtaInv, CheckStatus
  PROVE  AtaInv'
<1>1. Asking /\ Typed /\ UNCHANGED <<machine, selected, drive, media, disks, buffer, history>>
  BY DEF AtaInv, CheckStatus, Asking, world
<1>2. CASE StatusZero(at.place[1])
  <2>1. ~Present(at.place) /\ ~Floating(at.place[1]) /\ at' = NextPlace(at.place)
    BY <1>1, <1>2, AskingFacts DEF StatusZero, CheckStatus
  <2>2. Add(at.place, disks) = disks /\ drive'[at.place] = Resting
    BY <1>1, <2>1, AskingFacts DEF Add, Present
  <2> QED BY <1>1, <2>1, <2>2, Advance DEF Typed
<1>3. CASE ~StatusZero(at.place[1])
  <2>1. at' = [at EXCEPT !.pc = "wait busy"]
    BY <1>3 DEF CheckStatus
  <2> QED BY <1>1, <2>1, StaysAsking
<1> QED BY <1>2, <1>3

LEMMA Nothing ==
  ASSUME AtaInv, UNCHANGED vars
  PROVE  AtaInv'
<1>1. /\ \A p \in Place : Shape(p)' = Shape(p)
      /\ \A n : Found(n)' = Found(n)
      /\ \A b : Floating(b)' = Floating(b)
  BY DEF vars, Shape, Serves, Serving, Present, Asking, Found, Add, Floating
<1>2. Typed' /\ CallInv'
  BY DEF AtaInv, vars, Typed, CallInv, Searching
<1>3. SearchInv'
  BY <1>1 DEF AtaInv, vars, SearchInv, Looked, Searching, Asking, Present, Serves, Serving
<1>4. Got' = Got /\ Asks' = Asks /\ Target' = Target
  BY DEF vars, Got, Asks, Target
<1>5. ReadInv' /\ ZeroInv'
  BY <1>4 DEF AtaInv, vars, ReadInv, ZeroInv, Serves, Serving, Junk, Sectors
<1>6. WriteInv'
  BY <1>4 DEF AtaInv, vars, WriteInv, Refused, Taking, Stored, Serves, Serving, Whole, Sectors
<1> QED BY <1>1, <1>2, <1>3, <1>5, <1>6 DEF AtaInv

LEMMA WaitBusyKeeps ==
  ASSUME AtaInv, WaitBusy
  PROVE  AtaInv'
<1>1. Asking /\ Typed /\ UNCHANGED <<machine, selected, drive, media, disks, buffer, history>>
  BY DEF AtaInv, WaitBusy, Asking, world
<1>2. CASE BSY(at.place[1])
  <2>1. UNCHANGED vars
    BY <1>1, <1>2 DEF WaitBusy, vars
  <2> QED BY <2>1, Nothing
<1>3. CASE ~BSY(at.place[1])
  <2>1. at' = [at EXCEPT !.pc = "wait data"] /\ ~Floating(at.place[1])
    BY <1>3 DEF WaitBusy, BSY
  <2> QED BY <1>1, <2>1, StaysAsking
<1> QED BY <1>2, <1>3

LEMMA WaitDataKeeps ==
  ASSUME AtaInv, WaitData
  PROVE  AtaInv'
<1>1. Asking /\ Typed /\ UNCHANGED <<machine, selected, drive, media, disks, buffer, history>>
  BY DEF AtaInv, WaitData, Asking, world
<1>2. ~Floating(at.place[1])
  BY DEF AtaInv, SearchInv, WaitData
<1>3. CASE ERR(at.place[1])
  <2>1. drive[at.place].phase = "error" /\ at' = NextPlace(at.place)
    BY <1>1, <1>2, <1>3, AskingFacts DEF ERR, WaitData
  <2>2. machine[at.place] # "ata"
    BY <1>1, <2>1, AskingFacts DEF Serves, Serving
  <2>3. Add(at.place, disks) = disks
    BY <2>2 DEF Add
  <2> QED BY <1>1, <1>2, <2>1, <2>3, Advance DEF Typed
<1>4. CASE ~ERR(at.place[1]) /\ DRQ(at.place[1])
  <2>1. drive[at.place].phase = "data" /\ at' = [at EXCEPT !.pc = "take ident"]
    BY <1>1, <1>2, <1>4, AskingFacts DEF DRQ, WaitData
  <2>2. Serves(at.place, "identify")
    BY <1>1, <2>1, AskingFacts, RestingFacts
  <2> QED BY <1>1, <1>2, <2>1, <2>2, StaysAsking
<1>5. CASE ~ERR(at.place[1]) /\ ~DRQ(at.place[1])
  <2>1. UNCHANGED vars
    BY <1>1, <1>5 DEF WaitData, vars
  <2> QED BY <2>1, Nothing
<1> QED BY <1>3, <1>4, <1>5

LEMMA AddDiskKeeps ==
  ASSUME AtaInv, AddDisk
  PROVE  AtaInv'
<1>1. /\ Asking /\ Typed /\ ~Floating(at.place[1])
      /\ drive[at.place].phase = "data" /\ Serves(at.place, "identify")
  BY DEF AtaInv, SearchInv, AddDisk, Asking
<1>2. PICK p \in Place : p = at.place /\ machine[p] = "ata" /\ Shape(p)
  BY <1>1, AskingFacts DEF AtaInv
<1>3. /\ disks' = Append(disks, Listed(p, WordIn(p)))
      /\ drive' = [drive EXCEPT ![p] = Resting]
      /\ buffer' = Append(buffer, [k \in 1 .. Words |-> <<"zero">>])
      /\ at' = NextPlace(p)
      /\ UNCHANGED <<machine, selected, media, history>>
  BY <1>2 DEF AddDisk, PushDisk
<1>4. WordIn(p) = Name(p)
  <2>1. drive[p].moved = <<>> /\ drive[p].cmd = "identify"
    BY <1>1, <1>2 DEF Shape, Serves
  <2>2. Holds(p) = Ident(p)
    BY <2>1 DEF Holds
  <2>3. Len(<<>>) + 1 = 1 /\ 1 \in 1 .. Words
    BY Sizes
  <2>4. Ident(p)[1] = <<"ident", p>>
    BY <2>3 DEF Ident
  <2> QED BY <1>1, <1>2, <2>1, <2>2, <2>3, <2>4 DEF WordIn, Name
<1>5. disks' = Add(p, disks)
  BY <1>2, <1>3, <1>4 DEF Add
<1>6. /\ drive' \in [Place -> Drives] /\ drive'[p] = Resting
      /\ \A q \in Place : q # p => drive'[q] = drive[q]
  BY <1>1, <1>3, OneDrive, RestingFacts
<1>7. Listed(p, WordIn(p)) \in [select : 0 .. 3, info : Word]
  BY <1>4, PlaceFacts, WordFacts DEF Listed, Name
<1>8. /\ disks' \in Seq([select : 0 .. 3, info : Word]) /\ Len(disks') = Len(disks) + 1
  BY <1>1, <1>3, <1>7, AppendProperties DEF Typed
<1>9. [k \in 1 .. Words |-> <<"zero">>] \in [1 .. Words -> Word]
  BY WordFacts
<1>10. buffer' \in Seq([1 .. Words -> Word]) /\ Len(buffer') = Len(buffer) + 1
  BY <1>1, <1>3, <1>9, AppendProperties DEF Typed
<1>11. Len(buffer') = Len(disks')
  BY <1>1, <1>8, <1>10 DEF Typed
<1> QED BY <1>1, <1>2, <1>3, <1>5, <1>6, <1>8, <1>10, <1>11, Advance

------------------------------------------------------------------------------
(* The steps of a call.                                                     *)

LEMMA Reduced ==
  ASSUME NEW n \in Nat
  PROVE  n % LbaLimit \in Lba
<1>1. PICK m \in Nat : m = LbaLimit /\ m >= 1
  BY Sizes
<1>2. n % m \in 0 .. m - 1
  BY <1>1
<1> QED BY <1>1, <1>2 DEF Lba

LEMMA FoundFacts ==
  ASSUME AtaInv, ~Searching
  PROVE  /\ ~Asking /\ \A q \in Place : ~Floating(q[1])
         /\ \A q \in Place : ~Serves(q, "identify")
         /\ DOMAIN disks = 1 .. Len(buffer)
<1>1. /\ \A q \in Place : Shape(q)
      /\ \A q \in Place : SelectOf(q) < Looked => ~Floating(q[1])
      /\ Len(buffer) = Len(disks) /\ disks \in Seq([select : 0 .. 3, info : Word])
  BY DEF AtaInv, SearchInv, Typed
<1>2. ~Asking /\ Looked = 4
  BY DEF Asking, Searching, Looked
<1>3. \A q \in Place : SelectOf(q) < 4
  BY PlaceFacts
<1> QED BY <1>1, <1>2, <1>3, LenProperties DEF Shape

LEMMA CallFacts ==
  ASSUME AtaInv, at.call # "identify"
  PROVE  /\ ~Searching /\ ~Asking /\ at.disk \in DOMAIN disks
         /\ at.place \in Place /\ Chosen(at.place[1]) = at.place
         /\ \A q \in Place : ~Floating(q[1]) /\ ~Serves(q, "identify")
         /\ Target \in Lba
         /\ Got \in [1 .. Words -> Word] /\ Asks \in [1 .. Words -> Word]
<1>1. /\ Typed /\ ~Searching /\ at.disk \in DOMAIN disks
      /\ selected[at.place[1]] = at.place[2]
  BY DEF AtaInv, CallInv
<1>2. at.place \in Place /\ at.lba \in Nat
  BY <1>1 DEF Typed
<1>3. Chosen(at.place[1]) = at.place
  BY <1>1, <1>2, PlaceFacts DEF Chosen
<1>4. Target \in Lba
  BY <1>2, Reduced DEF Target
<1>5. Got \in [1 .. Words -> Word]
  BY <1>1, FoundFacts, ElementOfSeq DEF Typed, Got
<1>6. Asks \in [1 .. Words -> Word]
  BY <1>1, <1>2, <1>4 DEF Typed, Asks
<1> QED BY <1>1, <1>2, <1>3, <1>4, <1>5, <1>6, FoundFacts

CallPcs == {"delay", "poll", "words", "flush", "pause", "up"}

(* What no step of a call in hand touches.                                  *)
LEMMA CallStays ==
  ASSUME AtaInv, at.call # "identify", UNCHANGED <<machine, selected, media, disks>>,
         at'.pc \in CallPcs, at'.place = at.place, at'.call = at.call,
         at'.disk = at.disk, at'.lba = at.lba
  PROVE  /\ SearchInv' /\ ~Searching' /\ ~Asking'
         /\ Target' = Target /\ Asks' = Asks
         /\ at'.disk \in DOMAIN disks' /\ at'.place = DriveOf(disks'[at'.disk].select)
         /\ selected'[at'.place[1]] = at'.place[2]
         /\ \A q : Present(q)' = Present(q)
         /\ \A q : Sectors(q)' = Sectors(q)
         /\ \A v : Whole(v)' = Whole(v)
         /\ Junk' = Junk
<1>1. ~Searching' /\ ~Asking'
  BY DEF Searching, Asking, CallPcs
<1>2. SearchInv'
  <2>1. Looked' = Looked
    BY <1>1, CallFacts DEF Looked
  <2>2. disks = Found(Looked) /\ \A q \in Place : SelectOf(q) < Looked => ~Floating(q[1])
    BY DEF AtaInv, SearchInv
  <2>3. \A n : Found(n)' = Found(n)
    BY DEF Found, Add
  <2>4. at'.pc \notin {"wait data", "take ident"}
    BY DEF CallPcs
  <2> QED BY <1>1, <2>1, <2>2, <2>3, <2>4 DEF SearchInv, Floating
<1>3. Target' = Target /\ Asks' = Asks
  BY DEF Target, Asks
<1> QED BY <1>1, <1>2, <1>3 DEF Present, Sectors, Whole, Junk, AtaInv, CallInv

LEMMA PcTo ==
  ASSUME Typed, NEW x \in Pcs, at' = [at EXCEPT !.pc = x]
  PROVE  /\ at' \in [pc : Pcs, place : Place, call : {"identify", "read", "write"},
                     disk : Nat, lba : Nat, word : 0 .. Words]
         /\ at'.pc = x /\ at'.place = at.place /\ at'.call = at.call
         /\ at'.disk = at.disk /\ at'.lba = at.lba /\ at'.word = at.word
  BY DEF Typed

(* A step of a call that leaves the drives and the buffers alone.           *)
LEMMA QuietCall ==
  ASSUME drive' = drive, buffer' = buffer, media' = media, at'.place = at.place,
         at'.disk = at.disk, at'.lba = at.lba, history'.failed = history.failed
  PROVE  /\ \A q : Serving(q)' <=> Serving(q)
         /\ Serves(at.place, "read")' <=> Serves(at.place, "read")
         /\ Got' = Got /\ Target' = Target /\ Asks' = Asks /\ Junk' = Junk
         /\ Refused' <=> Refused
         /\ Taking(0)' <=> Taking(0)
         /\ Stored' <=> Stored
<1>1. Got' = Got /\ Target' = Target /\ Asks' = Asks /\ Junk' = Junk
  BY DEF Got, Target, Asks, Junk
<1>2. /\ \A q : Serving(q)' <=> Serving(q)
      /\ Serves(at.place, "read")' <=> Serves(at.place, "read")
      /\ Refused' <=> Refused
  BY DEF Serves, Serving, Refused
<1>3. Taking(0)' <=> Taking(0)
  BY <1>1 DEF Taking, Serves, Serving
<1>4. Stored' <=> Stored
  BY <1>1 DEF Stored
<1> QED BY <1>1, <1>2, <1>3, <1>4

LEMMA DelayKeeps ==
  ASSUME AtaInv, Delay
  PROVE  AtaInv'
<1>1. /\ Typed /\ SearchInv /\ CallInv /\ ReadInv /\ ZeroInv /\ WriteInv
      /\ \A q \in Place : Shape(q)
      /\ at.pc = "delay" /\ drive[at.place].phase # "lag"
      /\ UNCHANGED <<machine, selected, drive, media, disks, buffer>>
  BY DEF AtaInv, Delay, LongEnough, world
<1>2. at.call \in {"read", "write"} /\ at.word = 0
  BY <1>1 DEF Typed, CallInv, Searching
<1>3. PICK x \in {"poll", "words"} : /\ x = AfterDelay
                                   /\ (x = "poll" <=> at.call = "read")
  BY <1>2 DEF AfterDelay
<1>4. /\ at' \in [pc : Pcs, place : Place, call : {"identify", "read", "write"},
                  disk : Nat, lba : Nat, word : 0 .. Words]
      /\ at'.pc = x /\ at'.place = at.place /\ at'.call = at.call
      /\ at'.disk = at.disk /\ at'.lba = at.lba /\ at'.word = at.word
  BY <1>1, <1>3, PcTo DEF Delay, Pcs
<1>5. /\ history' \in [writes : Nat, failed : BOOLEAN, late : BOOLEAN]
      /\ history'.writes = history.writes /\ history'.failed = history.failed
      /\ ~history'.late => ~history.late /\ ~(at.call = "write" /\ BSY(at.place[1]))
  BY <1>1 DEF Typed, Delay
<1>6. Typed'
  BY <1>1, <1>4, <1>5 DEF Typed
<1>7. /\ SearchInv' /\ ~Searching' /\ ~Asking'
      /\ Target' = Target /\ Asks' = Asks /\ Got' = Got
      /\ at'.disk \in DOMAIN disks' /\ at'.place = DriveOf(disks'[at'.disk].select)
      /\ selected'[at'.place[1]] = at'.place[2]
      /\ \A q : Present(q)' = Present(q)
      /\ \A q : Sectors(q)' = Sectors(q)
      /\ \A v : Whole(v)' = Whole(v)
      /\ Junk' = Junk
  BY <1>1, <1>2, <1>3, <1>4, CallStays DEF CallPcs, Got
<1>8. ASSUME NEW q \in Place PROVE Shape(q)'
  <2>1. Shape(q) /\ ~Serves(q, "identify") /\ drive[q].phase # "lag"
    BY <1>1, <1>2, CallFacts DEF Shape
  <2>2. Serves(q, "read") => q = at.place /\ at.call = "read"
    BY <2>1 DEF Shape
  <2> QED BY <1>1, <1>3, <1>4, <1>7, <2>1, <2>2 DEF Shape, Serves, Serving
<1>9. CallInv'
  BY <1>2, <1>3, <1>4, <1>7, Sizes DEF CallInv
<1>q. /\ \A q : Serving(q)' <=> Serving(q)
      /\ Serves(at.place, "read")' <=> Serves(at.place, "read")
      /\ Refused' <=> Refused
      /\ Taking(0)' <=> Taking(0)
  BY <1>1, <1>4, <1>5, QuietCall
<1>10. ReadInv' /\ ZeroInv'
  <2>1. ReadInv'
    <3> SUFFICES ASSUME at.call = "read" PROVE ReadInv'
      BY <1>4 DEF ReadInv
    <3>1. x = "poll"
      BY <1>3
    <3> QED BY <1>1, <1>4, <1>7, <1>q, <3>1 DEF ReadInv
  <2>2. ZeroInv'
    <3> SUFFICES ASSUME history.writes = 0 PROVE ZeroInv'
      BY <1>5 DEF ZeroInv
    <3>1. at.call = "read" /\ media = [q \in Place |-> Sectors(q)]
      BY <1>1, <1>2 DEF ZeroInv
    <3>2. ~history.failed => Serves(at.place, "read")
      BY <1>1, <3>1 DEF ZeroInv
    <3> QED BY <1>1, <1>3, <1>4, <1>5, <1>7, <1>q, <3>1, <3>2 DEF ZeroInv
  <2> QED BY <2>1, <2>2
<1>11. WriteInv'
  <2>1. ~history'.late /\ at.call = "write" =>
           Refused' \/ (Taking(0)' /\ drive[at.place].phase = "data")
    <3> SUFFICES ASSUME ~history'.late, at.call = "write"
                 PROVE  Refused' \/ (Taking(0)' /\ drive[at.place].phase = "data")
      OBVIOUS
    <3>1. drive[at.place].phase \notin {"busy", "storing"}
      BY <1>2, <1>5, CallFacts DEF BSY
    <3>2. Refused \/ Taking(0)
      BY <1>1, <1>5 DEF WriteInv
    <3>3. Taking(0) => drive[at.place].phase = "data"
      BY <1>1, <3>1 DEF Taking, Serves, Serving
    <3> QED BY <1>q, <3>2, <3>3
  <2>2. ASSUME NEW q \in Place, ~history.late, Serves(q, "write")
        PROVE  q = at.place /\ at.call = "write" /\ x = "words"
    BY <1>1, <1>3, <2>2 DEF WriteInv
  <2> QED BY <1>1, <1>2, <1>3, <1>4, <1>5, <1>7, <1>q, <2>1, <2>2 DEF WriteInv, Serves, Serving
<1> QED BY <1>6, <1>7, <1>8, <1>9, <1>10, <1>11 DEF AtaInv

LEMMA PollKeeps ==
  ASSUME AtaInv, Poll
  PROVE  AtaInv'
<1>1. /\ Typed /\ SearchInv /\ CallInv /\ ReadInv /\ ZeroInv /\ WriteInv
      /\ \A q \in Place : Shape(q)
      /\ at.pc = "poll"
      /\ UNCHANGED <<machine, selected, drive, media, disks, buffer, history>>
  BY DEF AtaInv, Poll, world
<1>2. at.call = "read" /\ at.word = 0
  BY <1>1 DEF Typed, CallInv, Searching
<1>3. CASE KeepPolling
  <2>1. UNCHANGED vars
    BY <1>1, <1>3 DEF Poll, vars
  <2> QED BY <2>1, Nothing
<1>4. CASE ~KeepPolling
  <2>1. at' = [at EXCEPT !.pc = "words"] /\ "words" \in Pcs
    BY <1>4 DEF Poll, Pcs
  <2>2. /\ at' \in [pc : Pcs, place : Place, call : {"identify", "read", "write"},
                    disk : Nat, lba : Nat, word : 0 .. Words]
        /\ at'.pc = "words" /\ at'.place = at.place /\ at'.call = at.call
        /\ at'.disk = at.disk /\ at'.lba = at.lba /\ at'.word = at.word
    BY <1>1, <2>1, PcTo
  <2>3. Typed'
    BY <1>1, <2>2 DEF Typed
  <2>4. /\ SearchInv' /\ ~Searching' /\ ~Asking'
        /\ at'.disk \in DOMAIN disks' /\ at'.place = DriveOf(disks'[at'.disk].select)
        /\ selected'[at'.place[1]] = at'.place[2]
        /\ \A q : Present(q)' = Present(q)
        /\ \A q : Sectors(q)' = Sectors(q)
        /\ \A v : Whole(v)' = Whole(v)
    BY <1>1, <1>2, <2>2, CallStays DEF CallPcs
  <2>5. /\ \A q : Serving(q)' <=> Serving(q)
        /\ Serves(at.place, "read")' <=> Serves(at.place, "read")
        /\ Got' = Got /\ Target' = Target /\ Asks' = Asks /\ Junk' = Junk
    BY <1>1, <2>2, QuietCall
  <2>6. drive[at.place].phase \notin {"lag", "busy"}
    <3>1. drive[at.place].phase # "lag"
      BY <1>1 DEF Shape, Typed
    <3>2. drive[at.place].phase # "busy"
      BY <1>2, <1>4, CallFacts DEF KeepPolling, BSY, DRQ
    <3> QED BY <3>1, <3>2
  <2>7. ASSUME NEW q \in Place PROVE Shape(q)'
    <3>1. Shape(q) /\ ~Serves(q, "identify") /\ drive[q].phase # "lag"
      BY <1>1, <1>2, CallFacts DEF Shape
    <3>2. Serves(q, "read") => q = at.place /\ at.call = "read"
      BY <3>1 DEF Shape
    <3> QED BY <1>1, <2>2, <2>4, <3>1, <3>2 DEF Shape, Serves, Serving
  <2>8. CallInv'
    BY <1>2, <2>2, <2>4, Sizes DEF CallInv
  <2>9. ReadInv'
    BY <1>1, <1>2, <2>2, <2>5, <2>6 DEF ReadInv
  <2>10. ZeroInv'
    BY <1>1, <1>2, <2>2, <2>4, <2>5 DEF ZeroInv
  <2>11. WriteInv'
    <3>1. ~history.late => \A q \in Place : ~Serves(q, "write")
      BY <1>1, <1>2 DEF WriteInv
    <3> QED BY <1>1, <1>2, <2>2, <2>4, <3>1 DEF WriteInv, Serves, Serving
  <2> QED BY <2>3, <2>4, <2>7, <2>8, <2>9, <2>10, <2>11 DEF AtaInv
<1> QED BY <1>3, <1>4

LEMMA PauseKeeps ==
  ASSUME AtaInv, Pause
  PROVE  AtaInv'
<1>1. /\ Typed /\ SearchInv /\ CallInv /\ ReadInv /\ ZeroInv /\ WriteInv
      /\ \A q \in Place : Shape(q)
      /\ at.pc = "pause" /\ drive[at.place].phase # "lag"
      /\ at' = [at EXCEPT !.pc = "up"] /\ "up" \in Pcs
      /\ UNCHANGED <<machine, selected, drive, media, disks, buffer, history>>
  BY DEF AtaInv, Pause, LongEnough, world, Pcs
<1>2. at.call \in {"read", "write"}
  BY <1>1 DEF Typed, CallInv, Searching
<1>3. /\ at' \in [pc : Pcs, place : Place, call : {"identify", "read", "write"},
                  disk : Nat, lba : Nat, word : 0 .. Words]
      /\ at'.pc = "up" /\ at'.place = at.place /\ at'.call = at.call
      /\ at'.disk = at.disk /\ at'.lba = at.lba /\ at'.word = at.word
  BY <1>1, PcTo
<1>4. Typed'
  BY <1>1, <1>3 DEF Typed
<1>5. /\ SearchInv' /\ ~Searching' /\ ~Asking'
      /\ at'.disk \in DOMAIN disks' /\ at'.place = DriveOf(disks'[at'.disk].select)
      /\ selected'[at'.place[1]] = at'.place[2]
      /\ \A q : Present(q)' = Present(q)
      /\ \A q : Sectors(q)' = Sectors(q)
      /\ \A v : Whole(v)' = Whole(v)
  BY <1>1, <1>2, <1>3, CallStays DEF CallPcs
<1>6. /\ \A q : Serving(q)' <=> Serving(q)
      /\ Serves(at.place, "read")' <=> Serves(at.place, "read")
      /\ Got' = Got /\ Target' = Target /\ Asks' = Asks /\ Junk' = Junk
      /\ Refused' <=> Refused
      /\ Stored' <=> Stored
  BY <1>1, <1>3, QuietCall
<1>7. ASSUME NEW q \in Place PROVE Shape(q)'
  <2>1. /\ Shape(q) /\ ~Serves(q, "identify") /\ ~Serves(q, "read")
        /\ drive[q].phase # "lag"
    BY <1>1, <1>2, CallFacts DEF Shape
  <2> QED BY <1>1, <1>3, <1>5, <2>1 DEF Shape, Serves, Serving
<1>8. CallInv'
  BY <1>2, <1>3, <1>5 DEF CallInv
<1>9. ReadInv'
  <2>1. ~Serves(at.place, "read")
    BY <1>1 DEF Shape, Typed
  <2> QED BY <1>1, <1>2, <1>3, <1>6, <2>1 DEF ReadInv
<1>10. ZeroInv'
  BY <1>1, <1>2, <1>3, <1>5, <1>6 DEF ZeroInv
<1>11. WriteInv'
  <2>1. ~history.late => \A q \in Place : ~Serves(q, "write")
    BY <1>1 DEF WriteInv
  <2> QED BY <1>1, <1>2, <1>3, <1>5, <1>6, <2>1 DEF WriteInv, Serves, Serving
<1> QED BY <1>4, <1>5, <1>7, <1>8, <1>9, <1>10, <1>11 DEF AtaInv

(* One word further.                                                        *)
LEMMA WordDone ==
  ASSUME Typed, at.word < Words, NEW x \in Pcs,
         at' = [at EXCEPT !.word = @ + 1, !.pc = x]
  PROVE  /\ at' \in [pc : Pcs, place : Place, call : {"identify", "read", "write"},
                     disk : Nat, lba : Nat, word : 0 .. Words]
         /\ at'.pc = x /\ at'.place = at.place /\ at'.call = at.call
         /\ at'.disk = at.disk /\ at'.lba = at.lba /\ at'.word = at.word + 1
<1>1. PICK n \in Nat : n = at.word /\ n < Words /\ n + 1 \in 0 .. Words
  BY Sizes DEF Typed
<1>2. PICK a : a = [at EXCEPT !.word = n + 1]
  OBVIOUS
<1>3. /\ a \in [pc : Pcs, place : Place, call : {"identify", "read", "write"},
                disk : Nat, lba : Nat, word : 0 .. Words]
      /\ a.place = at.place /\ a.call = at.call
      /\ a.disk = at.disk /\ a.lba = at.lba /\ a.word = n + 1
  BY <1>1, <1>2 DEF Typed
<1>4. at' = [a EXCEPT !.pc = x]
  BY <1>1, <1>2
<1> QED BY <1>1, <1>3, <1>4

LEMMA BufferWord ==
  ASSUME Typed, at.call # "identify", AtaInv, NEW k \in 1 .. Words, NEW w \in Word,
         buffer' = [buffer EXCEPT ![at.disk][k] = w], at'.disk = at.disk
  PROVE  /\ buffer' \in Seq([1 .. Words -> Word]) /\ Len(buffer') = Len(buffer)
         /\ Got' \in [1 .. Words -> Word] /\ Got'[k] = w
         /\ \A j \in 1 .. Words : j # k => Got'[j] = Got[j]
<1>1. PICK i : i = at.disk /\ i \in 1 .. Len(buffer)
  BY CallFacts, FoundFacts
<1>2. PICK f \in [1 .. Words -> Word] : f = buffer[i]
  BY <1>1, CallFacts DEF Got
<1>3. PICK g : g = [f EXCEPT ![k] = w]
  OBVIOUS
<1>4. g \in [1 .. Words -> Word] /\ g[k] = w /\ \A j \in 1 .. Words : j # k => g[j] = f[j]
  BY <1>3
<1>5. buffer' = [buffer EXCEPT ![i] = g]
  BY <1>1, <1>2, <1>3
<1>6. buffer' \in Seq([1 .. Words -> Word]) /\ Len(buffer') = Len(buffer) /\ buffer'[i] = g
  BY <1>1, <1>4, <1>5, ExceptSeq, LenProperties DEF Typed
<1>7. Got' = g
  BY <1>1, <1>6 DEF Got
<1> QED BY <1>1, <1>2, <1>4, <1>6, <1>7 DEF Got

(* The word that a drive serving a read gives is the next of its sector.    *)
LEMMA NextOfSector ==
  ASSUME AtaInv, at.call = "read", at.pc = "words"
  PROVE  /\ Serves(at.place, "read") =>
              /\ drive[at.place].phase = "data" /\ WordIn(at.place) = Asks[at.word + 1]
         /\ ~Serves(at.place, "read") =>
              /\ WordIn(at.place) = <<"junk">>
              /\ drive[at.place].phase = "data" => drive[at.place].cmd = "write"
<1>1. PICK p \in Place : p = at.place /\ Shape(p)
  BY DEF AtaInv, Typed
<1>2. drive[p].phase \notin {"lag", "busy"} /\ ~Serves(p, "identify")
  BY <1>1, CallFacts DEF AtaInv, ReadInv
<1>3. Serves(p, "read") =>
        drive[p].lba = Target /\ Len(drive[p].moved) = at.word
  BY <1>1 DEF AtaInv, ReadInv
<1>4. CASE Serves(p, "read")
  <2>1. drive[p].phase = "data" /\ drive[p].cmd = "read"
    BY <1>2, <1>4 DEF Serves, Serving
  <2>2. Holds(p) = media[p][Target]
    BY <1>3, <1>4, <2>1 DEF Holds
  <2>3. WordIn(p) = media[p][Target][at.word + 1]
    BY <1>3, <1>4, <2>1, <2>2 DEF WordIn
  <2> QED BY <1>1, <1>4, <2>1, <2>3 DEF Asks
<1>5. CASE ~Serves(p, "read")
  BY <1>1, <1>2, <1>5 DEF WordIn, Serves, Serving, Shape
<1> QED BY <1>1, <1>4, <1>5

LEMMA ReadWordKeeps ==
  ASSUME AtaInv, ReadWord
  PROVE  AtaInv'
<1>1. /\ Typed /\ SearchInv /\ CallInv /\ ReadInv /\ ZeroInv /\ WriteInv
      /\ \A q \in Place : Shape(q)
      /\ at.pc = "words" /\ at.call = "read"
      /\ UNCHANGED <<machine, selected, media, disks, history>>
  BY DEF AtaInv, ReadWord
<1>2. PICK p \in Place : p = at.place
  BY <1>1 DEF Typed
<1>3. PICK n \in Nat : n = at.word /\ n < Words /\ n + 1 \in 1 .. Words
  BY <1>1, Sizes DEF Typed, CallInv
<1>4. PICK w \in Word : w = WordIn(p)
  BY <1>1, WordInType
<1>5. PICK x \in Pcs : /\ x = (IF n + 1 = Words THEN "pause" ELSE "words")
  BY DEF Pcs
<1>6. /\ at' \in [pc : Pcs, place : Place, call : {"identify", "read", "write"},
                  disk : Nat, lba : Nat, word : 0 .. Words]
      /\ at'.pc = x /\ at'.place = p /\ at'.call = "read"
      /\ at'.disk = at.disk /\ at'.lba = at.lba /\ at'.word = n + 1
  <2>1. at' = [at EXCEPT !.word = @ + 1, !.pc = x]
    BY <1>1, <1>3, <1>5 DEF ReadWord, NextWord, Typed
  <2> QED BY <1>1, <1>2, <1>3, <2>1, WordDone
<1>7. /\ buffer' \in Seq([1 .. Words -> Word]) /\ Len(buffer') = Len(buffer)
      /\ Got' \in [1 .. Words -> Word] /\ Got'[n + 1] = w
      /\ \A j \in 1 .. Words : j # n + 1 => Got'[j] = Got[j]
  <2>1. buffer' = [buffer EXCEPT ![at.disk][n + 1] = w]
    BY <1>2, <1>3, <1>4 DEF ReadWord
  <2> QED BY <1>1, <1>3, <1>6, <2>1, BufferWord
<1>8. drive' = AfterWord(p, w) /\ Shape(p)
  BY <1>1, <1>2, <1>4 DEF ReadWord
<1>9. /\ drive' \in [Place -> Drives] /\ \A q \in Place : q # p => drive'[q] = drive[q]
      /\ drive[p].phase # "data" => drive'[p] = drive[p]
  BY <1>1, <1>8, AfterWordIs
<1>10. drive[p].phase = "data" =>
         \/ /\ Len(drive[p].moved) + 1 < Words
            /\ drive'[p].phase = "data" /\ drive'[p].cmd = drive[p].cmd
            /\ drive'[p].lba = drive[p].lba /\ Len(drive'[p].moved) = Len(drive[p].moved) + 1
         \/ /\ Len(drive[p].moved) + 1 = Words /\ drive[p].cmd = "write"
            /\ drive'[p].phase = "storing" /\ drive'[p].cmd = "write"
            /\ Len(drive'[p].moved) = Words
         \/ /\ Len(drive[p].moved) + 1 = Words /\ drive[p].cmd # "write"
            /\ drive'[p] = Resting
  <2> SUFFICES ASSUME drive[p].phase = "data"
               PROVE  \/ /\ Len(drive[p].moved) + 1 < Words
                         /\ drive'[p].phase = "data" /\ drive'[p].cmd = drive[p].cmd
                         /\ drive'[p].lba = drive[p].lba
                         /\ Len(drive'[p].moved) = Len(drive[p].moved) + 1
                      \/ /\ Len(drive[p].moved) + 1 = Words /\ drive[p].cmd = "write"
                         /\ drive'[p].phase = "storing" /\ drive'[p].cmd = "write"
                         /\ Len(drive'[p].moved) = Words
                      \/ /\ Len(drive[p].moved) + 1 = Words /\ drive[p].cmd # "write"
                         /\ drive'[p] = Resting
    OBVIOUS
  <2>1. PICK m \in Seq(Word) :
          /\ Len(m) = Len(drive[p].moved) + 1
          /\ \/ /\ Len(m) < Words
                /\ drive'[p] = [phase |-> "data", cmd |-> drive[p].cmd,
                                lba |-> drive[p].lba, moved |-> m]
             \/ /\ Len(m) = Words /\ drive[p].cmd = "write"
                /\ drive'[p] = [phase |-> "storing", cmd |-> "write",
                                lba |-> drive[p].lba, moved |-> m]
             \/ Len(m) = Words /\ drive[p].cmd # "write" /\ drive'[p] = Resting
    BY <1>1, <1>8, AfterWordIs
  <2> QED BY <2>1
<1>11. /\ Serves(p, "read") => drive[p].phase = "data" /\ w = Asks[n + 1]
       /\ ~Serves(p, "read") => /\ w = <<"junk">>
                                /\ drive[p].phase = "data" => drive[p].cmd = "write"
  BY <1>1, <1>2, <1>3, <1>4, NextOfSector
<1>12. Typed'
  BY <1>1, <1>6, <1>7, <1>9 DEF Typed
<1>13. /\ SearchInv' /\ ~Searching' /\ ~Asking'
       /\ at'.disk \in DOMAIN disks' /\ at'.place = DriveOf(disks'[at'.disk].select)
       /\ selected'[at'.place[1]] = at'.place[2]
       /\ Target' = Target /\ Asks' = Asks /\ Junk' = Junk
       /\ \A q : Present(q)' = Present(q)
       /\ \A q : Sectors(q)' = Sectors(q)
       /\ \A v : Whole(v)' = Whole(v)
  BY <1>1, <1>2, <1>5, <1>6, CallStays DEF CallPcs
<1>14. /\ Serves(p, "read") => /\ drive[p].cmd = "read" /\ drive[p].lba = Target
                               /\ Len(drive[p].moved) = n
                               /\ \A k \in 1 .. n : Got[k] = Asks[k]
       /\ ~Serves(p, "read") => \A k \in 1 .. n : Got[k] = <<"junk">>
       /\ drive[p].phase \notin {"lag", "busy"}
  BY <1>1, <1>2, <1>3 DEF ReadInv, Serves
<1>15. /\ ~Serves(p, "identify")
       /\ Serves(p, "read")' => Serves(p, "read") /\ n + 1 < Words
       /\ Serves(p, "read") => Serves(p, "read")' \/ (n + 1 = Words /\ drive'[p] = Resting)
  <2>1. ~Serves(p, "identify")
    BY <1>1, CallFacts
  <2> QED BY <1>9, <1>10, <1>11, <1>14, <2>1, RestingFacts DEF Serves, Serving
<1>16. ASSUME NEW q \in Place PROVE Shape(q)'
  <2>1. /\ Shape(q) /\ ~Serves(q, "identify") /\ (q # p => ~Serves(q, "read"))
        /\ (drive[q].phase = "lag" => q = p)
    BY <1>1, <1>2, CallFacts DEF Shape
  <2>2. CASE q # p
    BY <1>1, <1>9, <1>13, <2>1, <2>2 DEF Shape, Serves, Serving
  <2>3. CASE q = p
    <3>1. CASE drive[p].phase # "data"
      <4>1. ~Serves(p, "read")
        BY <1>14, <3>1 DEF Serves, Serving
      <4> QED BY <1>1, <1>9, <1>13, <1>14, <2>1, <2>3, <3>1, <4>1 DEF Shape, Serves, Serving
    <3>2. CASE drive[p].phase = "data"
      <4>1. drive[p].cmd \in {"read", "write"}
        BY <1>11, <1>14, <3>2
      <4>2. /\ drive'[p].phase = "data" =>
                 Len(drive'[p].moved) < Words /\ drive'[p].cmd = drive[p].cmd
            /\ drive'[p].phase = "storing" => Len(drive'[p].moved) = Words /\ drive'[p].cmd = "write"
            /\ drive'[p].phase \in {"data", "storing"} \/ drive'[p] = Resting
        BY <1>10, <3>2, RestingFacts
      <4>3. Present(p)
        BY <1>8, <3>2, RestingFacts DEF Shape
      <4>4. Serves(p, "read")' => x = "words"
        BY <1>5, <1>15
      <4> QED BY <1>6, <1>13, <2>3, <4>1, <4>2, <4>3, <4>4, RestingFacts
              DEF Shape, Serves, Serving
    <3> QED BY <3>1, <3>2
  <2> QED BY <2>2, <2>3
<1>17. CallInv'
  <2>1. x \in {"words", "pause"} /\ (x = "words" => n + 1 < Words)
    BY <1>3, <1>5, Sizes
  <2> QED BY <1>6, <1>13, <2>1 DEF CallInv
<1>18. /\ n + 1 = Words /\ Serves(p, "read") => Got' = Asks
       /\ n + 1 = Words /\ ~Serves(p, "read") => Got' = Junk
       /\ Serves(p, "read") => \A k \in 1 .. n + 1 : Got'[k] = Asks[k]
       /\ ~Serves(p, "read") => \A k \in 1 .. n + 1 : Got'[k] = <<"junk">>
  <2>1. /\ Serves(p, "read") => \A k \in 1 .. n + 1 : Got'[k] = Asks[k]
        /\ ~Serves(p, "read") => \A k \in 1 .. n + 1 : Got'[k] = <<"junk">>
    <3>1. ASSUME NEW k \in 1 .. n + 1
          PROVE  k \in 1 .. Words /\ (k = n + 1 \/ (k \in 1 .. n /\ k # n + 1))
      BY <1>3, Sizes
    <3> QED BY <1>7, <1>11, <1>14, <3>1
  <2>2. Asks \in [1 .. Words -> Word] /\ Junk \in [1 .. Words -> Word]
    BY <1>1, CallFacts, WordFacts DEF Junk
  <2>3. \A k \in 1 .. Words : Junk[k] = <<"junk">>
    BY DEF Junk
  <2>4. PICK a \in [1 .. Words -> Word], b \in [1 .. Words -> Word], g \in [1 .. Words -> Word] :
          a = Asks /\ b = Junk /\ g = Got'
    BY <1>7, <2>2
  <2>5. n + 1 = Words /\ Serves(p, "read") => g = a
    BY <2>1, <2>4
  <2>6. n + 1 = Words /\ ~Serves(p, "read") => g = b
    BY <2>1, <2>3, <2>4
  <2> QED BY <2>1, <2>4, <2>5, <2>6
<1>19. ReadInv'
  <2>1. Serves(p, "read")' =>
          /\ drive'[p].lba = Target /\ Len(drive'[p].moved) = n + 1
          /\ \A k \in 1 .. n + 1 : Got'[k] = Asks[k]
    BY <1>10, <1>11, <1>14, <1>15, <1>18
  <2>2. x = "words" /\ ~Serves(p, "read")' => \A k \in 1 .. n + 1 : Got'[k] = <<"junk">>
    BY <1>5, <1>15, <1>18
  <2>3. drive'[p].phase \notin {"lag", "busy"}
    BY <1>9, <1>10, <1>14, RestingFacts
  <2>4. x = "pause" => (drive'[p].phase = "idle" /\ Got' = Asks) \/ Got' = Junk
    BY <1>5, <1>15, <1>18, RestingFacts
  <2>5. x # "up"
    BY <1>5
  <2> QED BY <1>6, <1>13, <2>1, <2>2, <2>3, <2>4, <2>5 DEF ReadInv, Serves, Serving
<1>20. ZeroInv'
  <2> SUFFICES ASSUME history.writes = 0 PROVE ZeroInv'
    BY <1>1 DEF ZeroInv
  <2>1. ASSUME NEW q \in Place
        PROVE  /\ drive'[q].cmd \notin {"write", "flush"}
               /\ Serving(q)' => drive'[q].cmd \in {"identify", "read"}
    <3>1. /\ drive[q].cmd \notin {"write", "flush"}
          /\ Serving(q) => drive[q].cmd \in {"identify", "read"}
      BY <1>1 DEF ZeroInv
    <3>2. CASE q # p
      BY <1>9, <3>1, <3>2 DEF Serving
    <3>3. CASE q = p
      BY <1>9, <1>10, <3>1, <3>3, RestingFacts DEF Serving
    <3> QED BY <3>2, <3>3
  <2>2. ~history.failed => Serves(p, "read") /\ x \in {"words", "pause"}
    BY <1>1, <1>2, <1>5 DEF ZeroInv
  <2>3. media = [q \in Place |-> Sectors(q)]
    BY <1>1 DEF ZeroInv
  <2>4. ~history.failed => /\ x = "words" => Serves(p, "read")'
                           /\ x = "pause" => Got' = Asks
    BY <1>3, <1>5, <1>15, <1>18, <2>2
  <2> QED BY <1>1, <1>6, <1>13, <2>1, <2>2, <2>3, <2>4 DEF ZeroInv, Serves, Serving
<1>21. WriteInv'
  <2> SUFFICES ASSUME ~history.late PROVE WriteInv'
    BY <1>1, <1>6 DEF WriteInv
  <2>1. \A q \in Place : ~Serves(q, "write")
    BY <1>1 DEF WriteInv
  <2>2. drive[p].phase = "data" => drive'[p].phase # "storing" /\ drive'[p].cmd # "write"
    BY <1>10, <2>1, RestingFacts DEF Serves, Serving
  <2>3. ASSUME NEW q \in Place
        PROVE  /\ ~Serves(q, "write")'
               /\ drive'[q].phase = "storing" => \E v \in Values : drive'[q].moved = Whole(v)
    <3>1. drive[q].phase = "storing" => \E v \in Values : drive[q].moved = Whole(v)
      BY <1>1 DEF WriteInv
    <3>2. CASE drive'[q] = drive[q]
      BY <2>1, <3>1, <3>2 DEF Serves, Serving
    <3>3. CASE q = p /\ drive[p].phase = "data"
      BY <2>2, <3>3 DEF Serves
    <3> QED BY <1>9, <3>2, <3>3
  <2>4. \A q \in Place, l \in Lba :
          media[q][l] \in {Sectors(q)[l]} \cup {Whole(v) : v \in Values}
    BY <1>1 DEF WriteInv
  <2> QED BY <1>1, <1>6, <1>13, <2>3, <2>4 DEF WriteInv
<1> QED BY <1>12, <1>13, <1>16, <1>17, <1>19, <1>20, <1>21 DEF AtaInv

(* A word of a write goes to a drive that takes it, or to none.             *)
LEMMA WriteWordKeeps ==
  ASSUME AtaInv, WriteWord
  PROVE  AtaInv'
<1>1. /\ Typed /\ SearchInv /\ CallInv /\ ReadInv /\ ZeroInv /\ WriteInv
      /\ \A q \in Place : Shape(q)
      /\ at.pc = "words" /\ at.call = "write"
      /\ at' = [at EXCEPT !.pc = "flush"] /\ "flush" \in Pcs
      /\ UNCHANGED <<machine, selected, media, disks, buffer, history>>
  BY DEF AtaInv, WriteWord, Pcs
<1>2. PICK p \in Place : p = at.place
  BY <1>1 DEF Typed
<1>3. PICK n \in Nat : n = at.word /\ n < Words /\ n + 1 \in 1 .. Words
  BY <1>1, Sizes DEF Typed, CallInv
<1>4. PICK w \in Word : w = Got[n + 1]
  BY <1>1, <1>3, CallFacts
<1>5. /\ at' \in [pc : Pcs, place : Place, call : {"identify", "read", "write"},
                  disk : Nat, lba : Nat, word : 0 .. Words]
      /\ at'.pc = "flush" /\ at'.place = p /\ at'.call = "write"
      /\ at'.disk = at.disk /\ at'.lba = at.lba /\ at'.word = n
  BY <1>1, <1>2, <1>3, PcTo
<1>6. drive' = AfterWord(p, w) /\ Shape(p)
  BY <1>1, <1>2, <1>3, <1>4 DEF WriteWord, Got
<1>7. /\ drive' \in [Place -> Drives] /\ \A q \in Place : q # p => drive'[q] = drive[q]
      /\ drive[p].phase # "data" => drive'[p] = drive[p]
  BY <1>1, <1>6, AfterWordIs
<1>8. ASSUME drive[p].phase = "data"
      PROVE  \E m \in Seq(Word) :
               /\ m = Append(drive[p].moved, w) /\ Len(m) = Len(drive[p].moved) + 1
               /\ \/ /\ Len(m) < Words
                     /\ drive'[p] = [phase |-> "data", cmd |-> "write",
                                     lba |-> drive[p].lba, moved |-> m]
                  \/ /\ Len(m) = Words
                     /\ drive'[p] = [phase |-> "storing", cmd |-> "write",
                                     lba |-> drive[p].lba, moved |-> m]
  <2>1. ~Serves(p, "identify") /\ ~Serves(p, "read")
    BY <1>1, <1>6, CallFacts DEF Shape
  <2>2. drive[p].cmd = "write"
    BY <1>6, <1>8, <2>1 DEF Shape, Serves, Serving
  <2> QED BY <1>1, <1>6, <1>8, <2>2, AfterWordIs
<1>9. Typed'
  BY <1>1, <1>5, <1>7 DEF Typed
<1>10. /\ SearchInv' /\ ~Searching' /\ ~Asking'
       /\ at'.disk \in DOMAIN disks' /\ at'.place = DriveOf(disks'[at'.disk].select)
       /\ selected'[at'.place[1]] = at'.place[2]
       /\ Target' = Target /\ Asks' = Asks
       /\ \A q : Present(q)' = Present(q)
       /\ \A q : Sectors(q)' = Sectors(q)
       /\ \A v : Whole(v)' = Whole(v)
  BY <1>1, <1>2, <1>5, CallStays DEF CallPcs
<1>11. Got' = Got
  BY <1>1, <1>5 DEF Got
<1>12. ASSUME NEW q \in Place PROVE Shape(q)'
  <2>1. /\ Shape(q) /\ ~Serves(q, "identify") /\ ~Serves(q, "read")
        /\ (drive[q].phase = "lag" => q = p)
    BY <1>1, <1>2, CallFacts DEF Shape
  <2>2. CASE drive'[q] = drive[q]
    BY <1>1, <1>5, <1>10, <2>1, <2>2 DEF Shape, Serves, Serving
  <2>3. CASE q = p /\ drive[p].phase = "data"
    <3>1. /\ drive'[p].phase \in {"data", "storing"} /\ drive'[p].cmd = "write"
          /\ drive'[p].phase = "data" => Len(drive'[p].moved) < Words
          /\ drive'[p].phase = "storing" => Len(drive'[p].moved) = Words
      <4>1. PICK m \in Seq(Word) :
              \/ /\ Len(m) < Words
                 /\ drive'[p] = [phase |-> "data", cmd |-> "write",
                                 lba |-> drive[p].lba, moved |-> m]
              \/ /\ Len(m) = Words
                 /\ drive'[p] = [phase |-> "storing", cmd |-> "write",
                                 lba |-> drive[p].lba, moved |-> m]
        BY <1>8, <2>3
      <4> QED BY <4>1
    <3>2. Present(p)
      BY <1>6, <2>3, RestingFacts DEF Shape
    <3> QED BY <1>10, <2>3, <3>1, <3>2 DEF Shape, Serves, Serving
  <2> QED BY <1>7, <2>2, <2>3
<1>13. CallInv'
  BY <1>3, <1>5, <1>10 DEF CallInv
<1>14. ReadInv' /\ ZeroInv'
  <2>1. history.writes # 0
    BY <1>1 DEF ZeroInv
  <2> QED BY <1>1, <1>5, <2>1 DEF ReadInv, ZeroInv
<1>15. WriteInv'
  <2>1. PICK v \in Values : Got = Whole(v)
    BY <1>1 DEF WriteInv
  <2> SUFFICES ASSUME ~history.late PROVE WriteInv'
    BY <1>1, <1>5, <1>10, <1>11, <2>1 DEF WriteInv
  <2>2. \/ Refused
        \/ Taking(n) /\ drive[p].phase = "data"
    BY <1>1, <1>2, <1>3 DEF WriteInv
  <2>3. Refused => Refused' /\ drive'[p] = drive[p]
    <3>1. Refused => drive[p].phase # "data"
      BY <1>2, <1>8, <1>6, <1>1, CallFacts DEF Refused, Shape, Serves, Serving
    <3> QED BY <1>1, <1>2, <1>5, <1>7, <3>1 DEF Refused
  <2>4. ASSUME Taking(n), drive[p].phase = "data"
        PROVE  \/ Taking(n + 1)' /\ drive'[p].phase = "data" /\ n + 1 < Words
               \/ /\ Stored' /\ n + 1 = Words
                  /\ drive'[p].phase = "storing" /\ drive'[p].moved = Got
    <3>1. PICK m \in Seq(Word) :
            /\ m = Append(drive[p].moved, w) /\ Len(m) = Len(drive[p].moved) + 1
            /\ \/ /\ Len(m) < Words
                  /\ drive'[p] = [phase |-> "data", cmd |-> "write",
                                  lba |-> drive[p].lba, moved |-> m]
               \/ /\ Len(m) = Words
                  /\ drive'[p] = [phase |-> "storing", cmd |-> "write",
                                  lba |-> drive[p].lba, moved |-> m]
      BY <1>8, <2>4
    <3>2. /\ drive[p].lba = Target /\ Len(drive[p].moved) = n
          /\ \A k \in 1 .. n : drive[p].moved[k] = Got[k]
          /\ drive[p].moved \in Seq(Word)
      BY <1>1, <1>2, <2>4, DriveType DEF Taking
    <3>3. Len(m) = n + 1 /\ \A k \in 1 .. n + 1 : m[k] = Got[k]
      <4>1. Len(m) = n + 1
        BY <3>1, <3>2
      <4>2. m[n + 1] = w /\ \A k \in 1 .. n : m[k] = drive[p].moved[k]
        BY <3>1, <3>2, AppendProperties
      <4>3. ASSUME NEW k \in 1 .. n + 1 PROVE k = n + 1 \/ k \in 1 .. n
        OBVIOUS
      <4> QED BY <1>4, <3>2, <4>1, <4>2, <4>3
    <3>4. CASE Len(m) < Words
      <4>1. drive'[p] = [phase |-> "data", cmd |-> "write", lba |-> Target, moved |-> m]
        BY <3>1, <3>2, <3>4, Sizes
      <4>2. Taking(n + 1)'
        BY <1>5, <1>10, <1>11, <3>3, <4>1 DEF Taking, Serves, Serving
      <4> QED BY <3>3, <3>4, <4>1, <4>2
    <3>5. CASE Len(m) = Words
      <4>1. drive'[p] = [phase |-> "storing", cmd |-> "write", lba |-> Target, moved |-> m]
        BY <3>1, <3>2, <3>5, Sizes
      <4>2. PICK g \in [1 .. Words -> Word] : g = Got
        BY <1>1, CallFacts
      <4>3. m \in [1 .. Words -> Word]
        BY <3>5, LenProperties, ElementOfSeq
      <4>4. m = g
        BY <3>3, <3>5, <4>2, <4>3
      <4>5. Stored'
        BY <1>5, <1>10, <1>11, <4>1, <4>2, <4>4 DEF Stored
      <4> QED BY <3>3, <3>5, <4>1, <4>2, <4>4, <4>5
    <3> QED BY <3>1, <3>4, <3>5
  <2>5. ASSUME NEW q \in Place
        PROVE  /\ drive'[q].phase = "storing" => \E u \in Values : drive'[q].moved = Whole(u)
               /\ Serves(q, "write")' => q = p
    <3>1. /\ drive[q].phase = "storing" => \E u \in Values : drive[q].moved = Whole(u)
          /\ Serves(q, "write") => q = p
      BY <1>1, <1>2 DEF WriteInv
    <3>2. CASE drive'[q] = drive[q]
      BY <3>1, <3>2 DEF Serves, Serving
    <3>3. CASE q = p /\ drive[p].phase = "data"
      <4>1. drive'[p].phase = "storing" => drive'[p].moved = Got
        <5>1. ~Refused
          BY <1>1, <1>2, <1>6, <3>3, CallFacts DEF Refused, Shape, Serves, Serving
        <5> QED BY <2>2, <2>4, <5>1
      <4> QED BY <2>1, <3>3, <4>1
    <3> QED BY <1>7, <3>2, <3>3
  <2>6. \A q \in Place, l \in Lba :
          media[q][l] \in {Sectors(q)[l]} \cup {Whole(u) : u \in Values}
    BY <1>1 DEF WriteInv
  <2>7. \/ Refused'
        \/ Taking(at.word + 1)' /\ drive'[p].phase = "data" /\ n + 1 < Words
        \/ Stored' /\ n + 1 = Words
    <3>1. Taking(n + 1)' => Taking(at.word + 1)'
      BY <1>5 DEF Taking, Serves, Serving
    <3> QED BY <2>2, <2>3, <2>4, <3>1
  <2> QED BY <1>1, <1>5, <1>10, <1>11, <2>1, <2>5, <2>6, <2>7 DEF WriteInv
<1> QED BY <1>9, <1>10, <1>12, <1>13, <1>14, <1>15 DEF AtaInv

(* FLUSH leaves a drive that waits for words or stores them as it was.      *)
LEMMA WriteFlushKeeps ==
  ASSUME AtaInv, WriteFlush
  PROVE  AtaInv'
<1>1. /\ Typed /\ SearchInv /\ CallInv /\ ReadInv /\ ZeroInv /\ WriteInv
      /\ \A q \in Place : Shape(q)
      /\ at.pc = "flush"
      /\ UNCHANGED <<machine, selected, media, disks, buffer, history>>
  BY DEF AtaInv, WriteFlush
<1>2. PICK p \in Place : p = at.place /\ at.call = "write"
  BY <1>1 DEF Typed, CallInv, Searching
<1>3. PICK n \in Nat : n = at.word /\ n < Words
  BY <1>1, Sizes DEF Typed, CallInv
<1>4. PICK x \in Pcs : x = (IF n + 1 = Words THEN "pause" ELSE "words")
  BY DEF Pcs
<1>5. /\ at' \in [pc : Pcs, place : Place, call : {"identify", "read", "write"},
                  disk : Nat, lba : Nat, word : 0 .. Words]
      /\ at'.pc = x /\ at'.place = p /\ at'.call = "write"
      /\ at'.disk = at.disk /\ at'.lba = at.lba /\ at'.word = n + 1
  <2>1. PICK y : y = (IF n + 1 = Words THEN "pause" ELSE at.pc)
    OBVIOUS
  <2>2. PICK a : a = [at EXCEPT !.word = n + 1]
    OBVIOUS
  <2>3. a.pc = at.pc
    BY <1>1, <2>2 DEF Typed
  <2>4. PICK b : b = NextWord
    OBVIOUS
  <2>5. b = [a EXCEPT !.pc = y]
    BY <1>3, <2>1, <2>2, <2>3, <2>4 DEF NextWord
  <2>6. at' = [b EXCEPT !.pc = x]
    BY <1>3, <1>4, <2>4 DEF WriteFlush
  <2>7. PICK d \in [pc : Pcs, place : Place, call : {"identify", "read", "write"},
                    disk : Nat, lba : Nat, word : 0 .. Words] : d = at
    BY <1>1 DEF Typed
  <2>8. n + 1 \in 0 .. Words
    BY <1>3, Sizes
  <2>9. y \in Pcs
    BY <1>1, <2>1 DEF Pcs
  <2>10. /\ a \in [pc : Pcs, place : Place, call : {"identify", "read", "write"},
                   disk : Nat, lba : Nat, word : 0 .. Words]
         /\ a.place = d.place /\ a.call = d.call /\ a.disk = d.disk /\ a.lba = d.lba
         /\ a.word = n + 1
    BY <2>2, <2>7, <2>8
  <2>11. /\ b \in [pc : Pcs, place : Place, call : {"identify", "read", "write"},
                   disk : Nat, lba : Nat, word : 0 .. Words]
         /\ b.place = d.place /\ b.call = d.call /\ b.disk = d.disk /\ b.lba = d.lba
         /\ b.word = n + 1
    BY <2>5, <2>9, <2>10
  <2> QED BY <1>2, <2>6, <2>7, <2>11
<1>6. /\ drive' \in [Place -> Drives] /\ \A q \in Place : q # p => drive'[q] = drive[q]
      /\ \/ /\ Present(p) /\ drive[p].phase \in {"idle", "error"}
            /\ drive'[p] = [phase |-> "lag", cmd |-> "flush", lba |-> 0, moved |-> <<>>]
         \/ drive'[p] = drive[p]
  <2>1. drive' = Taken(p, "flush", 0) /\ "flush" \in Commands
    BY <1>2 DEF WriteFlush, Commands
  <2> QED BY <1>1, <2>1, TakenIs, Sizes
<1>7. Typed'
  BY <1>1, <1>5, <1>6 DEF Typed
<1>8. /\ SearchInv' /\ ~Searching' /\ ~Asking'
      /\ at'.disk \in DOMAIN disks' /\ at'.place = DriveOf(disks'[at'.disk].select)
      /\ selected'[at'.place[1]] = at'.place[2]
      /\ Target' = Target /\ Asks' = Asks
      /\ \A q : Present(q)' = Present(q)
      /\ \A q : Sectors(q)' = Sectors(q)
      /\ \A v : Whole(v)' = Whole(v)
  <2>1. at'.pc \in CallPcs
    BY <1>4, <1>5 DEF CallPcs
  <2> QED BY <1>1, <1>2, <1>5, <2>1, CallStays
<1>9. Got' = Got
  BY <1>1, <1>5 DEF Got
<1>10. at'.pc \in {"words", "pause"} /\ (at'.pc = "words" => n + 1 < Words)
       /\ (at'.pc = "pause" => n + 1 = Words)
  BY <1>3, <1>4, <1>5, Sizes
<1>11. ASSUME NEW q \in Place PROVE Shape(q)'
  <2>1. /\ Shape(q) /\ ~Serves(q, "identify") /\ ~Serves(q, "read")
        /\ (drive[q].phase = "lag" => q = p)
    BY <1>1, <1>2, CallFacts DEF Shape
  <2>2. CASE drive'[q] = drive[q]
    BY <1>1, <1>5, <1>8, <1>10, <2>1, <2>2 DEF Shape, Serves, Serving
  <2>3. CASE /\ q = p /\ Present(p)
             /\ drive'[p] = [phase |-> "lag", cmd |-> "flush", lba |-> 0, moved |-> <<>>]
    <3>1. drive'[p].phase = "lag" /\ drive'[p].cmd = "flush" /\ drive'[p].moved = <<>>
      BY <2>3
    <3>2. at'.pc \notin {"identify", "poll", "up"}
      BY <1>10
    <3> QED BY <1>5, <1>8, <2>3, <3>1, <3>2 DEF Shape, Serves, Serving
  <2> QED BY <1>6, <2>2, <2>3
<1>12. CallInv'
  BY <1>3, <1>5, <1>8, <1>10 DEF CallInv
<1>13. ReadInv' /\ ZeroInv'
  <2>1. history.writes # 0
    BY <1>1, <1>2 DEF ZeroInv
  <2> QED BY <1>1, <1>5, <2>1 DEF ReadInv, ZeroInv
<1>14. WriteInv'
  <2>1. PICK v \in Values : Got = Whole(v)
    BY <1>1, <1>2 DEF WriteInv
  <2> SUFFICES ASSUME ~history.late PROVE WriteInv'
    BY <1>1, <1>5, <1>8, <1>9, <2>1 DEF WriteInv
  <2>2. \/ Refused
        \/ Taking(n + 1) /\ drive[p].phase = "data" /\ n + 1 < Words
        \/ Stored /\ n + 1 = Words
    BY <1>1, <1>2, <1>3 DEF WriteInv
  <2>3. Refused => Refused'
    BY <1>1, <1>2, <1>5, <1>6 DEF Refused
  <2>4. drive[p].phase \in {"data", "storing"} => drive'[p] = drive[p]
    BY <1>6
  <2>5. Taking(n + 1) /\ drive[p].phase = "data" =>
          Taking(at.word)' /\ drive'[p].phase = "data"
    BY <1>2, <1>5, <1>8, <1>9, <2>4 DEF Taking, Serves, Serving
  <2>6. Stored => Stored'
    <3>1. CASE drive[p].phase = "storing"
      BY <1>2, <1>5, <1>8, <1>9, <2>4, <3>1 DEF Stored
    <3>2. CASE drive[p].phase # "storing"
      BY <1>2, <1>5, <1>6, <1>8, <1>9, <3>2 DEF Stored
    <3> QED BY <3>1, <3>2
  <2>7. ASSUME NEW q \in Place
        PROVE  /\ drive'[q].phase = "storing" => \E u \in Values : drive'[q].moved = Whole(u)
               /\ Serves(q, "write")' => q = p /\ n + 1 < Words
    <3>1. /\ drive[q].phase = "storing" => \E u \in Values : drive[q].moved = Whole(u)
          /\ Serves(q, "write") => q = p
      BY <1>1, <1>2 DEF WriteInv
    <3>2. Serves(p, "write") => n + 1 < Words
      BY <1>2, <2>2 DEF Refused, Stored, Serves, Serving
    <3>3. CASE drive'[q] = drive[q]
      BY <3>1, <3>2, <3>3 DEF Serves, Serving
    <3>4. CASE drive'[q] = [phase |-> "lag", cmd |-> "flush", lba |-> 0, moved |-> <<>>]
      BY <3>4 DEF Serves, Serving
    <3> QED BY <1>6, <3>3, <3>4
  <2>8. \A q \in Place, l \in Lba :
          media[q][l] \in {Sectors(q)[l]} \cup {Whole(u) : u \in Values}
    BY <1>1 DEF WriteInv
  <2>9. /\ at'.pc = "words" => Refused' \/ (Taking(at.word)' /\ drive'[p].phase = "data")
        /\ at'.pc = "pause" => Refused' \/ Stored'
    BY <1>3, <1>10, <2>2, <2>3, <2>5, <2>6
  <2>10. n + 1 < Words => at'.pc = "words"
    BY <1>3, <1>10, Sizes
  <2> QED BY <1>1, <1>5, <1>8, <1>9, <1>10, <2>1, <2>7, <2>8, <2>9, <2>10 DEF WriteInv
<1> QED BY <1>7, <1>8, <1>11, <1>12, <1>13, <1>14 DEF AtaInv

(* Between calls no drive is in the middle of reading or of IDENTIFY, and   *)
(* each entry of the table leads to a disk.                                 *)
LEMMA UpFacts ==
  ASSUME AtaInv, at.pc = "up"
  PROVE  /\ ~Searching /\ ~Asking
         /\ disks = Found(4)
         /\ \A q \in Place : /\ ~Serves(q, "identify") /\ ~Serves(q, "read")
                             /\ drive[q].phase # "lag"
         /\ history.writes = 0 => \A q \in Place : drive[q].phase \in {"idle", "error"}
         /\ ~history.late => \A q \in Place : ~Serves(q, "write")
<1>1. ~Searching /\ ~Asking /\ Looked = 4
  BY DEF Searching, Asking, Looked
<1>2. /\ SearchInv /\ ZeroInv /\ WriteInv /\ Typed /\ \A q \in Place : Shape(q)
  BY DEF AtaInv
<1>3. ASSUME NEW q \in Place
      PROVE  ~Serves(q, "identify") /\ ~Serves(q, "read") /\ drive[q].phase # "lag"
  BY <1>1, <1>2 DEF Shape
<1>4. ASSUME NEW q \in Place, history.writes = 0 PROVE drive[q].phase \in {"idle", "error"}
  <2>1. drive[q].cmd # "write" /\ (Serving(q) => drive[q].cmd \in {"identify", "read"})
    BY <1>2, <1>4 DEF ZeroInv
  <2>2. drive[q].phase \in Phases /\ (drive[q].phase = "storing" => drive[q].cmd = "write")
    BY <1>2, DriveType DEF Shape
  <2> QED BY <1>3, <2>1, <2>2 DEF Phases, Serves, Serving
<1>5. ASSUME NEW q \in Place, ~history.late PROVE ~Serves(q, "write")
  BY <1>2, <1>5 DEF WriteInv
<1> QED BY <1>1, <1>2, <1>3, <1>4, <1>5 DEF SearchInv

LEMMA FoundIs ==
  ASSUME NEW i \in DOMAIN Found(4)
  PROVE  \E p \in Place : machine[p] = "ata" /\ Found(4)[i] = Listed(p, Name(p))
<1> DEFINE Fine(f) == \A j \in DOMAIN f : \E p \in Place :
                         machine[p] = "ata" /\ f[j] = Listed(p, Name(p))
<1>1. ASSUME NEW f \in Seq([select : 0 .. 3, info : Word]), Fine(f), NEW q \in Place
      PROVE  Add(q, f) \in Seq([select : 0 .. 3, info : Word]) /\ Fine(Add(q, f))
  <2>1. CASE machine[q] = "ata"
    <3>1. PICK d \in [select : 0 .. 3, info : Word] : d = Listed(q, Name(q))
      BY PlaceFacts, WordFacts DEF Listed, Name
    <3>2. PICK g : g = Append(f, d)
      OBVIOUS
    <3>3. /\ g \in Seq([select : 0 .. 3, info : Word]) /\ DOMAIN g = 1 .. Len(f) + 1
          /\ \A j \in 1 .. Len(f) : g[j] = f[j]
          /\ g[Len(f) + 1] = d /\ DOMAIN f = 1 .. Len(f) /\ Len(f) \in Nat
      BY <3>2, AppendProperties, LenProperties
    <3>4. ASSUME NEW j \in 1 .. Len(f) + 1
          PROVE  \E p \in Place : machine[p] = "ata" /\ g[j] = Listed(p, Name(p))
      <4>1. j \in 1 .. Len(f) \/ j = Len(f) + 1
        BY <3>3
      <4> QED BY <1>1, <2>1, <3>1, <3>3, <4>1
    <3>5. Add(q, f) = g
      BY <2>1, <3>1, <3>2 DEF Add
    <3> QED BY <3>3, <3>4, <3>5
  <2>2. CASE machine[q] # "ata"
    <3>1. Add(q, f) = f
      BY <2>2 DEF Add
    <3> QED BY <1>1, <3>1
  <2> QED BY <2>1, <2>2
<1>2. <<>> \in Seq([select : 0 .. 3, info : Word]) /\ Fine(<<>>)
  OBVIOUS
<1>3. PICK a : a = Add(<<0, 0>>, <<>>)
  OBVIOUS
<1>4. PICK b : b = Add(<<0, 1>>, a)
  OBVIOUS
<1>5. PICK c : c = Add(<<1, 0>>, b)
  OBVIOUS
<1>6. PICK d : d = Add(<<1, 1>>, c)
  OBVIOUS
<1>7. /\ <<0, 0>> \in Place /\ <<0, 1>> \in Place
      /\ <<1, 0>> \in Place /\ <<1, 1>> \in Place
  BY Places
<1>8. a \in Seq([select : 0 .. 3, info : Word]) /\ Fine(a)
  BY <1>1, <1>2, <1>3, <1>7
<1>9. b \in Seq([select : 0 .. 3, info : Word]) /\ Fine(b)
  BY <1>1, <1>4, <1>7, <1>8
<1>10. c \in Seq([select : 0 .. 3, info : Word]) /\ Fine(c)
  BY <1>1, <1>5, <1>7, <1>9
<1>11. Fine(d)
  BY <1>1, <1>6, <1>7, <1>10
<1>12. Found(4) = d
  BY <1>3, <1>4, <1>5, <1>6 DEF Found
<1> QED BY <1>11, <1>12

(* A call starts: the drive of the entry takes the command, or ignores it.  *)
LEMMA IssueIs ==
  ASSUME AtaInv, at.pc = "up", NEW i \in DOMAIN disks, NEW lba \in Nat,
         NEW cmd \in {"read", "write"}, Issue(i, cmd, lba),
         UNCHANGED <<machine, media, disks>>,
         NEW p, p = DriveOf(disks[i].select)
  PROVE  /\ p \in Place /\ machine[p] = "ata" /\ selected' \in [Bus -> 0 .. 1]
         /\ drive' \in [Place -> Drives] /\ \A q \in Place : q # p => drive'[q] = drive[q]
         /\ \/ /\ drive[p].phase \in {"idle", "error"}
               /\ drive'[p] = [phase |-> "lag", cmd |-> cmd,
                               lba |-> Registers(p, lba), moved |-> <<>>]
            \/ drive[p].phase \notin {"idle", "error"} /\ drive'[p] = drive[p]
         /\ at' = [pc |-> "delay", place |-> p, call |-> cmd, disk |-> i,
                   lba |-> lba, word |-> 0]
         /\ at' \in [pc : Pcs, place : Place, call : {"identify", "read", "write"},
                     disk : Nat, lba : Nat, word : 0 .. Words]
         /\ Target' = Registers(p, lba) /\ Asks' = media[p][Registers(p, lba)]
         /\ SearchInv' /\ CallInv' /\ \A q \in Place : Shape(q)'
<1>1. /\ Typed /\ SearchInv /\ \A q \in Place : Shape(q)
  BY DEF AtaInv
<1>2. p \in Place /\ machine[p] = "ata" /\ DriveOf(disks[i].select) = p
  <2>1. PICK r \in Place : machine[r] = "ata" /\ disks[i] = Listed(r, Name(r))
    BY UpFacts, FoundIs
  <2>2. DriveOf(disks[i].select) = r
    BY <2>1, PlaceFacts DEF Listed
  <2> QED BY <2>1, <2>2
<1>3. DriveOf(disks[i].select) = p
  BY <1>2
<1>4. /\ selected' = [selected EXCEPT ![p[1]] = p[2]]
      /\ drive' = Taken(p, cmd, Registers(p, lba))
      /\ at' = [at EXCEPT !.pc = "delay", !.call = cmd, !.disk = i, !.lba = lba,
                          !.place = p, !.word = 0]
  BY <1>3 DEF Issue
<1>5. at' = [pc |-> "delay", place |-> p, call |-> cmd, disk |-> i,
             lba |-> lba, word |-> 0]
  <2>1. PICK d : d = at /\ d = [pc |-> d.pc, place |-> d.place, call |-> d.call,
                               disk |-> d.disk, lba |-> d.lba, word |-> d.word]
    BY <1>1, Fields
  <2>2. PICK e : e = [d EXCEPT !.pc = "delay"]
    OBVIOUS
  <2>3. e = [pc |-> "delay", place |-> d.place, call |-> d.call, disk |-> d.disk,
             lba |-> d.lba, word |-> d.word]
    BY <2>1, <2>2
  <2>4. PICK f : f = [e EXCEPT !.call = cmd]
    OBVIOUS
  <2>5. f = [pc |-> "delay", place |-> d.place, call |-> cmd, disk |-> d.disk,
             lba |-> d.lba, word |-> d.word]
    BY <2>3, <2>4
  <2>6. PICK g : g = [f EXCEPT !.disk = i]
    OBVIOUS
  <2>7. g = [pc |-> "delay", place |-> d.place, call |-> cmd, disk |-> i,
             lba |-> d.lba, word |-> d.word]
    BY <2>5, <2>6
  <2>8. PICK h : h = [g EXCEPT !.lba = lba]
    OBVIOUS
  <2>9. h = [pc |-> "delay", place |-> d.place, call |-> cmd, disk |-> i,
             lba |-> lba, word |-> d.word]
    BY <2>7, <2>8
  <2>10. PICK k : k = [h EXCEPT !.place = p]
    OBVIOUS
  <2>11. k = [pc |-> "delay", place |-> p, call |-> cmd, disk |-> i,
              lba |-> lba, word |-> d.word]
    BY <2>9, <2>10
  <2>12. at' = [k EXCEPT !.word = 0]
    BY <1>4, <2>1, <2>2, <2>4, <2>6, <2>8, <2>10
  <2> QED BY <2>11, <2>12
<1>6. i \in Nat
  BY <1>1, LenProperties DEF Typed
<1>7. at' \in [pc : Pcs, place : Place, call : {"identify", "read", "write"},
               disk : Nat, lba : Nat, word : 0 .. Words]
  BY <1>2, <1>5, <1>6, Sizes DEF Pcs
<1>8. /\ at'.pc = "delay" /\ at'.place = p /\ at'.call = cmd /\ at'.disk = i
      /\ at'.lba = lba /\ at'.word = 0
  BY <1>5
<1>9. selected' \in [Bus -> 0 .. 1] /\ selected'[p[1]] = p[2]
  BY <1>1, <1>2, <1>4, PlaceFacts DEF Typed
<1>10. PICK l \in Lba : l = Registers(p, lba)
  BY Reduced DEF Registers
<1>11. /\ drive' \in [Place -> Drives] /\ \A q \in Place : q # p => drive'[q] = drive[q]
       /\ \/ /\ drive[p].phase \in {"idle", "error"}
             /\ drive'[p] = [phase |-> "lag", cmd |-> cmd, lba |-> l, moved |-> <<>>]
          \/ drive[p].phase \notin {"idle", "error"} /\ drive'[p] = drive[p]
  <2>1. cmd \in Commands /\ Present(p)
    BY <1>2 DEF Commands, Present
  <2> QED BY <1>1, <1>2, <1>4, <1>10, <2>1, TakenIs
<1>12. ~Searching' /\ ~Asking' /\ Looked' = 4
  BY <1>8 DEF Searching, Asking, Looked
<1>13. SearchInv'
  <2>1. Found(4)' = Found(4)
    BY DEF Found, Add
  <2>2. \A q \in Place : ~Floating(q[1])'
    BY UpFacts, FoundFacts DEF Floating
  <2>3. disks' = Found(4)'
    BY <2>1, UpFacts
  <2> QED BY <1>8, <1>12, <2>2, <2>3 DEF SearchInv
<1>14. CallInv'
  BY <1>3, <1>8, <1>9, <1>12 DEF CallInv
<1>15. ASSUME NEW q \in Place PROVE Shape(q)'
  <2>1. /\ Shape(q) /\ ~Serves(q, "identify") /\ ~Serves(q, "read")
        /\ drive[q].phase # "lag"
    BY <1>1, UpFacts
  <2>2. CASE drive'[q] = drive[q]
    BY <1>12, <2>1, <2>2 DEF Shape, Serves, Serving, Present
  <2>3. CASE q = p /\ drive'[p] = [phase |-> "lag", cmd |-> cmd, lba |-> l, moved |-> <<>>]
    <3>1. /\ drive'[p].phase = "lag" /\ drive'[p].cmd = cmd /\ drive'[p].moved = <<>>
          /\ cmd # "identify" /\ cmd # "none"
      BY <2>3
    <3>2. Present(p)'
      BY <1>2 DEF Present
    <3> QED BY <1>8, <2>3, <3>1, <3>2 DEF Shape, Serves, Serving
  <2> QED BY <1>11, <2>2, <2>3
<1>16. Target' = l /\ Asks' = media[p][l]
  BY <1>8, <1>10 DEF Target, Asks, Registers
<1> QED BY <1>2, <1>5, <1>7, <1>9, <1>10, <1>11, <1>13, <1>14, <1>15, <1>16

LEMMA NewBuffer ==
  ASSUME Typed, NEW i \in DOMAIN disks, NEW f \in [1 .. Words -> Word],
         buffer' = [buffer EXCEPT ![i] = f], at'.disk = i
  PROVE  buffer' \in Seq([1 .. Words -> Word]) /\ Len(buffer') = Len(buffer) /\ Got' = f
<1>1. i \in 1 .. Len(buffer)
  BY LenProperties DEF Typed
<1>2. buffer' \in Seq([1 .. Words -> Word]) /\ Len(buffer') = Len(buffer) /\ buffer'[i] = f
  BY <1>1, ExceptSeq, LenProperties DEF Typed
<1> QED BY <1>2 DEF Got

LEMMA ReadSectorKeeps ==
  ASSUME AtaInv, NEW i \in DOMAIN disks, NEW lba \in Asked, ReadSector(i, lba)
  PROVE  AtaInv'
<1>1. /\ Typed /\ ZeroInv /\ WriteInv /\ at.pc = "up" /\ Issue(i, "read", lba)
      /\ UNCHANGED <<machine, media, disks>> /\ lba \in Nat
  BY SizesAssumption DEF AtaInv, ReadSector
<1>c. PICK c \in {"read", "write"} : c = "read"
  OBVIOUS
<1>d. Issue(i, c, lba)
  BY <1>c DEF ReadSector, Issue
<1>p. PICK p : p = DriveOf(disks[i].select)
  OBVIOUS
<1>2. /\ p \in Place
      /\ machine[p] = "ata" /\ selected' \in [Bus -> 0 .. 1]
      /\ drive' \in [Place -> Drives] /\ \A q \in Place : q # p => drive'[q] = drive[q]
      /\ \/ /\ drive[p].phase \in {"idle", "error"}
            /\ drive'[p] = [phase |-> "lag", cmd |-> c,
                            lba |-> Registers(p, lba), moved |-> <<>>]
         \/ drive[p].phase \notin {"idle", "error"} /\ drive'[p] = drive[p]
      /\ at' = [pc |-> "delay", place |-> p, call |-> c, disk |-> i,
                lba |-> lba, word |-> 0]
      /\ at' \in [pc : Pcs, place : Place, call : {"identify", "read", "write"},
                  disk : Nat, lba : Nat, word : 0 .. Words]
      /\ Target' = Registers(p, lba) /\ Asks' = media[p][Registers(p, lba)]
      /\ SearchInv' /\ CallInv' /\ \A q \in Place : Shape(q)'
  BY <1>1, <1>d, <1>p, IssueIs
<1>3. /\ at'.pc = "delay" /\ at'.place = p /\ at'.call = "read" /\ at'.disk = i
      /\ at'.word = 0
  BY <1>2, <1>c
<1>4. /\ history' \in [writes : Nat, failed : BOOLEAN, late : BOOLEAN]
      /\ history'.writes = history.writes /\ history'.late = history.late
  BY <1>1 DEF Typed, ReadSector
<1>5. buffer' \in Seq([1 .. Words -> Word]) /\ Len(buffer') = Len(buffer)
  <2>1. PICK f \in [1 .. Words -> Word] : f = [k \in 1 .. Words |-> <<"zero">>]
    BY WordFacts
  <2>2. buffer' = [buffer EXCEPT ![i] = f]
    BY <2>1 DEF ReadSector
  <2> QED BY <1>1, <1>3, <2>2, NewBuffer
<1>6. Typed'
  BY <1>1, <1>2, <1>4, <1>5 DEF Typed
<1>7. PICK l : l = Registers(p, lba)
  OBVIOUS
<1>8. ASSUME NEW q \in Place
      PROVE  \/ drive'[q] = drive[q]
             \/ /\ q = p /\ drive'[q].phase = "lag" /\ drive'[q].cmd = "read"
                /\ drive'[q].lba = l /\ drive'[q].moved = <<>>
  BY <1>2, <1>7, <1>c
<1>9. ReadInv'
  <2>1. Serves(p, "read")' => drive'[p].lba = l /\ drive'[p].moved = <<>>
    <3>1. ~Serves(p, "read")
      BY <1>1, <1>2, UpFacts
    <3> QED BY <1>2, <1>8, <3>1 DEF Serves, Serving
  <2>2. Len(<<>>) = 0
    OBVIOUS
  <2> QED BY <1>2, <1>3, <1>7, <2>1, <2>2 DEF ReadInv, Serves, Serving
<1>10. ZeroInv'
  <2> SUFFICES ASSUME history.writes = 0 PROVE ZeroInv'
    BY <1>4 DEF ZeroInv
  <2>1. media = [q \in Place |-> Sectors(q)]
    BY <1>1 DEF ZeroInv
  <2>2. \A q : Sectors(q)' = Sectors(q)
    BY DEF Sectors
  <2>3. ASSUME NEW q \in Place
        PROVE  /\ drive'[q].cmd \notin {"write", "flush"}
               /\ Serving(q)' => drive'[q].cmd \in {"identify", "read"}
    <3>1. /\ drive[q].cmd \notin {"write", "flush"}
          /\ Serving(q) => drive[q].cmd \in {"identify", "read"}
      BY <1>1 DEF ZeroInv
    <3> QED BY <1>8, <3>1 DEF Serving
  <2>4. Serves(p, "read")'
    <3>1. drive[p].phase \in {"idle", "error"}
      BY <1>1, <1>2, UpFacts
    <3> QED BY <1>2, <1>c, <3>1 DEF Serves, Serving
  <2> QED BY <1>1, <1>3, <2>1, <2>2, <2>3, <2>4 DEF ZeroInv, Serves, Serving
<1>11. WriteInv'
  <2> SUFFICES ASSUME ~history.late PROVE WriteInv'
    BY <1>3, <1>4 DEF WriteInv
  <2>1. /\ \A q : Sectors(q)' = Sectors(q)
        /\ \A v : Whole(v)' = Whole(v)
    BY DEF Sectors, Whole
  <2>2. ASSUME NEW q \in Place
        PROVE  /\ drive'[q].phase = "storing" => \E v \in Values : drive'[q].moved = Whole(v)
               /\ ~Serves(q, "write")'
    <3>1. /\ drive[q].phase = "storing" => \E v \in Values : drive[q].moved = Whole(v)
          /\ ~Serves(q, "write")
      BY <1>1, UpFacts DEF WriteInv
    <3> QED BY <1>8, <3>1 DEF Serves, Serving
  <2>3. \A q \in Place, x \in Lba :
          media[q][x] \in {Sectors(q)[x]} \cup {Whole(v) : v \in Values}
    BY <1>1 DEF WriteInv
  <2> QED BY <1>1, <1>3, <2>1, <2>2, <2>3 DEF WriteInv
<1> QED BY <1>2, <1>6, <1>9, <1>10, <1>11 DEF AtaInv

LEMMA WriteSectorKeeps ==
  ASSUME AtaInv, NEW i \in DOMAIN disks, NEW lba \in Asked, NEW v \in Values,
         WriteSector(i, lba, v)
  PROVE  AtaInv'
<1>1. /\ Typed /\ ZeroInv /\ WriteInv /\ at.pc = "up" /\ Issue(i, "write", lba)
      /\ UNCHANGED <<machine, media, disks>> /\ lba \in Nat
  BY SizesAssumption DEF AtaInv, WriteSector
<1>c. PICK c \in {"read", "write"} : c = "write"
  OBVIOUS
<1>d. Issue(i, c, lba)
  BY <1>c DEF WriteSector, Issue
<1>p. PICK p : p = DriveOf(disks[i].select)
  OBVIOUS
<1>2. /\ p \in Place
      /\ machine[p] = "ata" /\ selected' \in [Bus -> 0 .. 1]
      /\ drive' \in [Place -> Drives] /\ \A q \in Place : q # p => drive'[q] = drive[q]
      /\ \/ /\ drive[p].phase \in {"idle", "error"}
            /\ drive'[p] = [phase |-> "lag", cmd |-> c,
                            lba |-> Registers(p, lba), moved |-> <<>>]
         \/ drive[p].phase \notin {"idle", "error"} /\ drive'[p] = drive[p]
      /\ at' = [pc |-> "delay", place |-> p, call |-> c, disk |-> i,
                lba |-> lba, word |-> 0]
      /\ at' \in [pc : Pcs, place : Place, call : {"identify", "read", "write"},
                  disk : Nat, lba : Nat, word : 0 .. Words]
      /\ Target' = Registers(p, lba) /\ Asks' = media[p][Registers(p, lba)]
      /\ SearchInv' /\ CallInv' /\ \A q \in Place : Shape(q)'
  BY <1>1, <1>d, <1>p, IssueIs
<1>3. /\ at'.pc = "delay" /\ at'.place = p /\ at'.call = "write" /\ at'.disk = i
      /\ at'.word = 0
  BY <1>2, <1>c
<1>4. /\ history' \in [writes : Nat, failed : BOOLEAN, late : BOOLEAN]
      /\ history'.writes # 0
      /\ ~history'.late => ~history.late /\ drive'[p].phase = "lag"
  <2>1. PICK h \in [writes : Nat, failed : BOOLEAN, late : BOOLEAN] : h = history
    BY <1>1 DEF Typed
  <2>2. PICK b \in BOOLEAN : b = (h.late \/ drive'[p].phase # "lag")
    OBVIOUS
  <2>3. PICK g : g = [h EXCEPT !.writes = h.writes + 1]
    OBVIOUS
  <2>4. g \in [writes : Nat, failed : BOOLEAN, late : BOOLEAN] /\ g.writes = h.writes + 1
    BY <2>3
  <2>5. PICK k : k = [g EXCEPT !.failed = FALSE]
    OBVIOUS
  <2>6. k \in [writes : Nat, failed : BOOLEAN, late : BOOLEAN] /\ k.writes = h.writes + 1
    BY <2>4, <2>5
  <2>7. history' = [k EXCEPT !.late = b]
    BY <1>3, <2>1, <2>2, <2>3, <2>5 DEF WriteSector
  <2>8. history' \in [writes : Nat, failed : BOOLEAN, late : BOOLEAN]
        /\ history'.writes = h.writes + 1 /\ history'.late = b
    BY <2>6, <2>7
  <2> QED BY <2>1, <2>2, <2>8
<1>5. PICK f \in [1 .. Words -> Word] : f = Whole(v)
  BY WordFacts DEF Whole
<1>6. buffer' \in Seq([1 .. Words -> Word]) /\ Len(buffer') = Len(buffer) /\ Got' = f
  <2>1. buffer' = [buffer EXCEPT ![i] = f]
    BY <1>5 DEF WriteSector, Whole
  <2> QED BY <1>1, <1>3, <2>1, NewBuffer
<1>7. Typed'
  BY <1>1, <1>2, <1>4, <1>6 DEF Typed
<1>8. ReadInv' /\ ZeroInv'
  BY <1>3, <1>4 DEF ReadInv, ZeroInv
<1>9. /\ \A q : Sectors(q)' = Sectors(q)
      /\ \A u : Whole(u)' = Whole(u)
  BY DEF Sectors, Whole
<1>10. WriteInv'
  <2> SUFFICES ASSUME ~history'.late PROVE WriteInv'
    BY <1>5, <1>6, <1>9 DEF WriteInv
  <2>1. /\ drive'[p].phase = "lag" /\ drive'[p].cmd = "write"
        /\ drive'[p].lba = Registers(p, lba) /\ drive'[p].moved = <<>>
    <3>1. drive[p].phase # "lag"
      BY <1>1, <1>2, UpFacts
    <3> QED BY <1>2, <1>4, <1>c, <3>1
  <2>2. ASSUME NEW q \in Place
        PROVE  /\ drive'[q].phase = "storing" => \E u \in Values : drive'[q].moved = Whole(u)
               /\ Serves(q, "write")' => q = p
    <3>1. /\ drive[q].phase = "storing" => \E u \in Values : drive[q].moved = Whole(u)
          /\ ~Serves(q, "write")
      BY <1>1, <1>4, UpFacts DEF WriteInv
    <3>2. q = p \/ drive'[q] = drive[q]
      BY <1>2
    <3> QED BY <2>1, <3>1, <3>2 DEF Serves, Serving
  <2>3. \A q \in Place, x \in Lba :
          media[q][x] \in {Sectors(q)[x]} \cup {Whole(u) : u \in Values}
    BY <1>1, <1>4 DEF WriteInv
  <2>4. Taking(0)'
    <3>1. Len(<<>>) = 0
      OBVIOUS
    <3> QED BY <1>2, <1>3, <2>1, <3>1 DEF Taking, Serves, Serving
  <2> QED BY <1>1, <1>3, <1>5, <1>6, <1>9, <2>2, <2>3, <2>4 DEF WriteInv
<1> QED BY <1>2, <1>7, <1>8, <1>10 DEF AtaInv

------------------------------------------------------------------------------
(* The theorems.                                                            *)

LEMMA AtaInit ==
  ASSUME Init
  PROVE  AtaInv
<1>1. /\ machine \in Machines /\ selected = [b \in Bus |-> 0]
      /\ drive = [p \in Place |-> Resting]
      /\ media = [p \in Place |-> Sectors(p)]
      /\ disks = <<>> /\ buffer = <<>>
      /\ at.pc = "identify" /\ at.place = <<0, 0>> /\ at.call = "identify"
      /\ at.disk = 0 /\ at.lba = 0 /\ at.word = 0
      /\ history.writes = 0 /\ history.failed = FALSE /\ history.late = FALSE
  BY DEF Init
<1>2. <<0, 0>> \in Place /\ SelectOf(<<0, 0>>) = 0
  BY Places DEF SelectOf
<1>3. Searching /\ ~Asking /\ Looked = 0
  BY <1>1, <1>2 DEF Searching, Asking, Looked
<1>4. Typed
  <2>1. media \in [Place -> [Lba -> [1 .. Words -> Word]]]
    <3>1. ASSUME NEW p \in Place PROVE Sectors(p) \in [Lba -> [1 .. Words -> Word]]
      BY WordFacts DEF Sectors
    <3> QED BY <1>1, <3>1
  <2>2. at \in [pc : Pcs, place : Place, call : {"identify", "read", "write"},
                disk : Nat, lba : Nat, word : 0 .. Words]
    BY <1>2, Sizes DEF Init, Pcs
  <2>3. history \in [writes : Nat, failed : BOOLEAN, late : BOOLEAN]
    BY DEF Init
  <2>4. drive \in [Place -> Drives] /\ selected \in [Bus -> 0 .. 1]
    BY <1>1, RestingFacts
  <2> QED BY <1>1, <2>1, <2>2, <2>3, <2>4 DEF Typed
<1>5. \A p \in Place : Shape(p)
  BY <1>1, <1>3, RestingFacts DEF Shape, Serves, Serving
<1>6. SearchInv
  <2>1. \A p \in Place : ~(SelectOf(p) < 0)
    BY PlaceFacts
  <2> QED BY <1>1, <1>2, <1>3, <2>1 DEF SearchInv, Found
<1>7. CallInv /\ ReadInv
  BY <1>1, <1>3 DEF CallInv, ReadInv
<1>8. ZeroInv
  BY <1>1, RestingFacts DEF ZeroInv, Serving
<1>9. WriteInv
  BY <1>1, RestingFacts DEF WriteInv, Serves, Serving
<1> QED BY <1>4, <1>5, <1>6, <1>7, <1>8, <1>9 DEF AtaInv

LEMMA AtaStep ==
  ASSUME AtaInv, [Next]_vars
  PROVE  AtaInv'
<1>1. CASE DriverStep
  BY <1>1, SendIdentifyKeeps, CheckStatusKeeps, WaitBusyKeeps, WaitDataKeeps, AddDiskKeeps,
     DelayKeeps, PollKeeps, ReadWordKeeps, WriteWordKeeps, WriteFlushKeeps, PauseKeeps
     DEF DriverStep
<1>2. CASE \E i \in DOMAIN disks, lba \in Asked : ReadSector(i, lba)
  BY <1>2, ReadSectorKeeps
<1>3. CASE \E i \in DOMAIN disks, lba \in Asked, v \in Values : WriteSector(i, lba, v)
  BY <1>3, WriteSectorKeeps
<1>4. CASE \E p \in Place : DriveStep(p)
  BY <1>4, DriveStepKeeps
<1>5. CASE UNCHANGED vars
  BY <1>5, Nothing
<1> QED BY <1>1, <1>2, <1>3, <1>4, <1>5 DEF Next

(* Whatever the driver and the drives do, a drive in the middle of a read   *)
(* or of IDENTIFY is the one the driver waits for, and the words it has     *)
(* moved are those of the sector.                                           *)
THEOREM AtaInvariant == Spec => []AtaInv
<1>1. Init => AtaInv
  BY AtaInit
<1>2. AtaInv /\ [Next]_vars => AtaInv'
  BY AtaStep
<1> QED BY <1>1, <1>2, PTL DEF Spec

(* The table lists what With has found, place by place.                     *)
LEMMA FoundAnswers ==
  /\ Len(Found(4)) = Len(Answering)
  /\ \A i \in DOMAIN Found(4) : /\ Found(4)[i].info = Name(Answering[i])
                                /\ DriveOf(Found(4)[i].select) = Answering[i]
<1> DEFINE Entries == Seq([select : 0 .. 3, info : Word])
           Lists(f, g) == /\ Len(f) = Len(g)
                          /\ \A i \in DOMAIN f : /\ f[i].info = Name(g[i])
                                                 /\ DriveOf(f[i].select) = g[i]
<1>1. ASSUME NEW f \in Entries, NEW g \in Seq(Place), Lists(f, g), NEW q \in Place
      PROVE  /\ Add(q, f) \in Entries /\ With(g, q) \in Seq(Place)
             /\ Lists(Add(q, f), With(g, q))
  <2>1. CASE machine[q] = "ata"
    <3>1. PICK d \in [select : 0 .. 3, info : Word] :
            d = Listed(q, Name(q)) /\ d.info = Name(q) /\ DriveOf(d.select) = q
      <4>1. PICK n \in 0 .. 3, w \in Word : n = SelectOf(q) /\ w = Name(q) /\ DriveOf(n) = q
        BY PlaceFacts, WordFacts DEF Name
      <4>2. PICK d : d = [select |-> n, info |-> w]
        OBVIOUS
      <4>3. d = Listed(q, Name(q))
        BY <4>1, <4>2 DEF Listed
      <4> QED BY <4>1, <4>2, <4>3
    <3>2. PICK a, b : a = Append(f, d) /\ b = Append(g, q)
      OBVIOUS
    <3>3. /\ a \in Entries /\ Len(a) = Len(f) + 1 /\ Len(f) \in Nat
          /\ \A i \in 1 .. Len(f) : a[i] = f[i]
          /\ a[Len(f) + 1] = d /\ DOMAIN f = 1 .. Len(f) /\ DOMAIN a = 1 .. Len(f) + 1
      BY <3>2, AppendProperties, LenProperties
    <3>4. /\ b \in Seq(Place) /\ Len(b) = Len(f) + 1
          /\ \A i \in 1 .. Len(f) : b[i] = g[i]
          /\ b[Len(f) + 1] = q
      BY <1>1, <3>2, AppendProperties, LenProperties
    <3>5. ASSUME NEW i \in 1 .. Len(f) + 1
          PROVE  a[i].info = Name(b[i]) /\ DriveOf(a[i].select) = b[i]
      <4>1. i \in 1 .. Len(f) \/ i = Len(f) + 1
        BY <3>3
      <4> QED BY <1>1, <3>1, <3>3, <3>4, <4>1
    <3>6. Add(q, f) = a /\ With(g, q) = b
      BY <2>1, <3>1, <3>2 DEF Add, With
    <3> QED BY <3>3, <3>4, <3>5, <3>6
  <2>2. CASE machine[q] # "ata"
    <3>1. Add(q, f) = f /\ With(g, q) = g
      BY <2>2 DEF Add, With
    <3> QED BY <1>1, <3>1
  <2> QED BY <2>1, <2>2
<1>2. <<>> \in Entries /\ <<>> \in Seq(Place) /\ Lists(<<>>, <<>>)
  OBVIOUS
<1>3. PICK a, x : a = Add(<<0, 0>>, <<>>) /\ x = With(<<>>, <<0, 0>>)
  OBVIOUS
<1>4. PICK b, y : b = Add(<<0, 1>>, a) /\ y = With(x, <<0, 1>>)
  OBVIOUS
<1>5. PICK c, z : c = Add(<<1, 0>>, b) /\ z = With(y, <<1, 0>>)
  OBVIOUS
<1>6. PICK d, w : d = Add(<<1, 1>>, c) /\ w = With(z, <<1, 1>>)
  OBVIOUS
<1>7. /\ <<0, 0>> \in Place /\ <<0, 1>> \in Place
      /\ <<1, 0>> \in Place /\ <<1, 1>> \in Place
  BY Places
<1> HIDE DEF Entries, Lists
<1>8. a \in Entries /\ x \in Seq(Place) /\ Lists(a, x)
  BY <1>1, <1>2, <1>3, <1>7
<1>9. b \in Entries /\ y \in Seq(Place) /\ Lists(b, y)
  BY <1>1, <1>4, <1>7, <1>8
<1>10. c \in Entries /\ z \in Seq(Place) /\ Lists(c, z)
  BY <1>1, <1>5, <1>7, <1>9
<1>11. Lists(d, w)
  BY <1>1, <1>6, <1>7, <1>10
<1>12. Found(4) = d /\ Answering = w
  BY <1>3, <1>4, <1>5, <1>6 DEF Found, Answering
<1> QED BY <1>11, <1>12 DEF Lists

LEMMA AtaTypes ==
  ASSUME AtaInv
  PROVE  TypeOK
<1>1. /\ Typed /\ \A p \in Place : Shape(p)
  BY DEF AtaInv
<1>2. ASSUME NEW p \in Place
      PROVE  /\ drive[p].phase \in {"idle", "lag", "busy", "data", "storing", "error"}
             /\ drive[p].cmd \in {"none", "identify", "read", "write", "flush"}
             /\ drive[p].lba \in Lba
             /\ Len(drive[p].moved) <= Words
             /\ \A l \in Lba : DOMAIN media[p][l] = 1 .. Words
  <2>1. /\ drive[p].phase \in Phases /\ drive[p].cmd \in Commands /\ drive[p].lba \in Lba
        /\ drive[p].moved \in Seq(Word)
    BY <1>1, DriveType
  <2>2. drive[p].moved = <<>> \/ Len(drive[p].moved) <= Words
    <3>1. Len(drive[p].moved) \in Nat
      BY <2>1, LenProperties
    <3> QED BY <1>1, <2>1, <3>1, Sizes, RestingFacts DEF Shape, Phases
  <2>3. Len(<<>>) <= Words
    BY Sizes
  <2>4. \A l \in Lba : DOMAIN media[p][l] = 1 .. Words
    BY <1>1 DEF Typed
  <2> QED BY <2>1, <2>2, <2>3, <2>4 DEF Phases, Commands
<1>3. ASSUME NEW i \in DOMAIN buffer
      PROVE  DOMAIN buffer[i] = 1 .. Words /\ \A k \in 1 .. Words : buffer[i][k] \in Word
  <2>1. buffer[i] \in [1 .. Words -> Word]
    BY <1>1, ElementOfSeq, LenProperties DEF Typed
  <2> QED BY <2>1
<1> QED BY <1>1, <1>2, <1>3 DEF TypeOK, Typed

(* The table is the list of the hard disks, and leads to them               *)
(* (ide_init_all, ide_setup_device).                                        *)
THEOREM DisksListed == Spec => []DisksAreTheDrives
<1>1. AtaInv => DisksAreTheDrives
  <2> SUFFICES ASSUME AtaInv PROVE DisksAreTheDrives
    OBVIOUS
  <2>1. at.pc = "up" => disks = Found(4)
    BY UpFacts
  <2> QED BY <2>1, FoundAnswers, AtaTypes DEF DisksAreTheDrives
<1> QED BY <1>1, AtaInvariant, PTL

LEMMA WantedIs ==
  ASSUME AtaInv, at.pc = "up", at.call # "identify"
  PROVE  Wanted[1] = at.place /\ Wanted[2] = Target
<1>1. at.disk \in DOMAIN disks /\ at.place = DriveOf(disks[at.disk].select)
  BY CallFacts DEF AtaInv, CallInv
<1>2. PICK p \in Place : disks[at.disk] = Listed(p, Name(p))
  BY <1>1, UpFacts, FoundIs
<1>3. at.place = p /\ disks[at.disk].info = Name(p)
  BY <1>1, <1>2, PlaceFacts DEF Listed
<1>4. \A q \in Place : disks[at.disk].info = Name(q) => q = p
  BY <1>3 DEF Name
<1>5. PlaceOf(at.disk) = p
  BY <1>3, <1>4 DEF PlaceOf
<1> QED BY <1>3, <1>5 DEF Wanted, Target

(* A read leaves the sector asked for, or words of no sector, in the buffer *)
(* (ata_read_one, ide_poll).                                                *)
THEOREM ReadsTheSector == Spec => []ReadIsTheSector
<1>1. AtaInv => ReadIsTheSector
  <2> SUFFICES ASSUME AtaInv, Over("read") PROVE ReadIsTheSector
    BY DEF ReadIsTheSector
  <2>1. at.pc = "up" /\ at.call = "read"
    BY DEF Over
  <2>2. media[Wanted[1]][Wanted[2]] = Asks /\ buffer[at.disk] = Got
    BY <2>1, WantedIs DEF Asks, Got
  <2>3. Got = Asks \/ Got = Junk
    BY <2>1 DEF AtaInv, ReadInv
  <2>4. ASSUME history.writes = 0, ~history.failed PROVE Got # Junk
    <3>1. Got = Asks /\ media = [p \in Place |-> Sectors(p)]
      BY <2>1, <2>4 DEF AtaInv, ZeroInv
    <3>2. at.place \in Place /\ Target \in Lba /\ 1 \in 1 .. Words
      BY <2>1, CallFacts, Sizes
    <3>3. Asks[1] = <<at.place, Target, 1>>
      BY <3>1, <3>2 DEF Asks, Sectors
    <3>4. Junk[1] = <<"junk">>
      BY <3>2 DEF Junk
    <3>5. <<at.place, Target, 1>> # <<"junk">>
      <4>1. Len(<<at.place, Target, 1>>) = 3 /\ Len(<<"junk">>) = 1
        OBVIOUS
      <4> QED BY <4>1
    <3> QED BY <3>1, <3>3, <3>4, <3>5
  <2> QED BY <2>2, <2>3, <2>4 DEF ReadIsTheSector
<1> QED BY <1>1, AtaInvariant, PTL

(* While no write was late every sector is whole, and the last write is on  *)
(* the disk unless the drive refused it (ata_write_one).                    *)
THEOREM WritesTheSector == Spec => []WriteIsTheSector
<1>1. AtaInv => WriteIsTheSector
  <2> SUFFICES ASSUME AtaInv, ~history.late PROVE WriteIsTheSector
    BY DEF WriteIsTheSector
  <2>1. \A p \in Place, l \in Lba :
          media[p][l] \in {Sectors(p)[l]} \cup {[k \in 1 .. Words |-> <<v, k>>] : v \in Values}
    BY DEF AtaInv, WriteInv, Whole
  <2>2. ASSUME Over("write"), ~history.failed, drive[Wanted[1]].phase # "storing"
        PROVE  media[Wanted[1]][Wanted[2]] = buffer[at.disk]
    <3>1. at.pc = "up" /\ at.call = "write"
      BY <2>2 DEF Over
    <3>2. Wanted[1] = at.place /\ Wanted[2] = Target
      BY <3>1, WantedIs
    <3>3. Stored
      BY <2>2, <3>1 DEF AtaInv, WriteInv, Refused
    <3> QED BY <2>2, <3>2, <3>3 DEF Stored, Asks, Got
  <2> QED BY <2>1, <2>2 DEF WriteIsTheSector
<1> QED BY <1>1, AtaInvariant, PTL

-----------------------------------------------------------------------------
(* The file system.  What the proofs turn on is who owns each block: the    *)
(* pointers fall into groups, one for each variable of the code that holds  *)
(* some, and a step empties groups, hands one on or fills them with blocks  *)
(* that were free (Regrouped, OnlyDropped, Moved).  What a walk lists turns *)
(* on the entries in hand being those of the inode that the path so far     *)
(* leads to (Walking).                                                      *)

Numbers == Nat \ {0}
Entry == [block : Numbers, name : Numbers, string : STRING, inode : DOMAIN Tree]
Text == STRING \cup {"?"}
Part  == [block : Numbers, string : Text]
WalkRecord ==
    [pc : {"idle", "open", "walk", "listed", "respond"}, call : {"none", "list", "info"},
     path : Seq(STRING), asked : Seq(STRING), partition : PartitionKind,
     request : Seq(Numbers), file_name : Seq(Numbers), root : Seq(Entry), split : Seq(Part),
     i : Numbers, found : BOOLEAN, clean : BOOLEAN, resp : Seq(Numbers), copies : Seq(Part)]
ResultRecord == [path : Seq(STRING), names : Seq(Part), held : BOOLEAN, clean : BOOLEAN]
PartitionRecord == [kind : PartitionKind, block : Numbers, disk : Numbers]
NodeRecord == [partition : PartitionKind, index : Nat]
PastRecord(calls) == [calls : calls, missed : BOOLEAN, info : BOOLEAN, path : PathString]

VfsTyped ==
    /\ computer \in Computers /\ live \subseteq Numbers /\ IsFiniteSet(live)
    /\ stage \in {"disks", "mbr", "mount", "up", "panic", "garbage"}
    /\ walk \in WalkRecord /\ result \in ResultRecord
    /\ partitions \in Seq(PartitionRecord) /\ nodes \in Seq(NodeRecord)
    /\ prv_data \in Seq(Seq(Numbers)) /\ RequestServer \in Seq({"ext2"})
    /\ past \in PastRecord(0 .. MaxCalls)

(* What the call in progress has in hand.                                   *)
Strings(seq) == [k \in 1 .. Len(seq) |-> seq[k].string]

(* Entries in memory are those of the directory of an inode; inode 0, of    *)
(* none, has none.                                                          *)
Lists(root, id) ==
    /\ Strings(root) = Names(id)
    /\ id # 0 => id \in DOMAIN Tree /\ \A k \in DOMAIN root : root[k].inode = Tree[id].entries[k].inode

(* A call in progress is one of a path that somebody asked for, served by   *)
(* the first node; what get_file_info walks to is the parent.               *)
Calling(w, ns) ==
    /\ w.call \in {"list", "info"} /\ (\E path \in Paths : w.asked = path.names)
    /\ ns # <<>> /\ w.partition = ns[1].partition
    /\ w.call = "list" => w.path = w.asked /\ w.file_name = <<>>
    /\ w.call = "info" => w.asked # <<>> /\ w.path = Front(w.asked)
    /\ w.path = <<>> => w.clean

Opening(w) ==
    w.root = <<>> /\ w.split = <<>> /\ w.i = 1 /\ w.clean

(* In mid-walk the entries in hand are those of the inode that the path so  *)
(* far leads to.                                                            *)
Walking(w) ==
    /\ Len(w.split) = Len(w.path) /\ w.i \in 1 .. Len(w.split) + 1
    /\ w.clean => /\ Strings(w.split) = w.path
                  /\ Lists(w.root, Resolved(SubSeq(w.path, 1, w.i - 1)))

Listing(w) ==
    /\ w.split = <<>>
    /\ w.clean => Lists(w.root, Resolved(w.path))

Responding(w) ==
    /\ w.split = <<>> /\ w.root = <<>> /\ w.call = "list"
    /\ w.clean => Strings(w.copies) = Names(Resolved(w.path))

RequestInv(w, ns) ==
    /\ w.pc = "idle" => w = Idle
    /\ w.pc # "idle" => Calling(w, ns)
    /\ w.pc # "respond" => w.resp = <<>> /\ w.copies = <<>>
    /\ w.pc \in {"walk", "listed", "respond"} => Readable(w.partition, RootDirectoryInode)
    /\ w.pc = "open" => Opening(w)
    /\ w.pc = "walk" => Walking(w)
    /\ w.pc = "listed" => Listing(w)
    /\ w.pc = "respond" => Responding(w)

ResultInv(r) ==
    /\ ~r.held => r.names = <<>>
    /\ r.held /\ r.clean => Strings(r.names) = Names(Resolved(r.path))

(* The vectors that are indexed together.                                   *)
InStep(ns, prv, servers) ==
    /\ Len(ns) = Len(prv) /\ Len(ns) = Len(servers) /\ Len(ns) <= MaxNodes
    /\ \A k \in DOMAIN ns :
        /\ ns[k].index = k - 1
        /\ Len(prv[k]) = (IF Signature(ns[k].partition) THEN 3 ELSE 1)

(* How far the kernel is.                                                   *)
StageInv ==
    /\ stage \in {"disks", "mbr"} => partitions = <<>>
    /\ stage \in {"disks", "mbr", "mount"} => nodes = <<>>
    /\ stage \in {"disks", "mbr", "mount"} => walk.pc = "idle" /\ ~result.held
    /\ stage = "up" /\ nodes = <<>> => partitions = <<>> \/ ~LinuxType(FirstListed)
    /\ result.held => walk.pc = "idle"
    /\ walk.call = "info" => past.info

(* Once stopped, nothing goes on.                                           *)
Stopped ==
    /\ ~result.held /\ walk.pc # "respond"
    /\ walk.pc = "walk" => walk.i <= Len(walk.split) /\ Matches # {}
    /\ walk.pc = "listed" => walk.call = "info"

(* Each block in use has one owner; unless something was lost, each block   *)
(* has one.                                                                 *)
OwnInv == Separate(Pointers) /\ Blocks(Pointers) \subseteq live
LossInv == ~past.missed /\ ~past.info => live \subseteq Blocks(Pointers)

VfsInv ==
    /\ VfsTyped /\ RequestInv(walk, nodes) /\ ResultInv(result)
    /\ InStep(nodes, prv_data, RequestServer) /\ StageInv
    /\ stage \in {"panic", "garbage"} => Stopped
    /\ OwnInv /\ LossInv /\ StopsKnown

-----------------------------------------------------------------------------
(* Blocks that are free.                                                    *)

(* Each finite set of numbers has an n-th smallest element, for each n up   *)
(* to its size.                                                             *)
LEMMA NthExists ==
  ASSUME NEW m \in Nat, NEW F \in SUBSET (1..m), NEW n \in 1..Cardinality(F)
  PROVE  Nth(F, n) \in F /\ Cardinality({y \in F : y <= Nth(F, n)}) = n
<1> DEFINE Upto(j) == {y \in F : y <= j}
           Has(j) == \A k \in 1..Cardinality(Upto(j)) :
                       \E x \in F : Cardinality(Upto(x)) = k
           D == {j \in 0..m : Has(j)}
<1>0. IsFiniteSet(F) /\ \A j : IsFiniteSet(Upto(j)) /\ Cardinality(Upto(j)) \in Nat
  <2>1. IsFiniteSet(1..m)
    BY FS_Interval
  <2>2. IsFiniteSet(F)
    BY <2>1, FS_Subset
  <2>3. \A j : Upto(j) \in SUBSET F
    OBVIOUS
  <2> HIDE DEF Upto
  <2> QED BY <2>2, <2>3, FS_Subset, FS_CardinalityType
<1>a. \A y \in F : y \in Nat /\ 1 <= y /\ y <= m
  OBVIOUS
<1>1. 0 \in D
  <2>1. Upto(0) = {}
    <3>1. \A y \in F : ~(y <= 0)
      BY <1>a
    <3> QED BY <3>1
  <2>2. Cardinality(Upto(0)) = 0
    BY <2>1, FS_EmptySet
  <2> HIDE DEF Upto
  <2> QED BY <2>2
<1>2. ASSUME NEW j \in 0..(m - 1), j \in D PROVE j + 1 \in D
  <2>1. CASE j + 1 \in F
    <3>1. Upto(j + 1) = Upto(j) \cup {j + 1} /\ j + 1 \notin Upto(j)
      <4>1. \A y \in F : y <= j + 1 <=> y <= j \/ y = j + 1
        BY <1>a
      <4>2. ~(j + 1 <= j)
        OBVIOUS
      <4> QED BY <2>1, <4>1, <4>2
    <3> HIDE DEF Upto
    <3>2. Cardinality(Upto(j + 1)) = Cardinality(Upto(j)) + 1
      BY <3>1, <1>0, FS_AddElement
    <3>3. ASSUME NEW k \in 1..Cardinality(Upto(j + 1))
          PROVE  \E x \in F : Cardinality(Upto(x)) = k
      <4>1. k \in 1..Cardinality(Upto(j)) \/ k = Cardinality(Upto(j + 1))
        BY <3>2, <1>0
      <4> QED BY <4>1, <1>2, <2>1
    <3> QED BY <3>3
  <2>2. CASE j + 1 \notin F
    <3>1. Upto(j + 1) = Upto(j)
      <4>1. \A y \in F : y <= j + 1 <=> y <= j
        BY <1>a, <2>2
      <4> QED BY <4>1
    <3> HIDE DEF Upto
    <3> QED BY <3>1, <1>2
  <2> QED BY <2>1, <2>2
<1>3. Upto(m) = F
  BY <1>a
<1>4. m \in D
  <2> HIDE DEF D
  <2>1. \A k \in 0..m : k \in D
    BY <1>1, <1>2, Induction
  <2> QED BY <2>1
<1>5. \E x \in F : Cardinality(Upto(x)) = n
  <2> HIDE DEF Upto
  <2> QED BY <1>3, <1>4
<1> QED BY <1>5 DEF Nth

(* kmalloc answers with blocks that are apart and that nobody has.          *)
LEMMA FreshBlocks ==
  ASSUME NEW used \in SUBSET Numbers, IsFiniteSet(used), NEW n \in Nat
  PROVE  /\ Fresh(used, n) \in Seq(Numbers) /\ Len(Fresh(used, n)) = n
         /\ DOMAIN Fresh(used, n) = 1..n
         /\ \A k \in 1..n : Fresh(used, n)[k] \in Numbers \ used
         /\ \A k, l \in 1..n : Fresh(used, n)[k] = Fresh(used, n)[l] => k = l
<1> DEFINE c == Cardinality(used)
           m == c + n
           free == (1..m) \ used
           new == [k \in 1..n |-> Nth(free, k)]
<1>1. c \in Nat /\ m \in Nat
  BY FS_CardinalityType
<1>2. IsFiniteSet(1..m) /\ Cardinality(1..m) = m
  <2> HIDE DEF m
  <2> QED BY <1>1, FS_Interval
<1>3. Cardinality(free) \in Nat /\ n <= Cardinality(free)
  <2>1. Cardinality(free) = Cardinality(1..m) - Cardinality((1..m) \cap used)
    BY <1>2, FS_Difference
  <2>2. Cardinality((1..m) \cap used) <= c /\ IsFiniteSet((1..m) \cap used)
    BY FS_Intersection
  <2>3. Cardinality((1..m) \cap used) \in Nat
    BY <2>2, FS_CardinalityType
  <2>4. IsFiniteSet(free)
    BY <1>2, FS_Difference
  <2>5. Cardinality(free) \in Nat
    BY <2>4, FS_CardinalityType
  <2> HIDE DEF free
  <2> QED BY <1>1, <1>2, <2>1, <2>2, <2>3, <2>5
<1>4. ASSUME NEW k \in 1..n
      PROVE  Nth(free, k) \in free /\ Cardinality({y \in free : y <= Nth(free, k)}) = k
  <2>1. k \in 1..Cardinality(free) /\ free \in SUBSET (1..m)
    BY <1>3
  <2> HIDE DEF free, m
  <2> QED BY <1>1, <2>1, NthExists
<1>5. Fresh(used, n) = new
  BY DEF Fresh
<1>6. \A k \in 1..n : new[k] \in Numbers \ used
  <2>1. \A b \in free : b \in Numbers \ used
    BY <1>1 DEF Numbers
  <2> HIDE DEF free
  <2> QED BY <1>4, <2>1
<1>7. \A k, l \in 1..n : new[k] = new[l] => k = l
  <2> HIDE DEF free
  <2> QED BY <1>4
<1>8. new \in [1..n -> Numbers] /\ DOMAIN new = 1..n
  BY <1>6
<1>9. new \in Seq(Numbers) /\ Len(new) = n
  <2> HIDE DEF new
  <2> QED BY <1>8
<1> QED BY <1>5, <1>6, <1>7, <1>8, <1>9

LEMMA BlocksFinite ==
  ASSUME NEW s \in Seq(Numbers), NEW used \in SUBSET Numbers, IsFiniteSet(used)
  PROVE  /\ Range(s) \in SUBSET Numbers /\ IsFiniteSet(Range(s))
         /\ Adding(used, s) \in SUBSET Numbers /\ IsFiniteSet(Adding(used, s))
         /\ Without(used, s) \in SUBSET Numbers /\ IsFiniteSet(Without(used, s))
<1>1. Range(s) \in SUBSET Numbers
  BY DEF Range
<1>2. IsFiniteSet(Range(s))
  <2>1. s \in Surjection(1..Len(s), Range(s))
    <3>1. DOMAIN s = 1..Len(s) /\ Len(s) \in Nat
      OBVIOUS
    <3>2. s \in [1..Len(s) -> Range(s)]
      BY <3>1 DEF Range
    <3>3. \A b \in Range(s) : \E k \in 1..Len(s) : s[k] = b
      BY <3>1 DEF Range
    <3> QED BY <3>2, <3>3 DEF Surjection
  <2>2. IsFiniteSet(1..Len(s))
    BY FS_Interval
  <2> QED BY <2>1, <2>2, FS_Surjection
<1>3. IsFiniteSet(used \cup Range(s)) /\ IsFiniteSet(used \ Range(s))
  BY <1>2, FS_Union, FS_Difference
<1> QED BY <1>1, <1>2, <1>3 DEF Adding, Without

-----------------------------------------------------------------------------
(* Inodes and paths.                                                        *)

LEMMA DivMod ==
  ASSUME NEW c \in Numbers, NEW x \in Nat
  PROVE  (x \div c) * c + (x % c) = x /\ x \div c \in Nat /\ x % c \in Nat
BY DEF Numbers

(* read_inode looks where mkfs put the inode.                               *)
LEMMA InodeReadIs ==
  ASSUME NEW id \in Numbers
  PROVE  InodeRead(id) = id
<1> DEFINE x == InodeIndex(id)
           g == GroupOf(id)
           b == x \div InodesPerBlock
           o == x % InodesPerBlock
<1>1. InodesPerGroup \in Numbers /\ InodesPerBlock \in Numbers
  BY LayoutAssumption DEF Numbers
<1>2. id - 1 \in Nat
  BY DEF Numbers
<1>3. g * InodesPerGroup + x = id - 1 /\ x \in Nat
  BY <1>1, <1>2, DivMod DEF GroupOf, InodeIndex
<1>4. b * InodesPerBlock + o = x /\ o \in Nat
  BY <1>1, <1>3, DivMod
<1>5. InodeRead(id) = g * InodesPerGroup + b * InodesPerBlock + o + 1
  BY DEF InodeRead, InodeAt
<1>6. g * InodesPerGroup \in Nat /\ b * InodesPerBlock \in Nat
  <2>1. g \in Nat /\ b \in Nat
    BY <1>1, <1>2, <1>3, DivMod DEF GroupOf
  <2>2. \A u, w \in Nat : u * w \in Nat
    OBVIOUS
  <2> HIDE DEF g, b
  <2> QED BY <2>1, <2>2, <1>1 DEF Numbers
<1> DEFINE gi == g * InodesPerGroup
           bi == b * InodesPerBlock
<1>7. gi + x = id - 1 /\ bi + o = x /\ InodeRead(id) = gi + bi + o + 1
      /\ gi \in Nat /\ bi \in Nat /\ x \in Nat /\ o \in Nat /\ id \in Nat
  BY <1>3, <1>4, <1>5, <1>6 DEF Numbers
<1> HIDE DEF gi, bi, x, o, g, b
<1> QED BY <1>7

Inodes == DOMAIN Tree \cup {0}

LEMMA EntriesType ==
  ASSUME NEW id \in DOMAIN Tree
  PROVE  /\ Tree[id].entries \in Seq([name : STRING, inode : DOMAIN Tree])
         /\ id \in Numbers
         /\ \A k, l \in 1..Len(Tree[id].entries) :
              Tree[id].entries[k].name = Tree[id].entries[l].name => k = l
<1>1. Tree[id].entries \in Seq([name : STRING, inode : DOMAIN Tree])
  BY TreeAssumption
<1>2. DOMAIN Tree[id].entries = 1..Len(Tree[id].entries)
  BY <1>1
<1> QED BY <1>1, <1>2, TreeAssumption DEF Numbers

(* The entry with a name, and where there is none.                          *)
LEMMA ChildIs ==
  ASSUME NEW id \in DOMAIN Tree, NEW n
  PROVE  /\ \A k \in 1..Len(Tree[id].entries) :
              Tree[id].entries[k].name = n => Child(id, n) = Tree[id].entries[k].inode
         /\ (\A k \in 1..Len(Tree[id].entries) : Tree[id].entries[k].name # n) => Child(id, n) = 0
<1> DEFINE es == Tree[id].entries
<1>1. /\ es \in Seq([name : STRING, inode : DOMAIN Tree]) /\ id # 0
      /\ \A k, l \in 1..Len(es) : es[k].name = es[l].name => k = l
  BY EntriesType DEF Numbers
<1>2. Range(es) = {es[k] : k \in 1..Len(es)}
  BY <1>1 DEF Range
<1>3. ASSUME NEW k \in 1..Len(es), es[k].name = n PROVE Child(id, n) = es[k].inode
  <2>1. es[k] \in Range(es)
    BY <1>2
  <2>2. \A e \in Range(es) : e.name = n => e = es[k]
    BY <1>1, <1>2, <1>3
  <2>3. (CHOOSE e \in Range(es) : e.name = n) = es[k]
    BY <2>1, <2>2, <1>3
  <2> QED BY <2>1, <2>3, <1>1, <1>3 DEF Child
<1>4. ASSUME \A k \in 1..Len(es) : es[k].name # n PROVE Child(id, n) = 0
  BY <1>2, <1>4 DEF Child
<1> QED BY <1>3, <1>4

LEMMA ChildType ==
  ASSUME NEW id \in Inodes, NEW n
  PROVE  Child(id, n) \in Inodes /\ Child(0, n) = 0
<1>1. CASE id = 0
  BY <1>1 DEF Child, Inodes
<1>2. CASE id # 0
  <2>1. id \in DOMAIN Tree
    BY <1>2 DEF Inodes
  <2>2. CASE \E k \in 1..Len(Tree[id].entries) : Tree[id].entries[k].name = n
    <3>1. PICK k \in 1..Len(Tree[id].entries) : Tree[id].entries[k].name = n
      BY <2>2
    <3>2. Tree[id].entries[k].inode \in DOMAIN Tree
      <4> DEFINE es == Tree[id].entries
      <4>1. es \in Seq([name : STRING, inode : DOMAIN Tree])
        BY <2>1, EntriesType
      <4>2. k \in 1..Len(es)
        OBVIOUS
      <4>3. es[k] \in [name : STRING, inode : DOMAIN Tree]
        <5> HIDE DEF es
        <5> QED BY <4>1, <4>2, ElementOfSeq
      <4> QED BY <4>3
    <3>3. Child(id, n) = Tree[id].entries[k].inode
      BY <2>1, <3>1, ChildIs
    <3>4. Child(0, n) = 0
      BY DEF Child
    <3> QED BY <3>2, <3>3, <3>4 DEF Inodes
  <2>3. CASE \A k \in 1..Len(Tree[id].entries) : Tree[id].entries[k].name # n
    BY <2>1, <2>3, ChildIs DEF Inodes, Child
  <2> QED BY <2>2, <2>3
<1> QED BY <1>1, <1>2

(* Where a path leads, name by name.                                        *)
Follows(R, path, n) ==
  R = [k \in 0..n |-> IF k = 0 THEN RootDirectoryInode ELSE Child(R[k - 1], path[k])]

LEMMA FollowsExists ==
  ASSUME NEW path, NEW n \in Nat
  PROVE  \E R : Follows(R, path, n)
<1> DEFINE D == {m \in 0..n : \E R : Follows(R, path, m)}
<1>1. 0 \in D
  <2> DEFINE R == [k \in 0..0 |-> RootDirectoryInode]
  <2>1. R = [k \in 0..0 |-> IF k = 0 THEN RootDirectoryInode ELSE Child(R[k - 1], path[k])]
    OBVIOUS
  <2> HIDE DEF R
  <2> QED BY <2>1 DEF Follows
<1>2. ASSUME NEW m \in 0..(n - 1), m \in D PROVE m + 1 \in D
  <2>1. PICK R : Follows(R, path, m)
    BY <1>2
  <2> DEFINE S == [k \in 0..(m + 1) |-> IF k = m + 1 THEN Child(R[m], path[m + 1]) ELSE R[k]]
  <2>2. ASSUME NEW k \in 0..(m + 1)
        PROVE  S[k] = IF k = 0 THEN RootDirectoryInode ELSE Child(S[k - 1], path[k])
    <3>1. CASE k = m + 1
      BY <3>1
    <3>2. CASE k # m + 1
      <4>1. k \in 0..m /\ (k # 0 => k - 1 \in 0..(m + 1) /\ k - 1 # m + 1)
        BY <3>2
      <4>2. R[k] = IF k = 0 THEN RootDirectoryInode ELSE Child(R[k - 1], path[k])
        BY <2>1, <4>1 DEF Follows
      <4> QED BY <3>2, <4>1, <4>2
    <3> QED BY <3>1, <3>2
  <2>3. DOMAIN S = 0..(m + 1)
    OBVIOUS
  <2>4. S = [k \in 0..(m + 1) |-> S[k]]
    OBVIOUS
  <2> HIDE DEF S
  <2>5. Follows(S, path, m + 1)
    BY <2>2, <2>4 DEF Follows
  <2> QED BY <2>5
<1>3. \A k \in 0..n : k \in D
  <2> HIDE DEF D
  <2> QED BY <1>1, <1>2, Induction
<1> QED BY <1>3

LEMMA FollowsOnce ==
  ASSUME NEW p, NEW q, NEW R, NEW S, NEW m \in Nat, NEW n \in Nat, NEW j \in 0..n, j <= m,
         Follows(R, p, m), Follows(S, q, n), \A k \in 1..j : p[k] = q[k]
  PROVE  \A k \in 0..j : R[k] = S[k]
<1> DEFINE D == {k \in 0..j : R[k] = S[k]}
<1>1. 0 \in D
  BY DEF Follows
<1>2. ASSUME NEW k \in 0..(j - 1), k \in D PROVE k + 1 \in D
  <2>1. k + 1 \in 1..j /\ k + 1 \in 0..m /\ k + 1 \in 0..n /\ (k + 1) - 1 = k /\ k + 1 # 0
    OBVIOUS
  <2>2. R[k + 1] = Child(R[k], p[k + 1])
    BY <2>1 DEF Follows
  <2>3. S[k + 1] = Child(S[k], q[k + 1])
    BY <2>1 DEF Follows
  <2> QED BY <1>2, <2>1, <2>2, <2>3
<1>3. j \in Nat
  OBVIOUS
<1>4. \A k \in 0..j : k \in D
  <2> HIDE DEF D
  <2> QED BY <1>1, <1>2, <1>3, Induction
<1> QED BY <1>4

LEMMA ResolvedIs ==
  ASSUME NEW path, Len(path) \in Nat
  PROVE  \E R : Follows(R, path, Len(path)) /\ Resolved(path) = R[Len(path)]
<1>1. PICK S : Follows(S, path, Len(path))
  BY FollowsExists
<1> DEFINE R == CHOOSE R : R = [k \in 0..Len(path) |->
                  IF k = 0 THEN RootDirectoryInode ELSE Child(R[k - 1], path[k])]
<1>2. R = [k \in 0..Len(path) |-> IF k = 0 THEN RootDirectoryInode ELSE Child(R[k - 1], path[k])]
  BY <1>1 DEF Follows
<1>3. Resolved(path) = R[Len(path)]
  BY DEF Resolved
<1> HIDE DEF R
<1> QED BY <1>2, <1>3 DEF Follows

(* The path so far, and one name more.                                      *)
LEMMA ResolvedSteps ==
  ASSUME NEW path \in Seq(STRING)
  PROVE  /\ Resolved(SubSeq(path, 1, 0)) = RootDirectoryInode
         /\ \A k \in 1..Len(path) :
              Resolved(SubSeq(path, 1, k)) = Child(Resolved(SubSeq(path, 1, k - 1)), path[k])
         /\ \A k \in 0..Len(path) : Resolved(SubSeq(path, 1, k)) \in Inodes
         /\ SubSeq(path, 1, Len(path)) = path
<1>1. Len(path) \in Nat
  OBVIOUS
<1>2. PICK R : Follows(R, path, Len(path))
  BY <1>1, FollowsExists
<1>3. ASSUME NEW j \in 0..Len(path) PROVE Resolved(SubSeq(path, 1, j)) = R[j]
  <2> DEFINE q == SubSeq(path, 1, j)
  <2>1. Len(q) = j /\ j \in Nat /\ \A k \in 1..j : q[k] = path[k]
    OBVIOUS
  <2> HIDE DEF q
  <2>2. PICK S : Follows(S, q, j) /\ Resolved(q) = S[j]
    BY <2>1, ResolvedIs
  <2>3. \A k \in 0..j : S[k] = R[k]
    BY <1>1, <1>2, <2>1, <2>2, FollowsOnce
  <2> QED BY <2>1, <2>2, <2>3 DEF q
<1>4. R[0] = RootDirectoryInode
  BY <1>1, <1>2 DEF Follows
<1>5. \A k \in 1..Len(path) : R[k] = Child(R[k - 1], path[k])
  BY <1>2 DEF Follows
<1>6. \A k \in 0..Len(path) : R[k] \in Inodes
  <2> DEFINE D == {k \in 0..Len(path) : R[k] \in Inodes}
  <2>1. 0 \in D
    BY <1>1, <1>4, TreeAssumption DEF Inodes
  <2>2. ASSUME NEW k \in 0..(Len(path) - 1), k \in D PROVE k + 1 \in D
    <3>1. k + 1 \in 1..Len(path) /\ (k + 1) - 1 = k /\ k + 1 \in 0..Len(path)
      OBVIOUS
    <3> QED BY <1>5, <2>2, <3>1, ChildType
  <2>3. \A k \in 0..Len(path) : k \in D
    <3> HIDE DEF D
    <3> QED BY <1>1, <2>1, <2>2, Induction
  <2> QED BY <2>3
<1>7. \A k \in 1..Len(path) : k - 1 \in 0..Len(path) /\ k \in 0..Len(path)
  OBVIOUS
<1>8. SubSeq(path, 1, Len(path)) = path
  OBVIOUS
<1>9. 0 \in 0..Len(path)
  BY <1>1
<1> QED BY <1>3, <1>4, <1>5, <1>6, <1>7, <1>8, <1>9

(* A path that leads nowhere leads nowhere with more names after it.        *)
LEMMA NowhereStays ==
  ASSUME NEW path \in Seq(STRING), NEW j \in 0..Len(path), Resolved(SubSeq(path, 1, j)) = 0
  PROVE  Resolved(path) = 0
<1> DEFINE n == Len(path) - j
           D == {k \in 0..n : Resolved(SubSeq(path, 1, j + k)) = 0}
<1>1. n \in Nat
  OBVIOUS
<1>2. 0 \in D
  BY <1>1
<1>3. ASSUME NEW k \in 0..(n - 1), k \in D PROVE k + 1 \in D
  <2>1. j + (k + 1) \in 1..Len(path) /\ (j + (k + 1)) - 1 = j + k /\ k + 1 \in 0..n
    OBVIOUS
  <2>2. Child(0, path[j + (k + 1)]) = 0
    BY DEF Child
  <2> QED BY <1>3, <2>1, <2>2, ResolvedSteps
<1>4. \A k \in 0..n : k \in D
  <2> HIDE DEF D, n
  <2> QED BY <1>1, <1>2, <1>3, Induction
<1>5. n \in D /\ j + n = Len(path)
  <2> HIDE DEF D
  <2> QED BY <1>1, <1>4
<1> QED BY <1>5, ResolvedSteps

(* What a path leads to when a directory of the right names is in hand.     *)
LEMMA StringsIs ==
  ASSUME NEW T, NEW s \in Seq(T)
  PROVE  Len(Strings(s)) = Len(s) /\ \A k \in 1..Len(s) : Strings(s)[k] = s[k].string
<1>1. Len(s) \in Nat
  OBVIOUS
<1> QED BY <1>1 DEF Strings

LEMMA NamesIs ==
  ASSUME NEW id \in DOMAIN Tree
  PROVE  /\ Len(Names(id)) = Len(Tree[id].entries)
         /\ \A k \in 1..Len(Tree[id].entries) : Names(id)[k] = Tree[id].entries[k].name
         /\ Names(0) = <<>>
<1>1. id # 0 /\ Len(Tree[id].entries) \in Nat
  BY EntriesType DEF Numbers
<1> QED BY <1>1 DEF Names

(* A directory in hand has an entry with a name just when the tree has, and *)
(* then for the same inode.                                                 *)
LEMMA ListsChild ==
  ASSUME NEW root \in Seq(Entry), NEW id \in Inodes, Lists(root, id), NEW n
  PROVE  /\ \A e \in 1..Len(root) : root[e].string = n => Child(id, n) = root[e].inode
         /\ (\A e \in 1..Len(root) : root[e].string # n) => Child(id, n) = 0
<1>1. CASE id = 0
  <2>1. Len(Strings(root)) = Len(root) /\ Strings(root) = <<>>
    BY <1>1, StringsIs DEF Lists, Names
  <2>2. Len(root) = 0
    BY <2>1
  <2> QED BY <1>1, <2>2 DEF Child
<1>2. CASE id # 0
  <2>1. id \in DOMAIN Tree
    BY <1>2 DEF Inodes
  <2> DEFINE es == Tree[id].entries
  <2>2. /\ Len(Strings(root)) = Len(root)
        /\ \A k \in 1..Len(root) : Strings(root)[k] = root[k].string
    BY StringsIs
  <2>3. Len(Names(id)) = Len(es) /\ \A k \in 1..Len(es) : Names(id)[k] = es[k].name
    BY <2>1, NamesIs
  <2>4. Strings(root) = Names(id)
    BY DEF Lists
  <2>5. Len(root) = Len(es) /\ \A k \in 1..Len(root) : root[k].string = es[k].name
    BY <2>2, <2>3, <2>4
  <2>6. DOMAIN root = 1..Len(root)
    OBVIOUS
  <2>7. \A k \in 1..Len(root) : root[k].inode = es[k].inode
    BY <1>2, <2>6 DEF Lists
  <2>8. \A k \in 1..Len(es) : es[k].name = n => Child(id, n) = es[k].inode
    BY <2>1, ChildIs
  <2>9. (\A k \in 1..Len(es) : es[k].name # n) => Child(id, n) = 0
    BY <2>1, ChildIs
  <2> HIDE DEF es
  <2> QED BY <2>5, <2>7, <2>8, <2>9
<1> QED BY <1>1, <1>2

-----------------------------------------------------------------------------
(* Who has which block.                                                     *)

(* parse_dir's vector owns, entry by entry, the blocks it was given.        *)
LEMMA ParsedIs ==
  ASSUME NEW id \in DOMAIN Tree, NEW used \in SUBSET Numbers, IsFiniteSet(used)
  PROVE  /\ Parsed(id, used) \in Seq(Entry) /\ Lists(Parsed(id, used), id)
         /\ \E n \in Nat : BlocksOf(Parsed(id, used)) = Fresh(used, n)
<1> DEFINE es == Tree[id].entries
           n == Len(es)
           m == 2 * n
           new == Fresh(used, m)
           new2 == [k \in 1..n |-> [block |-> new[2 * k - 1], name |-> new[2 * k],
                                    string |-> es[k].name, inode |-> es[k].inode]]
<1>1. InodeRead(id) = id
  BY EntriesType, InodeReadIs
<1>2. Parsed(id, used) = new2
  BY <1>1 DEF Parsed
<1>3. es \in Seq([name : STRING, inode : DOMAIN Tree]) /\ n \in Nat
  <2>1. es \in Seq([name : STRING, inode : DOMAIN Tree])
    BY EntriesType
  <2> HIDE DEF es
  <2> QED BY <2>1
<1>4. \A k \in 1..n : es[k] \in [name : STRING, inode : DOMAIN Tree]
  <2> HIDE DEF es
  <2> QED BY <1>3, ElementOfSeq
<1>5. /\ \A k \in 1..(2 * n) : new[k] \in Numbers
      /\ DOMAIN new = 1..(2 * n)
  <2>1. m \in Nat
    BY <1>3
  <2> HIDE DEF m
  <2>2. /\ \A k \in 1..m : new[k] \in Numbers
        /\ DOMAIN new = 1..m
    BY <2>1, FreshBlocks
  <2> QED BY <2>2 DEF m
<1>6. \A k \in 1..n : new[2 * k - 1] \in Numbers /\ new[2 * k] \in Numbers
  <2>1. \A k \in 1..n : 2 * k - 1 \in 1..(2 * n) /\ 2 * k \in 1..(2 * n)
    BY <1>3
  <2> QED BY <1>5, <2>1
<1>7. new2 \in [1..n -> Entry] /\ DOMAIN new2 = 1..n
  BY <1>4, <1>6 DEF Entry
<1>8. new2 \in Seq(Entry) /\ Len(new2) = n
  <2> HIDE DEF new2, n
  <2> QED BY <1>3, <1>7
<1>9. Lists(new2, id)
  <2>1. Strings(new2) = [k \in 1..n |-> es[k].name]
    BY <1>8 DEF Strings
  <2>2. Names(id) = [k \in 1..n |-> es[k].name]
    BY EntriesType DEF Names, Numbers
  <2>3. \A k \in DOMAIN new2 : new2[k].inode = es[k].inode
    OBVIOUS
  <2> HIDE DEF new2
  <2> QED BY <2>1, <2>2, <2>3 DEF Lists
<1>10. BlocksOf(new2) = new
  <2>1. BlocksOf(new2) = [k \in 1..(2 * n) |->
          IF k % 2 = 1 THEN new2[(k + 1) \div 2].block ELSE new2[k \div 2].name]
    BY <1>8 DEF BlocksOf
  <2>2. ASSUME NEW k \in 1..(2 * n)
        PROVE  (IF k % 2 = 1 THEN new2[(k + 1) \div 2].block ELSE new2[k \div 2].name) = new[k]
    <3>1. CASE k % 2 = 1
      <4>1. (k + 1) \div 2 \in 1..n /\ 2 * ((k + 1) \div 2) - 1 = k
        <5> HIDE DEF n
        <5> QED BY <1>3, <3>1
      <4>2. new2[(k + 1) \div 2].block = new[2 * ((k + 1) \div 2) - 1]
        BY <4>1
      <4> HIDE DEF new2, new
      <4> QED BY <3>1, <4>1, <4>2
    <3>2. CASE k % 2 # 1
      <4>1. k \div 2 \in 1..n /\ 2 * (k \div 2) = k
        <5> HIDE DEF n
        <5> QED BY <1>3, <3>2
      <4>2. new2[k \div 2].name = new[2 * (k \div 2)]
        BY <4>1
      <4> HIDE DEF new2, new
      <4> QED BY <3>2, <4>1, <4>2
    <3> QED BY <3>1, <3>2
  <2>3. new = [k \in 1..(2 * n) |-> new[k]]
    BY DEF Fresh
  <2> HIDE DEF new2, new
  <2> QED BY <2>1, <2>2, <2>3
<1>11. 2 * n \in Nat
  BY <1>3
<1> HIDE DEF new2
<1> QED BY <1>2, <1>8, <1>9, <1>10, <1>11

LEMMA SplitIs ==
  ASSUME NEW strings \in Seq(Text), NEW used \in SUBSET Numbers, IsFiniteSet(used)
  PROVE  /\ SplitOf(strings, used) \in Seq(Part) /\ Len(SplitOf(strings, used)) = Len(strings)
         /\ Strings(SplitOf(strings, used)) = strings
         /\ PtrsOf(SplitOf(strings, used)) = Fresh(used, Len(strings))
<1> DEFINE n == Len(strings)
           new == Fresh(used, n)
           parts == [k \in 1..n |-> [block |-> new[k], string |-> strings[k]]]
<1>1. n \in Nat /\ \A k \in 1..n : new[k] \in Numbers /\ strings[k] \in Text
  BY FreshBlocks
<1>2. parts \in [1..n -> Part]
  BY <1>1 DEF Part
<1>3. parts \in Seq(Part) /\ Len(parts) = n
  <2> HIDE DEF parts
  <2> QED BY <1>1, <1>2
<1>4. Strings(parts) = [k \in 1..n |-> strings[k]]
  BY <1>3 DEF Strings
<1>5. strings = [k \in 1..n |-> strings[k]]
  OBVIOUS
<1>6. PtrsOf(parts) = [k \in 1..n |-> new[k]]
  BY <1>3 DEF PtrsOf
<1>7. new = [k \in 1..n |-> new[k]]
  BY DEF Fresh
<1>8. SplitOf(strings, used) = parts
  BY DEF SplitOf
<1> HIDE DEF parts, new
<1> QED BY <1>3, <1>4, <1>5, <1>6, <1>7, <1>8 DEF new

(* The owners, one by one, and the nodes behind them.                       *)
Groups(a, b, c, d, e, f, g, h, prv) == <<a, b, c, d, e, f, g, h>> \o prv

LEMMA GroupsAre ==
  ASSUME NEW T, NEW prv \in Seq(T), NEW a, NEW b, NEW c, NEW d, NEW e, NEW f, NEW g, NEW h,
         NEW P, P = Groups(a, b, c, d, e, f, g, h, prv)
  PROVE  /\ DOMAIN P = 1..(8 + Len(prv))
         /\ P[1] = a /\ P[2] = b /\ P[3] = c /\ P[4] = d /\ P[5] = e /\ P[6] = f
         /\ P[7] = g /\ P[8] = h
         /\ \A k \in 1..Len(prv) : P[8 + k] = prv[k]
<1> DEFINE U == {a, b, c, d, e, f, g, h} \cup T
<1>1. <<a, b, c, d, e, f, g, h>> \in Seq(U) /\ prv \in Seq(U)
  OBVIOUS
<1> QED BY <1>1 DEF Groups

(* When each group of blocks is what it was, empty, or fresh, and only      *)
(* blocks of groups that are gone are freed, then no block has two owners   *)
(* and no owner has a block that is free; and if nothing is dropped without *)
(* being freed, nothing is lost.                                            *)
Gone(g, P, Q) == g \notin DOMAIN Q \/ Q[g] # P[g]

LEMMA Regrouped ==
  ASSUME NEW P, NEW Q, NEW used, NEW then, NEW F,
         Separate(P), Blocks(P) \subseteq used,
         \A g \in DOMAIN Q \ F : (\A k \in DOMAIN Q[g] : FALSE) \/ (g \in DOMAIN P /\ Q[g] = P[g]),
         \A g \in DOMAIN Q \cap F : \A k \in DOMAIN Q[g] : Q[g][k] \in then \ used,
         \A g, h \in DOMAIN Q \cap F : \A k \in DOMAIN Q[g], l \in DOMAIN Q[h] :
            Q[g][k] = Q[h][l] => g = h /\ k = l,
         \A b \in used \ then : \E g \in DOMAIN P : b \in Range(P[g]) /\ (Gone(g, P, Q) \/ g \in F)
  PROVE  Separate(Q) /\ Blocks(Q) \subseteq then
<1>1. \A g \in DOMAIN P : \A k \in DOMAIN P[g] : P[g][k] \in used
  BY DEF Blocks, Range
<1>2. ASSUME NEW g \in DOMAIN Q, NEW k \in DOMAIN Q[g]
      PROVE  /\ g \in F => Q[g][k] \in then \ used
             /\ g \notin F => g \in DOMAIN P /\ Q[g] = P[g] /\ Q[g][k] \in used
  BY <1>1
<1>3. ASSUME NEW g \in DOMAIN Q, NEW h \in DOMAIN Q,
             NEW k \in DOMAIN Q[g], NEW l \in DOMAIN Q[h], Q[g][k] = Q[h][l]
      PROVE  g = h /\ k = l
  <2>1. CASE g \in F /\ h \in F
    BY <1>3, <2>1
  <2>2. CASE g \notin F /\ h \notin F
    BY <1>2, <1>3, <2>2 DEF Separate
  <2>3. CASE (g \in F /\ h \notin F) \/ (g \notin F /\ h \in F)
    BY <1>2, <1>3, <2>3
  <2> QED BY <2>1, <2>2, <2>3
<1>4. ASSUME NEW g \in DOMAIN Q, NEW k \in DOMAIN Q[g] PROVE Q[g][k] \in then
  <2>1. CASE g \in F
    BY <1>2, <2>1
  <2>2. CASE g \notin F
    <3>1. g \in DOMAIN P /\ Q[g] = P[g] /\ Q[g][k] \in used
      BY <1>2, <2>2
    <3>2. SUFFICES ASSUME Q[g][k] \notin then PROVE FALSE
      OBVIOUS
    <3>3. PICK h \in DOMAIN P : Q[g][k] \in Range(P[h]) /\ (Gone(h, P, Q) \/ h \in F)
      BY <3>1, <3>2
    <3>4. PICK l \in DOMAIN P[h] : P[h][l] = P[g][k]
      BY <3>1, <3>3 DEF Range
    <3>5. g = h
      BY <3>1, <3>4 DEF Separate
    <3> QED BY <2>2, <3>1, <3>3, <3>5 DEF Gone
  <2> QED BY <2>1, <2>2
<1> QED BY <1>3, <1>4 DEF Separate, Blocks, Range

LEMMA OnlyDropped ==
  ASSUME NEW P, NEW Q, NEW used, NEW then,
         Separate(P), Blocks(P) \subseteq used,
         \A g \in DOMAIN Q : (\A k \in DOMAIN Q[g] : FALSE) \/ (g \in DOMAIN P /\ Q[g] = P[g]),
         \A b \in used \ then : \E g \in DOMAIN P : b \in Range(P[g]) /\ Gone(g, P, Q)
  PROVE  Separate(Q) /\ Blocks(Q) \subseteq then
<1> DEFINE F == {}
<1>1. /\ \A g \in DOMAIN Q \ F : (\A k \in DOMAIN Q[g] : FALSE) \/ (g \in DOMAIN P /\ Q[g] = P[g])
      /\ \A g \in DOMAIN Q \cap F : \A k \in DOMAIN Q[g] : Q[g][k] \in then \ used
      /\ \A g, h \in DOMAIN Q \cap F : \A k \in DOMAIN Q[g], l \in DOMAIN Q[h] :
            Q[g][k] = Q[h][l] => g = h /\ k = l
      /\ \A b \in used \ then : \E g \in DOMAIN P : b \in Range(P[g]) /\ (Gone(g, P, Q) \/ g \in F)
  OBVIOUS
<1> HIDE DEF F
<1> QED BY <1>1, Regrouped

LEMMA NoneLost ==
  ASSUME NEW P, NEW Q, NEW used, NEW then, used \subseteq Blocks(P),
         \A b \in then \ used : \E g \in DOMAIN Q : b \in Range(Q[g]),
         \A g \in DOMAIN P : Gone(g, P, Q) => \A b \in Range(P[g]) : b \notin then
  PROVE  then \subseteq Blocks(Q)
<1>1. ASSUME NEW b \in then PROVE \E g \in DOMAIN Q : b \in Range(Q[g])
  <2>1. CASE b \in used
    <3>1. PICK g \in DOMAIN P : b \in Range(P[g])
      BY <2>1 DEF Blocks
    <3> QED BY <3>1 DEF Gone
  <2>2. CASE b \notin used
    BY <2>2
  <2> QED BY <2>1, <2>2
<1> QED BY <1>1 DEF Blocks

-----------------------------------------------------------------------------
(* The steps of a walk.                                                     *)

LEMMA WalkTypes ==
  ASSUME NEW w \in WalkRecord
  PROVE  /\ w.pc \in {"idle", "open", "walk", "listed", "respond"}
         /\ w.call \in {"none", "list", "info"}
         /\ w.path \in Seq(STRING) /\ w.asked \in Seq(STRING) /\ w.partition \in PartitionKind
         /\ w.request \in Seq(Numbers) /\ w.file_name \in Seq(Numbers) /\ w.root \in Seq(Entry)
         /\ w.split \in Seq(Part) /\ w.i \in Numbers /\ w.resp \in Seq(Numbers)
         /\ w.copies \in Seq(Part) /\ w.found \in BOOLEAN /\ w.clean \in BOOLEAN
BY DEF WalkRecord

(* Fields changed, one step of the code at a time.                          *)
LEMMA FieldsChanged ==
  ASSUME NEW A, NEW B, NEW C, NEW D, NEW E, NEW F, NEW G, NEW H, NEW I, NEW J, NEW K, NEW L,
         NEW M, NEW N,
         NEW w \in [pc : A, call : B, path : C, asked : D, partition : E, request : F,
                    file_name : G, root : H, split : I, i : J, found : K, clean : L,
                    resp : M, copies : N],
         NEW u, NEW pc \in A, NEW root \in H, NEW split \in I, NEW i \in J, NEW found \in K,
         NEW clean \in L, NEW resp \in M, NEW copies \in N,
         \/ u = [w EXCEPT !.i = i]
         \/ u = [w EXCEPT !.pc = pc, !.root = root, !.split = split]
         \/ u = [w EXCEPT !.pc = pc, !.split = split]
         \/ u = [w EXCEPT !.pc = pc, !.root = root, !.split = split, !.clean = clean]
         \/ u = [w EXCEPT !.root = root, !.i = i, !.found = found]
         \/ u = [w EXCEPT !.pc = pc, !.resp = resp, !.copies = copies, !.root = root]
  PROVE  u \in [pc : A, call : B, path : C, asked : D, partition : E, request : F,
                file_name : G, root : H, split : I, i : J, found : K, clean : L,
                resp : M, copies : N]
  OBVIOUS

LEMMA IdleIs ==
  /\ Idle \in WalkRecord /\ Idle.pc = "idle" /\ Idle.call = "none" /\ Idle.path = <<>>
  /\ Idle.asked = <<>> /\ Idle.partition = "none" /\ Idle.request = <<>> /\ Idle.file_name = <<>>
  /\ Idle.root = <<>> /\ Idle.split = <<>> /\ Idle.i = 1 /\ Idle.clean /\ Idle.resp = <<>>
  /\ Idle.copies = <<>>
BY DEF Idle, WalkRecord, Numbers, PartitionKind

LEMMA NoPointers ==
  BlocksOf(<<>>) = <<>> /\ PtrsOf(<<>>) = <<>>
<1>1. Len(<<>>) = 0
  OBVIOUS
<1>2. BlocksOf(<<>>) = <<>>
  <2>1. 1..(2 * Len(<<>>)) = {}
    BY <1>1
  <2> QED BY <2>1 DEF BlocksOf
<1>3. PtrsOf(<<>>) = <<>>
  <2>1. 1..Len(<<>>) = {}
    BY <1>1
  <2> QED BY <2>1 DEF PtrsOf
<1> QED BY <1>2, <1>3

(* The owners before and after a step.                                      *)
LEMMA StepPointers ==
  ASSUME prv_data \in Seq(Seq(Numbers)), prv_data' \in Seq(Seq(Numbers))
  PROVE  LET P == Pointers
             Q == Pointers'
         IN  /\ DOMAIN P = 1..(8 + Len(prv_data)) /\ Len(prv_data) \in Nat
             /\ DOMAIN Q = 1..(8 + Len(prv_data')) /\ Len(prv_data') \in Nat
             /\ P[1] = PartitionBlocks /\ Q[1] = PartitionBlocks'
             /\ P[2] = walk.request /\ P[3] = walk.file_name /\ P[4] = BlocksOf(walk.root)
             /\ P[5] = PtrsOf(walk.split) /\ P[6] = walk.resp /\ P[7] = PtrsOf(walk.copies)
             /\ P[8] = PtrsOf(result.names) /\ Q[8] = PtrsOf(result'.names)
             /\ Q[2] = walk'.request /\ Q[3] = walk'.file_name /\ Q[4] = BlocksOf(walk'.root)
             /\ Q[5] = PtrsOf(walk'.split) /\ Q[6] = walk'.resp /\ Q[7] = PtrsOf(walk'.copies)
             /\ \A k \in 1..Len(prv_data) : P[8 + k] = prv_data[k]
             /\ \A k \in 1..Len(prv_data') : Q[8 + k] = prv_data'[k]
<1> DEFINE P == Pointers
           Q == Pointers'
           a == PartitionBlocks
           b == PartitionBlocks'
           y == PtrsOf(result.names)
           z == PtrsOf(result'.names)
<1>1. P = Groups(a, walk.request, walk.file_name, BlocksOf(walk.root), PtrsOf(walk.split),
                 walk.resp, PtrsOf(walk.copies), y, prv_data)
  BY DEF Pointers, Groups
<1>2. Q = Groups(b, walk'.request, walk'.file_name, BlocksOf(walk'.root), PtrsOf(walk'.split),
                 walk'.resp, PtrsOf(walk'.copies), z, prv_data')
  <2> HIDE DEF b
  <2> QED BY DEF Pointers, Groups, BlocksOf, PtrsOf, b
<1>3. Len(prv_data) \in Nat /\ Len(prv_data') \in Nat
  OBVIOUS
<1> HIDE DEF P, Q, a, b, y, z
<1>4. /\ DOMAIN P = 1..(8 + Len(prv_data)) /\ P[1] = a /\ P[8] = y
      /\ P[2] = walk.request /\ P[3] = walk.file_name /\ P[4] = BlocksOf(walk.root)
      /\ P[5] = PtrsOf(walk.split) /\ P[6] = walk.resp /\ P[7] = PtrsOf(walk.copies)
      /\ \A k \in 1..Len(prv_data) : P[8 + k] = prv_data[k]
  BY <1>1, GroupsAre
<1>5. /\ DOMAIN Q = 1..(8 + Len(prv_data')) /\ Q[1] = b /\ Q[8] = z
      /\ Q[2] = walk'.request /\ Q[3] = walk'.file_name /\ Q[4] = BlocksOf(walk'.root)
      /\ Q[5] = PtrsOf(walk'.split) /\ Q[6] = walk'.resp /\ Q[7] = PtrsOf(walk'.copies)
      /\ \A k \in 1..Len(prv_data') : Q[8 + k] = prv_data'[k]
  <2> DEFINE prv == prv_data'
             T == Seq(Numbers)
             w == walk'
  <2>1. prv \in Seq(T)
    OBVIOUS
  <2>2. Q = Groups(b, w.request, w.file_name, BlocksOf(w.root), PtrsOf(w.split),
                   w.resp, PtrsOf(w.copies), z, prv)
    BY <1>2
  <2> HIDE DEF prv, T, w
  <2>3. /\ DOMAIN Q = 1..(8 + Len(prv)) /\ Q[1] = b /\ Q[8] = z
        /\ Q[2] = w.request /\ Q[3] = w.file_name /\ Q[4] = BlocksOf(w.root)
        /\ Q[5] = PtrsOf(w.split) /\ Q[6] = w.resp /\ Q[7] = PtrsOf(w.copies)
        /\ \A k \in 1..Len(prv) : Q[8 + k] = prv[k]
    BY ONLY <2>1, <2>2, GroupsAre
  <2> QED BY <2>3 DEF prv, w
<1> QED BY <1>3, <1>4, <1>5 DEF P, Q, a, b, y, z

(* A step that leaves nodes and partitions alone.                           *)
LEMMA CallPointers ==
  ASSUME VfsTyped, UNCHANGED mounts
  PROVE  LET P == Pointers
             Q == Pointers'
         IN  /\ DOMAIN P = 1..(8 + Len(prv_data)) /\ DOMAIN Q = DOMAIN P /\ Len(prv_data) \in Nat
             /\ P[2] = walk.request /\ P[3] = walk.file_name /\ P[4] = BlocksOf(walk.root)
             /\ P[5] = PtrsOf(walk.split) /\ P[6] = walk.resp /\ P[7] = PtrsOf(walk.copies)
             /\ P[8] = PtrsOf(result.names) /\ Q[8] = PtrsOf(result'.names)
             /\ Q[2] = walk'.request /\ Q[3] = walk'.file_name /\ Q[4] = BlocksOf(walk'.root)
             /\ Q[5] = PtrsOf(walk'.split) /\ Q[6] = walk'.resp /\ Q[7] = PtrsOf(walk'.copies)
             /\ \A g \in DOMAIN P : g \notin 2..8 => Q[g] = P[g]
<1> DEFINE P == Pointers
           Q == Pointers'
<1>1. PartitionBlocks' = PartitionBlocks /\ prv_data' = prv_data
  BY DEF mounts, PartitionBlocks
<1>2. prv_data \in Seq(Seq(Numbers))
  BY DEF VfsTyped
<1>3. prv_data' \in Seq(Seq(Numbers))
  BY <1>1, <1>2
<1>4. /\ DOMAIN P = 1..(8 + Len(prv_data)) /\ Len(prv_data) \in Nat
      /\ DOMAIN Q = DOMAIN P /\ Q[1] = P[1]
      /\ \A k \in 1..Len(prv_data) : Q[8 + k] = P[8 + k]
  BY <1>1, <1>2, <1>3, StepPointers
<1>5. ASSUME NEW g \in DOMAIN P, g \notin 2..8 PROVE Q[g] = P[g]
  <2> HIDE DEF P, Q
  <2>1. g = 1 \/ (g - 8 \in 1..Len(prv_data) /\ g = 8 + (g - 8))
    BY <1>4, <1>5
  <2> QED BY <1>4, <2>1
<1> QED BY <1>2, <1>3, <1>4, <1>5, StepPointers

(* And the caller's names.                                                  *)
LEMMA WalkPointers ==
  ASSUME VfsTyped, UNCHANGED <<mounts, result>>
  PROVE  LET P == Pointers
             Q == Pointers'
         IN  /\ DOMAIN P = 1..(8 + Len(prv_data)) /\ DOMAIN Q = DOMAIN P
             /\ P[2] = walk.request /\ P[3] = walk.file_name /\ P[4] = BlocksOf(walk.root)
             /\ P[5] = PtrsOf(walk.split) /\ P[6] = walk.resp /\ P[7] = PtrsOf(walk.copies)
             /\ Q[2] = walk'.request /\ Q[3] = walk'.file_name /\ Q[4] = BlocksOf(walk'.root)
             /\ Q[5] = PtrsOf(walk'.split) /\ Q[6] = walk'.resp /\ Q[7] = PtrsOf(walk'.copies)
             /\ \A g \in DOMAIN P : g \notin 2..7 => Q[g] = P[g]
<1> DEFINE P == Pointers
           Q == Pointers'
<1>1. /\ DOMAIN P = 1..(8 + Len(prv_data)) /\ DOMAIN Q = DOMAIN P
      /\ P[2] = walk.request /\ P[3] = walk.file_name /\ P[4] = BlocksOf(walk.root)
      /\ P[5] = PtrsOf(walk.split) /\ P[6] = walk.resp /\ P[7] = PtrsOf(walk.copies)
      /\ P[8] = PtrsOf(result.names) /\ Q[8] = PtrsOf(result'.names)
      /\ Q[2] = walk'.request /\ Q[3] = walk'.file_name /\ Q[4] = BlocksOf(walk'.root)
      /\ Q[5] = PtrsOf(walk'.split) /\ Q[6] = walk'.resp /\ Q[7] = PtrsOf(walk'.copies)
      /\ \A g \in DOMAIN P : g \notin 2..8 => Q[g] = P[g]
  BY CallPointers
<1>2. result' = result
  OBVIOUS
<1> HIDE DEF P, Q
<1>3. \A g \in DOMAIN P : g \notin 2..7 => g \notin 2..8 \/ g = 8
  BY <1>1
<1>4. \A g \in DOMAIN P : g \notin 2..7 => Q[g] = P[g]
  BY <1>1, <1>2, <1>3
<1> QED BY <1>1, <1>4 DEF P, Q

(* A walk goes on only in a kernel that is up.                              *)
LEMMA WalkIsUp ==
  ASSUME VfsInv, WalkStep
  PROVE  stage = "up" /\ walk.pc \in {"open", "walk", "listed"} /\ ~result.held /\ Calling(walk, nodes)
<1>1. walk.pc \in {"open", "walk", "listed"}
  BY DEF WalkStep, OpenRoot, Descend, Skip, GiveUp, EndWalk, Respond, NoEntry, AnswerInfo
<1>2. Calling(walk, nodes) /\ ~result.held /\ stage \in {"up", "panic", "garbage"}
  BY <1>1 DEF VfsInv, VfsTyped, RequestInv, StageInv
<1>3. ~Stopped \/ stage = "up"
  <2>1. walk.call \in {"list", "info"}
    BY <1>2 DEF Calling
  <2>2. walk.pc = "walk" => walk.i \in Nat /\ Len(walk.split) \in Nat
    BY DEF VfsInv, VfsTyped, WalkRecord, Numbers
  <2>3. CASE OpenRoot \/ Descend \/ NoEntry \/ AnswerInfo
    BY <2>3 DEF OpenRoot, Descend, NoEntry, AnswerInfo
  <2>4. CASE Skip \/ GiveUp
    BY <2>4 DEF Skip, GiveUp, Stopped
  <2>5. CASE EndWalk
    BY <2>2, <2>5 DEF EndWalk, Stopped
  <2>6. CASE Respond
    BY <2>6 DEF Respond, Stopped
  <2> QED BY <2>3, <2>4, <2>5, <2>6 DEF WalkStep
<1> QED BY <1>1, <1>2, <1>3 DEF VfsInv

LEMMA PastType ==
  ASSUME VfsInv, Walk
  PROVE  /\ past' \in PastRecord(0 .. MaxCalls)
         /\ past'.info = past.info
         /\ past'.missed <=> past.missed \/ (walk.pc = "walk" /\ walk'.pc = "listed"
                                                             /\ walk.i <= Len(walk.split))
<1> DEFINE m == walk.pc = "walk" /\ walk'.pc = "listed" /\ walk.i <= Len(walk.split)
<1>1. past' = [past EXCEPT !.missed = @ \/ m]
  BY DEF Walk
<1>2. past \in PastRecord(0 .. MaxCalls)
  BY DEF VfsInv, VfsTyped
<1>3. m \in BOOLEAN
  BY Zenon
<1> HIDE DEF m
<1>4. PICK b \in BOOLEAN : b <=> past.missed \/ m
  BY <1>2, <1>3 DEF PastRecord
<1>5. past.missed \/ m = b
  BY <1>2, <1>3, <1>4 DEF PastRecord
<1> QED BY <1>1, <1>2, <1>3 DEF m, PastRecord

LEMMA WalkStops ==
  ASSUME VfsInv, Walk, UNCHANGED <<live, walk>>, stage' \in {"panic", "garbage"}, Stopped, StopsKnown'
  PROVE  VfsInv'
<1>1. stage = "up" /\ walk.pc \in {"open", "walk", "listed"} /\ ~result.held /\ Calling(walk, nodes)
  BY WalkIsUp DEF Walk
<1>2. walk' = walk /\ live' = live /\ nodes' = nodes /\ prv_data' = prv_data
      /\ RequestServer' = RequestServer /\ result' = result /\ computer' = computer
      /\ partitions' = partitions
  BY DEF Walk, mounts
<1>3. VfsTyped'
  BY <1>2, PastType DEF VfsInv, VfsTyped
<1>4. RequestInv(walk, nodes)' /\ ResultInv(result)' /\ InStep(nodes, prv_data, RequestServer)'
  BY <1>2 DEF VfsInv
<1>5. StageInv'
  BY <1>1, <1>2, PastType DEF VfsInv, StageInv
<1>6. Stopped'
  BY <1>2 DEF Stopped, Matches
<1>7. OwnInv' /\ LossInv'
  <2>1. Pointers' = Pointers
    BY <1>2 DEF Pointers, PartitionBlocks, BlocksOf, PtrsOf
  <2>2. ~past'.missed => ~past.missed
    BY PastType
  <2> QED BY <1>2, <2>1, <2>2, PastType DEF VfsInv, OwnInv, LossInv
<1> QED BY <1>3, <1>4, <1>5, <1>6, <1>7 DEF VfsInv

LEMMA WalkGoesOn ==
  ASSUME VfsInv, Walk, stage' = stage,
         walk' \in WalkRecord, live' \in SUBSET Numbers, IsFiniteSet(live'),
         walk'.call = "info" => walk.call = "info", RequestInv(walk', nodes'),
         Separate(Pointers') /\ Blocks(Pointers') \subseteq live',
         ~past'.missed /\ ~past.info => live' \subseteq Blocks(Pointers')
  PROVE  VfsInv'
<1>1. stage = "up" /\ walk.pc \in {"open", "walk", "listed"} /\ ~result.held /\ Calling(walk, nodes)
  BY WalkIsUp DEF Walk
<1>2. nodes' = nodes /\ prv_data' = prv_data /\ stage' = "up"
      /\ RequestServer' = RequestServer /\ result' = result /\ computer' = computer
      /\ partitions' = partitions
  BY <1>1 DEF Walk, mounts
<1>3. VfsTyped'
  BY <1>2, PastType DEF VfsInv, VfsTyped
<1>4. RequestInv(walk, nodes)' /\ ResultInv(result)' /\ InStep(nodes, prv_data, RequestServer)'
  BY <1>2 DEF VfsInv
<1>5. StageInv'
  <2>1. nodes # <<>>
    BY <1>1 DEF Calling
  <2> QED BY <1>1, <1>2, <2>1, PastType DEF VfsInv, StageInv
<1>6. OwnInv' /\ LossInv'
  BY PastType DEF OwnInv, LossInv
<1>7. StopsKnown'
  BY <1>2 DEF StopsKnown
<1> QED BY <1>2, <1>3, <1>4, <1>5, <1>6, <1>7 DEF VfsInv

(* What a walk is in the middle of.                                         *)
LEMMA AtWalk ==
  ASSUME VfsInv, walk.pc = "walk"
  PROVE  /\ walk \in WalkRecord /\ Calling(walk, nodes) /\ Walking(walk)
         /\ walk.resp = <<>> /\ walk.copies = <<>>
         /\ Readable(walk.partition, RootDirectoryInode)
         /\ Len(walk.path) \in Nat /\ walk.i \in 1..(Len(walk.path) + 1)
         /\ Len(walk.split) = Len(walk.path)
<1>1. walk \in WalkRecord /\ RequestInv(walk, nodes)
  BY DEF VfsInv, VfsTyped
<1>2. walk.path \in Seq(STRING)
  BY <1>1, WalkTypes
<1>3. Len(walk.path) \in Nat
  BY <1>2
<1> QED BY <1>1, <1>3 DEF RequestInv, Walking

(* A name that is not found leads nowhere.                                  *)
LEMMA NotFound ==
  ASSUME VfsInv, walk.pc = "walk", walk.i <= Len(walk.split), Matches = {}, walk.clean
  PROVE  /\ walk.i \in 1..Len(walk.path)
         /\ Resolved(SubSeq(walk.path, 1, walk.i)) = 0
         /\ Resolved(walk.path) = 0
<1>1. /\ walk \in WalkRecord /\ Walking(walk) /\ walk.i \in 1..Len(walk.path)
      /\ Len(walk.split) = Len(walk.path)
  BY AtWalk
<1>2. walk.path \in Seq(STRING) /\ walk.root \in Seq(Entry) /\ walk.split \in Seq(Part)
  BY <1>1, WalkTypes
<1> DEFINE id == Resolved(SubSeq(walk.path, 1, walk.i - 1))
           n == walk.path[walk.i]
<1>3. id \in Inodes /\ Resolved(SubSeq(walk.path, 1, walk.i)) = Child(id, n)
  <2>1. walk.i - 1 \in 0..Len(walk.path)
    BY <1>1
  <2> QED BY <1>1, <1>2, <2>1, ResolvedSteps
<1>4. walk.split[walk.i].string = n
  <2>1. Strings(walk.split)[walk.i] = walk.split[walk.i].string
    BY <1>1, <1>2, StringsIs
  <2> QED BY <1>1, <2>1 DEF Walking
<1>5. Lists(walk.root, id)
  BY <1>1 DEF Walking
<1>6. \A e \in 1..Len(walk.root) : walk.root[e].string # n
  BY <1>4 DEF Matches
<1>7. Child(id, n) = 0
  <2> HIDE DEF id, n
  <2> QED BY <1>2, <1>3, <1>5, <1>6, ListsChild
<1>8. Resolved(SubSeq(walk.path, 1, walk.i)) = 0
  BY <1>3, <1>7
<1>9. walk.i \in 0..Len(walk.path)
  BY <1>1
<1> QED BY <1>1, <1>2, <1>8, <1>9, NowhereStays

LEMMA SkipInv ==
  ASSUME VfsInv, Walk, Skip
  PROVE  VfsInv'
<1>1. /\ walk.pc = "walk" /\ walk.i <= Len(walk.split) /\ Matches = {} /\ walk.root = <<>>
      /\ walk' = [walk EXCEPT !.i = @ + 1] /\ live' = live /\ stage' = stage
  BY DEF Skip, StillFound
<1>2. /\ walk \in WalkRecord /\ Calling(walk, nodes) /\ Walking(walk) /\ walk.i \in 1..Len(walk.path)
      /\ Readable(walk.partition, RootDirectoryInode) /\ walk.resp = <<>> /\ walk.copies = <<>>
      /\ Len(walk.split) = Len(walk.path) /\ Len(walk.path) \in Nat
  BY <1>1, AtWalk
<1>3. walk' \in WalkRecord
  <2>1. walk.i + 1 \in Numbers
    BY <1>2 DEF Numbers
  <2>2. walk.pc \in {"idle", "open", "walk", "listed", "respond"} /\ walk.root \in Seq(Entry)
        /\ walk.split \in Seq(Part) /\ walk.found \in BOOLEAN /\ walk.clean \in BOOLEAN
        /\ walk.resp \in Seq(Numbers) /\ walk.copies \in Seq(Part)
    BY <1>2, WalkTypes
  <2> QED BY <1>1, <1>2, <2>1, <2>2, FieldsChanged DEF WalkRecord
<1>4. /\ walk'.pc = "walk" /\ walk'.call = walk.call /\ walk'.path = walk.path
      /\ walk'.asked = walk.asked /\ walk'.partition = walk.partition /\ walk'.request = walk.request
      /\ walk'.file_name = walk.file_name /\ walk'.root = walk.root /\ walk'.split = walk.split
      /\ walk'.i = walk.i + 1 /\ walk'.clean = walk.clean /\ walk'.resp = walk.resp
      /\ walk'.copies = walk.copies
  BY <1>1, <1>2 DEF WalkRecord
<1>5. RequestInv(walk', nodes')
  <2>1. nodes' = nodes
    BY DEF Walk, mounts
  <2>2. Calling(walk', nodes)
    BY <1>2, <1>4 DEF Calling
  <2>3. Walking(walk')
    <3>1. walk'.i \in 1..(Len(walk'.split) + 1) /\ walk'.i - 1 = walk.i
      BY <1>2, <1>4
    <3>2. walk.clean => Lists(walk.root, 0) /\ Resolved(SubSeq(walk.path, 1, walk.i)) = 0
      <4>1. Len(<<>>) = 0 /\ 1..0 = {}
        OBVIOUS
      <4>2. Strings(<<>>) = <<>> /\ Names(0) = <<>>
        BY <4>1 DEF Strings, Names
      <4> QED BY <1>1, <4>2, NotFound DEF Lists
    <3> QED BY <1>2, <1>4, <3>1, <3>2 DEF Walking
  <2> QED BY <1>2, <1>4, <2>1, <2>2, <2>3 DEF RequestInv
<1>6. Pointers' = Pointers
  <2>1. UNCHANGED <<mounts, result>>
    BY DEF Walk
  <2> QED BY <1>4, <2>1 DEF Pointers, PartitionBlocks, BlocksOf, PtrsOf, mounts
<1>7. live \in SUBSET Numbers /\ IsFiniteSet(live)
  BY DEF VfsInv, VfsTyped
<1>8. past'.missed <=> past.missed
  BY <1>4, PastType
<1> QED BY <1>1, <1>3, <1>4, <1>5, <1>6, <1>7, <1>8, WalkGoesOn DEF VfsInv, OwnInv, LossInv

LEMMA GiveUpInv ==
  ASSUME VfsInv, Walk, GiveUp
  PROVE  VfsInv'
<1>1. /\ walk.pc = "walk" /\ walk.i <= Len(walk.split) /\ Matches = {}
      /\ walk' = [walk EXCEPT !.pc = "listed", !.root = <<>>, !.split = <<>>]
      /\ live' = live /\ stage' = stage
  BY DEF GiveUp
<1>2. /\ walk \in WalkRecord /\ Calling(walk, nodes) /\ Walking(walk)
      /\ Readable(walk.partition, RootDirectoryInode) /\ walk.resp = <<>> /\ walk.copies = <<>>
  BY <1>1, AtWalk
<1>3. walk' \in WalkRecord
  <2>1. "listed" \in {"idle", "open", "walk", "listed", "respond"} /\ <<>> \in Seq(Entry)
        /\ <<>> \in Seq(Part) /\ walk.i \in Numbers /\ walk.found \in BOOLEAN
        /\ walk.clean \in BOOLEAN /\ walk.resp \in Seq(Numbers) /\ walk.copies \in Seq(Part)
    BY <1>2, WalkTypes
  <2> QED BY <1>1, <1>2, <2>1, FieldsChanged DEF WalkRecord
<1>4. /\ walk'.pc = "listed" /\ walk'.call = walk.call /\ walk'.path = walk.path
      /\ walk'.asked = walk.asked /\ walk'.partition = walk.partition /\ walk'.request = walk.request
      /\ walk'.file_name = walk.file_name /\ walk'.root = <<>> /\ walk'.split = <<>>
      /\ walk'.clean = walk.clean /\ walk'.resp = walk.resp /\ walk'.copies = walk.copies
  BY <1>1, <1>2 DEF WalkRecord
<1>5. RequestInv(walk', nodes')
  <2>1. nodes' = nodes
    BY DEF Walk, mounts
  <2>2. Calling(walk', nodes)
    BY <1>2, <1>4 DEF Calling
  <2>3. Listing(walk')
    <3>1. Lists(<<>>, 0)
      <4>1. Len(<<>>) = 0 /\ 1..0 = {}
        OBVIOUS
      <4>2. Strings(<<>>) = <<>> /\ Names(0) = <<>>
        BY <4>1 DEF Strings, Names
      <4> QED BY <4>2 DEF Lists
    <3> QED BY <1>1, <1>4, <3>1, NotFound DEF Listing
  <2> QED BY <1>2, <1>4, <2>1, <2>2, <2>3 DEF RequestInv
<1>6. Separate(Pointers') /\ Blocks(Pointers') \subseteq live'
  <2> DEFINE P == Pointers
             Q == Pointers'
  <2>1. VfsTyped /\ UNCHANGED <<mounts, result>>
    BY DEF VfsInv, Walk
  <2>2. /\ DOMAIN Q = DOMAIN P /\ DOMAIN P = 1..(8 + Len(prv_data))
        /\ P[2] = Q[2] /\ P[3] = Q[3] /\ P[6] = Q[6] /\ P[7] = Q[7]
        /\ Q[4] = <<>> /\ Q[5] = <<>> /\ \A g \in DOMAIN P : g \notin 2..7 => Q[g] = P[g]
    BY <1>4, <2>1, WalkPointers, NoPointers
  <2>3. Separate(P) /\ Blocks(P) \subseteq live
    BY DEF VfsInv, OwnInv
  <2> HIDE DEF P, Q
  <2>4. ASSUME NEW g \in DOMAIN Q
        PROVE  (\A k \in DOMAIN Q[g] : FALSE) \/ (g \in DOMAIN P /\ Q[g] = P[g])
    <3>1. g \in 2..7 => g = 2 \/ g = 3 \/ g = 4 \/ g = 5 \/ g = 6 \/ g = 7
      OBVIOUS
    <3>2. DOMAIN <<>> = {}
      OBVIOUS
    <3> QED BY <2>2, <3>1, <3>2
  <2>5. Separate(Q) /\ Blocks(Q) \subseteq live'
    BY <1>1, <2>3, <2>4, OnlyDropped
  <2> QED BY <2>5 DEF Q
<1>7. live \in SUBSET Numbers /\ IsFiniteSet(live)
  BY DEF VfsInv, VfsTyped
<1>8. past'.missed
  BY <1>1, <1>4, PastType
<1> QED BY <1>1, <1>3, <1>4, <1>5, <1>6, <1>7, <1>8, WalkGoesOn

LEMMA EndWalkInv ==
  ASSUME VfsInv, Walk, EndWalk
  PROVE  VfsInv'
<1>1. /\ walk.pc = "walk" /\ walk.i > Len(walk.split) /\ stage' = stage
      /\ walk' = [walk EXCEPT !.pc = "listed", !.split = <<>>]
      /\ live' = live \ Range(PtrsOf(walk.split))
  BY DEF EndWalk, SplitNames, Without
<1>2. /\ walk \in WalkRecord /\ Calling(walk, nodes) /\ Walking(walk)
      /\ Readable(walk.partition, RootDirectoryInode) /\ walk.resp = <<>> /\ walk.copies = <<>>
      /\ Len(walk.split) = Len(walk.path) /\ Len(walk.path) \in Nat
      /\ walk.i \in 1..(Len(walk.path) + 1)
  BY <1>1, AtWalk
<1>3. walk' \in WalkRecord
  <2>1. "listed" \in {"idle", "open", "walk", "listed", "respond"} /\ walk.root \in Seq(Entry)
        /\ <<>> \in Seq(Part) /\ walk.i \in Numbers /\ walk.found \in BOOLEAN
        /\ walk.clean \in BOOLEAN /\ walk.resp \in Seq(Numbers) /\ walk.copies \in Seq(Part)
    BY <1>2, WalkTypes
  <2> QED BY <1>1, <1>2, <2>1, FieldsChanged DEF WalkRecord
<1>4. /\ walk'.pc = "listed" /\ walk'.call = walk.call /\ walk'.path = walk.path
      /\ walk'.asked = walk.asked /\ walk'.partition = walk.partition /\ walk'.request = walk.request
      /\ walk'.file_name = walk.file_name /\ walk'.root = walk.root /\ walk'.split = <<>>
      /\ walk'.clean = walk.clean /\ walk'.resp = walk.resp /\ walk'.copies = walk.copies
  BY <1>1, <1>2 DEF WalkRecord
<1>5. RequestInv(walk', nodes')
  <2>1. nodes' = nodes
    BY DEF Walk, mounts
  <2>2. Calling(walk', nodes)
    BY <1>2, <1>4 DEF Calling
  <2>3. Listing(walk')
    <3>1. walk.i - 1 = Len(walk.path)
      BY <1>1, <1>2
    <3>2. SubSeq(walk.path, 1, Len(walk.path)) = walk.path
      BY <1>2, WalkTypes, ResolvedSteps
    <3> QED BY <1>2, <1>4, <3>1, <3>2 DEF Walking, Listing
  <2> QED BY <1>2, <1>4, <2>1, <2>2, <2>3 DEF RequestInv
<1> DEFINE P == Pointers
           Q == Pointers'
<1>6. /\ DOMAIN Q = DOMAIN P /\ DOMAIN P = 1..(8 + Len(prv_data))
      /\ P[5] = PtrsOf(walk.split) /\ Q[5] = <<>> /\ \A g \in DOMAIN P : g # 5 => Q[g] = P[g]
      /\ 5 \in DOMAIN P
  <2>1. VfsTyped /\ UNCHANGED <<mounts, result>>
    BY DEF VfsInv, Walk
  <2>2. /\ DOMAIN Q = DOMAIN P /\ DOMAIN P = 1..(8 + Len(prv_data))
        /\ P[2] = Q[2] /\ P[3] = Q[3] /\ P[4] = Q[4] /\ P[6] = Q[6] /\ P[7] = Q[7]
        /\ P[5] = PtrsOf(walk.split) /\ Q[5] = <<>> /\ \A g \in DOMAIN P : g \notin 2..7 => Q[g] = P[g]
    BY <1>4, <2>1, WalkPointers, NoPointers
  <2>3. \A g \in 2..7 : g = 2 \/ g = 3 \/ g = 4 \/ g = 5 \/ g = 6 \/ g = 7
    OBVIOUS
  <2>4. Len(prv_data) \in Nat
    BY <2>1 DEF VfsTyped
  <2>5. 5 \in 1..(8 + Len(prv_data))
    BY <2>4
  <2> HIDE DEF P, Q
  <2> QED BY <2>2, <2>3, <2>5
<1>7. Separate(Q) /\ Blocks(Q) \subseteq live'
  <2>1. Separate(P) /\ Blocks(P) \subseteq live
    BY DEF VfsInv, OwnInv
  <2> HIDE DEF P, Q
  <2>2. \A b \in live \ live' : b \in Range(P[5]) /\ P[5] # <<>>
    BY <1>1, <1>6 DEF Range
  <2>3. \A b \in live \ live' : \E g \in DOMAIN P : b \in Range(P[g]) /\ Gone(g, P, Q)
    BY <1>6, <2>2 DEF Gone
  <2>4. \A g \in DOMAIN Q : (\A k \in DOMAIN Q[g] : FALSE) \/ (g \in DOMAIN P /\ Q[g] = P[g])
    <3>1. DOMAIN <<>> = {}
      OBVIOUS
    <3> QED BY <1>6, <3>1
  <2> QED BY <2>1, <2>3, <2>4, OnlyDropped
<1>8. ~past'.missed /\ ~past.info => live' \subseteq Blocks(Q)
  <2>1. ~past'.missed /\ ~past.info => live \subseteq Blocks(P)
    BY PastType DEF VfsInv, LossInv
  <2> HIDE DEF P, Q
  <2>2. \A g \in DOMAIN P : Gone(g, P, Q) => \A b \in Range(P[g]) : b \notin live'
    BY <1>1, <1>6 DEF Gone
  <2>3. live' \ live = {}
    BY <1>1
  <2> QED BY <2>1, <2>2, <2>3, NoneLost
<1>9. live' \in SUBSET Numbers /\ IsFiniteSet(live')
  <2>1. live \in SUBSET Numbers /\ IsFiniteSet(live)
    BY DEF VfsInv, VfsTyped
  <2> QED BY <1>1, <2>1, FS_Difference
<1> QED BY <1>1, <1>3, <1>4, <1>5, <1>7, <1>8, <1>9, WalkGoesOn

(* What a readable directory is.                                            *)
LEMMA ReadableIs ==
  ASSUME NEW id \in DOMAIN Tree, NEW partition
  PROVE  /\ GroupOf(id) \in Nat /\ GroupsPerBlock \in Nat
         /\ Readable(partition, id) <=>
              partition = "ext2" /\ GroupOf(id) < GroupsPerBlock /\ Tree[id].kind \in Legible
<1>1. id \in Numbers /\ InodeRead(id) = id
  BY EntriesType, InodeReadIs
<1>2. id - 1 \in Nat /\ InodesPerGroup \in Numbers /\ GroupsPerBlock \in Nat
  BY <1>1, LayoutAssumption DEF Numbers
<1>3. GroupOf(id) \in Nat
  BY <1>2, DivMod DEF GroupOf
<1> QED BY <1>1, <1>2, <1>3 DEF Readable

LEMMA RootType == RootDirectoryInode \in DOMAIN Tree /\ RootDirectoryInode # 0
BY TreeAssumption DEF RootDirectoryInode

LEMMA StringsType ==
  ASSUME NEW path \in Seq(STRING), Range(path) \subseteq DOMAIN Longer, NEW strings \in StringsOf(path)
  PROVE  /\ strings \in Seq(Text) /\ Len(strings) = Len(path)
         /\ path = <<>> => strings = path
<1> DEFINE U == UNION {{n, "?"} \cup Longer[n] : n \in Range(path)}
<1>1. strings \in [1..Len(path) -> U] /\ Len(path) \in Nat
  BY DEF StringsOf
<1>2. Range(path) \subseteq STRING
  BY DEF Range
<1>3. U \subseteq Text
  <2>1. \A n \in Range(path) : Longer[n] \subseteq STRING /\ n \in STRING
    BY <1>2, PathsAssumption
  <2> QED BY <2>1 DEF Text
<1>4. strings \in [1..Len(path) -> Text]
  <2> HIDE DEF U
  <2> QED BY <1>1, <1>3
<1>5. strings \in Seq(Text) /\ Len(strings) = Len(path)
  BY <1>1, <1>4
<1>6. path = <<>> => strings = path
  BY <1>5
<1> QED BY <1>5, <1>6

LEMMA CallPath ==
  ASSUME Calling(walk, nodes), walk \in WalkRecord
  PROVE  /\ walk.path \in Seq(STRING) /\ Range(walk.path) \subseteq DOMAIN Longer
         /\ walk.asked \in Seq(STRING) /\ Len(walk.asked) \in Nat
         /\ walk.call = "info" => Len(walk.path) = Len(walk.asked) - 1 /\ Len(walk.asked) >= 1
<1>1. walk.path \in Seq(STRING) /\ walk.asked \in Seq(STRING) /\ Len(walk.asked) \in Nat
  BY WalkTypes
<1>2. Range(walk.asked) \subseteq DOMAIN Longer
  BY PathsAssumption DEF Calling
<1>3. CASE walk.call = "list"
  BY <1>1, <1>2, <1>3 DEF Calling
<1>4. CASE walk.call = "info"
  <2>1. walk.path = SubSeq(walk.asked, 1, Len(walk.asked) - 1) /\ walk.asked # <<>>
    BY <1>4 DEF Calling, Front
  <2>2. Len(walk.asked) >= 1
    BY <1>1, <2>1
  <2>3. Len(walk.path) = Len(walk.asked) - 1
        /\ \A k \in 1..Len(walk.path) : walk.path[k] = walk.asked[k] /\ k \in 1..Len(walk.asked)
    BY <1>1, <2>1, <2>2
  <2>4. DOMAIN walk.path = 1..Len(walk.path) /\ DOMAIN walk.asked = 1..Len(walk.asked)
    BY <1>1
  <2>5. Range(walk.path) \subseteq Range(walk.asked)
    BY <2>3, <2>4 DEF Range
  <2> QED BY <1>1, <1>2, <2>2, <2>3, <2>5
<1> QED BY <1>3, <1>4 DEF Calling

LEMMA OpenRootInv ==
  ASSUME VfsInv, Walk, OpenRoot
  PROVE  VfsInv'
<1>1. walk.pc = "open" /\ stage = "up" /\ walk \in WalkRecord /\ RequestInv(walk, nodes)
  BY DEF OpenRoot, VfsInv, VfsTyped
<1>2. /\ Calling(walk, nodes) /\ Opening(walk) /\ walk.resp = <<>> /\ walk.copies = <<>>
  BY <1>1 DEF RequestInv
<1>3. live \in SUBSET Numbers /\ IsFiniteSet(live)
  BY DEF VfsInv, VfsTyped
<1>4. RootDirectoryInode \in DOMAIN Tree /\ RootDirectoryInode # 0
  BY RootType
<1>5. CASE ~Readable(walk.partition, RootDirectoryInode)
  <2>1. stage' = "garbage" /\ UNCHANGED <<live, walk>>
    BY <1>5 DEF OpenRoot
  <2>2. Stopped
    BY <1>1, WalkIsUp DEF Stopped, Walk
  <2>3. StopsKnown'
    <3>1. walk.partition # "ext2" \/ GroupOf(RootDirectoryInode) >= GroupsPerBlock
          \/ Tree[RootDirectoryInode].kind \notin Legible
      BY <1>4, <1>5, ReadableIs
    <3>2. walk.partition = nodes[1].partition /\ nodes' = nodes
      BY <1>2 DEF Calling, Walk, mounts
    <3>3. 0 \in 0..Len(walk.asked) /\ Resolved(SubSeq(walk.asked, 1, 0)) = RootDirectoryInode
      BY <1>1, <1>2, CallPath, ResolvedSteps
    <3>4. walk' = walk /\ stage' = "garbage"
      BY <2>1
    <3> QED BY <1>4, <3>1, <3>2, <3>3, <3>4 DEF StopsKnown
  <2> QED BY <2>1, <2>2, <2>3, WalkStops
<1>6. CASE Readable(walk.partition, RootDirectoryInode)
  <2>1. PICK strings \in StringsOf(walk.path) :
          LET root == Parsed(RootDirectoryInode, live)
              split == SplitOf(strings, Adding(live, BlocksOf(root)))
          IN  /\ live' = Adding(Adding(live, BlocksOf(root)), PtrsOf(split))
              /\ walk' = [walk EXCEPT !.pc = "walk", !.root = root, !.split = split,
                                      !.clean = (strings = walk.path)]
              /\ stage' = stage
    BY <1>6 DEF OpenRoot
  <2> DEFINE root == Parsed(RootDirectoryInode, live)
             used == Adding(live, BlocksOf(root))
             split == SplitOf(strings, used)
  <2>2. strings \in Seq(Text) /\ Len(strings) = Len(walk.path)
        /\ (walk.path = <<>> => strings = walk.path)
    BY <1>1, <1>2, CallPath, StringsType
  <2>3. /\ root \in Seq(Entry) /\ Lists(root, RootDirectoryInode)
        /\ \E n \in Nat : BlocksOf(root) = Fresh(live, n)
    BY <1>3, <1>4, ParsedIs
  <2>4. PICK n \in Nat : BlocksOf(root) = Fresh(live, n)
    BY <2>3
  <2>5. /\ BlocksOf(root) \in Seq(Numbers) /\ DOMAIN BlocksOf(root) = 1..n
        /\ \A k \in 1..n : BlocksOf(root)[k] \in Numbers \ live
        /\ \A k, l \in 1..n : BlocksOf(root)[k] = BlocksOf(root)[l] => k = l
    <3> HIDE DEF root
    <3> QED BY <1>3, <2>4, FreshBlocks
  <2>6. used \in SUBSET Numbers /\ IsFiniteSet(used)
    <3> HIDE DEF root
    <3> QED BY <1>3, <2>5, BlocksFinite
  <2>7. /\ split \in Seq(Part) /\ Len(split) = Len(strings) /\ Strings(split) = strings
        /\ PtrsOf(split) = Fresh(used, Len(strings))
    <3> HIDE DEF used
    <3> QED BY <2>2, <2>6, SplitIs
  <2>8. Len(strings) \in Nat
    BY <2>2
  <2> DEFINE m == Len(strings)
  <2>9. /\ PtrsOf(split) \in Seq(Numbers) /\ DOMAIN PtrsOf(split) = 1..m
        /\ \A k \in 1..m : PtrsOf(split)[k] \in Numbers \ used
        /\ \A k, l \in 1..m : PtrsOf(split)[k] = PtrsOf(split)[l] => k = l
    <3>1. m \in Nat /\ PtrsOf(split) = Fresh(used, m)
      BY <2>7, <2>8
    <3> HIDE DEF split, used, m
    <3> QED BY <2>6, <3>1, FreshBlocks
  <2>10. /\ live' = Adding(used, PtrsOf(split)) /\ stage' = stage
         /\ walk' = [walk EXCEPT !.pc = "walk", !.root = root, !.split = split,
                                 !.clean = (strings = walk.path)]
    BY <2>1
  <2> HIDE DEF root, split
  <2>11. walk' \in WalkRecord
    <3>1. "walk" \in {"idle", "open", "walk", "listed", "respond"} /\ walk.i \in Numbers
          /\ walk.found \in BOOLEAN /\ (strings = walk.path) \in BOOLEAN
          /\ walk.resp \in Seq(Numbers) /\ walk.copies \in Seq(Part)
      BY <1>1, WalkTypes
    <3> QED BY <1>1, <2>3, <2>7, <2>10, <3>1, FieldsChanged DEF WalkRecord
  <2>12. /\ walk'.pc = "walk" /\ walk'.call = walk.call /\ walk'.path = walk.path
         /\ walk'.asked = walk.asked /\ walk'.partition = walk.partition
         /\ walk'.request = walk.request /\ walk'.file_name = walk.file_name
         /\ walk'.root = root /\ walk'.split = split /\ walk'.i = walk.i
         /\ walk'.clean = (strings = walk.path) /\ walk'.resp = walk.resp
         /\ walk'.copies = walk.copies
    BY <1>1, <2>10 DEF WalkRecord
  <2>13. RequestInv(walk', nodes')
    <3>1. nodes' = nodes
      BY DEF Walk, mounts
    <3>2. Calling(walk', nodes)
      BY <1>2, <2>2, <2>12 DEF Calling
    <3>3. Walking(walk')
      <4>1. walk'.i = 1 /\ 1 \in 1..(Len(split) + 1) /\ 1 - 1 = 0
        BY <1>2, <2>7, <2>8, <2>12 DEF Opening
      <4>2. Resolved(SubSeq(walk.path, 1, 0)) = RootDirectoryInode
        BY <1>1, <1>2, CallPath, ResolvedSteps
      <4> QED BY <2>2, <2>3, <2>7, <2>12, <4>1, <4>2 DEF Walking
    <3> QED BY <1>2, <1>6, <2>12, <3>1, <3>2, <3>3 DEF RequestInv
  <2> DEFINE P == Pointers
             Q == Pointers'
             F == {4, 5}
  <2>14. /\ DOMAIN Q = DOMAIN P /\ DOMAIN P = 1..(8 + Len(prv_data)) /\ Len(prv_data) \in Nat
         /\ P[4] = <<>> /\ P[5] = <<>> /\ Q[4] = BlocksOf(root) /\ Q[5] = PtrsOf(split)
         /\ \A g \in DOMAIN P : g \notin F => Q[g] = P[g]
    <3>1. VfsTyped /\ UNCHANGED <<mounts, result>>
      BY DEF VfsInv, Walk
    <3>2. /\ DOMAIN Q = DOMAIN P /\ DOMAIN P = 1..(8 + Len(prv_data))
          /\ P[2] = Q[2] /\ P[3] = Q[3] /\ P[6] = Q[6] /\ P[7] = Q[7]
          /\ P[4] = <<>> /\ P[5] = <<>> /\ Q[4] = BlocksOf(root) /\ Q[5] = PtrsOf(split)
          /\ \A g \in DOMAIN P : g \notin 2..7 => Q[g] = P[g]
      BY <1>2, <2>12, <3>1, WalkPointers, NoPointers DEF Opening
    <3>3. \A g \in 2..7 : g = 2 \/ g = 3 \/ g = 4 \/ g = 5 \/ g = 6 \/ g = 7
      OBVIOUS
    <3>4. Len(prv_data) \in Nat
      BY <3>1 DEF VfsTyped
    <3> HIDE DEF P, Q
    <3> QED BY <3>2, <3>3, <3>4
  <2>15. Separate(P) /\ Blocks(P) \subseteq live /\ (~past.missed /\ ~past.info => live \subseteq Blocks(P))
    BY DEF VfsInv, OwnInv, LossInv
  <2>16. 4 \in DOMAIN Q /\ 5 \in DOMAIN Q
    <3>1. 4 \in 1..(8 + Len(prv_data)) /\ 5 \in 1..(8 + Len(prv_data))
      BY <2>14
    <3> HIDE DEF P, Q
    <3> QED BY <2>14, <3>1
  <2>17. live' = live \cup Range(Q[4]) \cup Range(Q[5]) /\ used = live \cup Range(Q[4])
    BY <2>10, <2>14 DEF Adding
  <2> HIDE DEF P, Q, used, m
  <2>18. Separate(Q) /\ Blocks(Q) \subseteq live'
    <3>1. \A g \in DOMAIN Q \ F : (\A k \in DOMAIN Q[g] : FALSE) \/ (g \in DOMAIN P /\ Q[g] = P[g])
      BY <2>14
    <3>2. \A g \in DOMAIN Q \cap F : \A k \in DOMAIN Q[g] : Q[g][k] \in live' \ live
      BY <2>5, <2>9, <2>14, <2>17 DEF Range
    <3>3. ASSUME NEW k \in DOMAIN Q[4], NEW l \in DOMAIN Q[5] PROVE Q[4][k] # Q[5][l]
      BY <2>9, <2>14, <2>17 DEF Range
    <3>4. \A g, h \in DOMAIN Q \cap F : \A k \in DOMAIN Q[g], l \in DOMAIN Q[h] :
            Q[g][k] = Q[h][l] => g = h /\ k = l
      <4> SUFFICES ASSUME NEW g \in {4, 5}, NEW h \in {4, 5}, NEW k \in DOMAIN Q[g],
                          NEW l \in DOMAIN Q[h], Q[g][k] = Q[h][l]
                   PROVE  g = h /\ k = l
        OBVIOUS
      <4>1. CASE g = 4 /\ h = 4
        BY <2>5, <2>14, <4>1
      <4>2. CASE g = 5 /\ h = 5
        BY <2>9, <2>14, <4>2
      <4>3. CASE g # h
        BY <3>3, <4>3
      <4> QED BY <4>1, <4>2, <4>3
    <3>5. live \ live' = {}
      BY <2>17
    <3> HIDE DEF F
    <3> QED BY <2>15, <3>1, <3>2, <3>4, <3>5, Regrouped
  <2>19. ~past'.missed /\ ~past.info => live' \subseteq Blocks(Q)
    <3>1. ~past'.missed => ~past.missed
      BY PastType
    <3>2. \A b \in live' \ live : \E g \in DOMAIN Q : b \in Range(Q[g])
      BY <2>16, <2>17
    <3>3. \A g \in DOMAIN P : Gone(g, P, Q) => \A b \in Range(P[g]) : b \notin live'
      <4>1. Range(<<>>) = {}
        BY DEF Range
      <4> QED BY <2>14, <4>1 DEF Gone
    <3> QED BY <2>15, <3>1, <3>2, <3>3, NoneLost
  <2>20. live' \in SUBSET Numbers /\ IsFiniteSet(live')
    BY <2>6, <2>9, <2>10, BlocksFinite
  <2> QED BY <2>10, <2>11, <2>12, <2>13, <2>18, <2>19, <2>20, WalkGoesOn DEF Q
<1> QED BY <1>5, <1>6

LEMMA DescendInv ==
  ASSUME VfsInv, Walk, Descend
  PROVE  VfsInv'
<1> DEFINE e == CHOOSE k \in Matches : \A l \in Matches : k <= l
           id == walk.root[e].inode
           new == Parsed(id, live)
<1>1. /\ walk.pc = "walk" /\ stage = "up" /\ walk.i <= Len(walk.split) /\ Matches # {}
      /\ IF ~Readable(walk.partition, id)
         THEN stage' = "garbage" /\ UNCHANGED <<live, walk>>
         ELSE /\ live' = Without(Adding(live, BlocksOf(new)), BlocksOf(walk.root))
              /\ walk' = [walk EXCEPT !.root = new, !.i = @ + 1, !.found = TRUE]
              /\ UNCHANGED stage
  BY DEF Descend, NewDirectory, OldDirectory
<1>2. /\ walk \in WalkRecord /\ Calling(walk, nodes) /\ Walking(walk)
      /\ walk.resp = <<>> /\ walk.copies = <<>>
      /\ Readable(walk.partition, RootDirectoryInode)
      /\ Len(walk.path) \in Nat /\ walk.i \in 1..Len(walk.path)
      /\ Len(walk.split) = Len(walk.path)
  BY <1>1, AtWalk
<1>3. /\ walk.path \in Seq(STRING) /\ walk.root \in Seq(Entry) /\ walk.split \in Seq(Part)
      /\ walk.asked \in Seq(STRING)
  BY <1>2, WalkTypes
<1>4. e \in Matches
  <2>1. Len(walk.root) \in Nat /\ Matches \in SUBSET (1..Len(walk.root))
    BY <1>3 DEF Matches
  <2>2. \E k \in Matches : \A l \in Matches : k <= l
    BY <1>1, <2>1, LeastExists
  <2> QED BY <2>2
<1>5. e \in 1..Len(walk.root) /\ walk.root[e].string = walk.split[walk.i].string
  BY <1>4 DEF Matches
<1> HIDE DEF e
<1>6. id \in DOMAIN Tree
  <2>1. walk.root[e] \in Entry
    BY <1>3, <1>5, ElementOfSeq
  <2> QED BY <2>1 DEF Entry
<1>7. walk.clean => id = Resolved(SubSeq(walk.path, 1, walk.i))
  <2> SUFFICES ASSUME walk.clean PROVE id = Resolved(SubSeq(walk.path, 1, walk.i))
    OBVIOUS
  <2> DEFINE d == Resolved(SubSeq(walk.path, 1, walk.i - 1))
             n == walk.path[walk.i]
  <2>1. walk.i - 1 \in 0..Len(walk.path)
    BY <1>2
  <2>2. d \in Inodes /\ Resolved(SubSeq(walk.path, 1, walk.i)) = Child(d, n)
    BY <1>2, <1>3, <2>1, ResolvedSteps
  <2>3. walk.split[walk.i].string = n
    <3>1. Strings(walk.split)[walk.i] = walk.split[walk.i].string
      BY <1>2, <1>3, StringsIs
    <3> QED BY <1>2, <3>1 DEF Walking
  <2>4. Lists(walk.root, d)
    BY <1>2 DEF Walking
  <2> HIDE DEF d, n
  <2> QED BY <1>3, <1>5, <2>2, <2>3, <2>4, ListsChild
<1>8. live \in SUBSET Numbers /\ IsFiniteSet(live)
  BY DEF VfsInv, VfsTyped
<1> HIDE DEF id
<1>9. CASE ~Readable(walk.partition, id)
  <2>1. stage' = "garbage" /\ UNCHANGED <<live, walk>>
    BY <1>1, <1>9
  <2>2. Stopped
    BY <1>1, WalkIsUp DEF Stopped, Walk
  <2>3. StopsKnown'
    <3>1. walk' = walk /\ stage' = "garbage"
      BY <2>1
    <3>2. GroupOf(id) >= GroupsPerBlock \/ Tree[id].kind \notin Legible
      <4>1. walk.partition = "ext2"
        BY <1>2, RootType, ReadableIs
      <4> QED BY <1>6, <1>9, <4>1, ReadableIs
    <3>3. CASE ~walk.clean \/ (walk.call = "info" /\ Len(walk.asked) > 1)
      BY <3>1, <3>3 DEF StopsKnown
    <3>4. CASE walk.clean /\ ~(walk.call = "info" /\ Len(walk.asked) > 1)
      <4>1. walk.call = "list" /\ walk.asked = walk.path
        <5>1. walk.call = "info" => Len(walk.asked) > 1
          BY <1>2, CallPath
        <5> QED BY <1>2, <3>4, <5>1 DEF Calling
      <4>2. walk.i \in 0..Len(walk.asked) /\ id = Resolved(SubSeq(walk.asked, 1, walk.i)) /\ id # 0
        BY <1>2, <1>6, <1>7, <3>4, <4>1, EntriesType DEF Numbers
      <4> QED BY <3>1, <3>2, <4>2 DEF StopsKnown
    <3> QED BY <3>3, <3>4
  <2> QED BY <2>1, <2>2, <2>3, WalkStops
<1>10. CASE Readable(walk.partition, id)
  <2>1. /\ live' = Without(Adding(live, BlocksOf(new)), BlocksOf(walk.root)) /\ stage' = stage
        /\ walk' = [walk EXCEPT !.root = new, !.i = walk.i + 1, !.found = TRUE]
    BY <1>1, <1>10
  <2>2. /\ new \in Seq(Entry) /\ Lists(new, id)
        /\ \E n \in Nat : BlocksOf(new) = Fresh(live, n)
    BY <1>6, <1>8, ParsedIs
  <2>3. PICK n \in Nat : BlocksOf(new) = Fresh(live, n)
    BY <2>2
  <2> HIDE DEF new
  <2>4. /\ BlocksOf(new) \in Seq(Numbers) /\ DOMAIN BlocksOf(new) = 1..n
        /\ \A k \in 1..n : BlocksOf(new)[k] \in Numbers \ live
        /\ \A k, l \in 1..n : BlocksOf(new)[k] = BlocksOf(new)[l] => k = l
    BY <1>8, <2>3, FreshBlocks
  <2>5. walk' \in WalkRecord
    <3>1. walk.pc \in {"idle", "open", "walk", "listed", "respond"} /\ walk.i + 1 \in Numbers
          /\ TRUE \in BOOLEAN /\ walk.clean \in BOOLEAN /\ walk.split \in Seq(Part)
          /\ walk.resp \in Seq(Numbers) /\ walk.copies \in Seq(Part)
      BY <1>2, WalkTypes DEF Numbers
    <3> QED BY <1>2, <2>1, <2>2, <3>1, FieldsChanged DEF WalkRecord
  <2>6. /\ walk'.pc = "walk" /\ walk'.call = walk.call /\ walk'.path = walk.path
        /\ walk'.asked = walk.asked /\ walk'.partition = walk.partition
        /\ walk'.request = walk.request /\ walk'.file_name = walk.file_name
        /\ walk'.root = new /\ walk'.split = walk.split /\ walk'.i = walk.i + 1
        /\ walk'.clean = walk.clean /\ walk'.resp = walk.resp /\ walk'.copies = walk.copies
    BY <1>1, <1>2, <2>1 DEF WalkRecord
  <2>7. RequestInv(walk', nodes')
    <3>1. nodes' = nodes
      BY DEF Walk, mounts
    <3>2. Calling(walk', nodes)
      BY <1>2, <2>6 DEF Calling
    <3>3. Walking(walk')
      <4>1. walk.i + 1 \in 1..(Len(walk.split) + 1) /\ (walk.i + 1) - 1 = walk.i
        BY <1>2
      <4> QED BY <1>2, <1>7, <2>2, <2>6, <4>1 DEF Walking
    <3> QED BY <1>2, <2>6, <3>1, <3>2, <3>3 DEF RequestInv
  <2> DEFINE P == Pointers
             Q == Pointers'
             F == {4}
  <2>8. /\ DOMAIN Q = DOMAIN P /\ DOMAIN P = 1..(8 + Len(prv_data))
        /\ P[4] = BlocksOf(walk.root) /\ Q[4] = BlocksOf(new)
        /\ \A g \in DOMAIN P : g # 4 => Q[g] = P[g]
        /\ 4 \in DOMAIN P
    <3>1. VfsTyped /\ UNCHANGED <<mounts, result>>
      BY DEF VfsInv, Walk
    <3>2. /\ DOMAIN Q = DOMAIN P /\ DOMAIN P = 1..(8 + Len(prv_data))
          /\ P[2] = Q[2] /\ P[3] = Q[3] /\ P[5] = Q[5] /\ P[6] = Q[6] /\ P[7] = Q[7]
          /\ P[4] = BlocksOf(walk.root) /\ Q[4] = BlocksOf(new)
          /\ \A g \in DOMAIN P : g \notin 2..7 => Q[g] = P[g]
      BY <2>6, <3>1, WalkPointers
    <3>3. \A g \in 2..7 : g = 2 \/ g = 3 \/ g = 4 \/ g = 5 \/ g = 6 \/ g = 7
      OBVIOUS
    <3>4. Len(prv_data) \in Nat
      BY <3>1 DEF VfsTyped
    <3>5. 4 \in 1..(8 + Len(prv_data))
      BY <3>4
    <3> HIDE DEF P, Q
    <3> QED BY <3>2, <3>3, <3>5
  <2>9. Separate(P) /\ Blocks(P) \subseteq live /\ (~past.missed /\ ~past.info => live \subseteq Blocks(P))
    BY DEF VfsInv, OwnInv, LossInv
  <2>10. live' = (live \cup Range(Q[4])) \ Range(P[4])
    BY <2>1, <2>8 DEF Adding, Without
  <2> HIDE DEF P, Q
  <2>11. Range(P[4]) \subseteq live
    BY <2>8, <2>9 DEF Blocks
  <2>12. Separate(Q) /\ Blocks(Q) \subseteq live'
    <3>1. \A g \in DOMAIN Q \ F : (\A k \in DOMAIN Q[g] : FALSE) \/ (g \in DOMAIN P /\ Q[g] = P[g])
      BY <2>8
    <3>2. \A k \in DOMAIN Q[4] : Q[4][k] \in live' \ live
      BY <2>4, <2>8, <2>10, <2>11 DEF Range
    <3>3. \A g \in DOMAIN Q \cap F : \A k \in DOMAIN Q[g] : Q[g][k] \in live' \ live
      BY <3>2
    <3>4. \A g, h \in DOMAIN Q \cap F : \A k \in DOMAIN Q[g], l \in DOMAIN Q[h] :
            Q[g][k] = Q[h][l] => g = h /\ k = l
      BY <2>4, <2>8
    <3>5. \A b \in live \ live' : \E g \in DOMAIN P : b \in Range(P[g]) /\ (Gone(g, P, Q) \/ g \in F)
      BY <2>8, <2>10
    <3> HIDE DEF F
    <3> QED BY <2>9, <3>1, <3>3, <3>4, <3>5, Regrouped
  <2>13. ~past'.missed /\ ~past.info => live' \subseteq Blocks(Q)
    <3>1. ~past'.missed => ~past.missed
      BY PastType
    <3>2. \A b \in live' \ live : \E g \in DOMAIN Q : b \in Range(Q[g])
      BY <2>8, <2>10
    <3>3. \A g \in DOMAIN P : Gone(g, P, Q) => \A b \in Range(P[g]) : b \notin live'
      BY <2>8, <2>10 DEF Gone
    <3> QED BY <2>9, <3>1, <3>2, <3>3, NoneLost
  <2>14. live' \in SUBSET Numbers /\ IsFiniteSet(live')
    <3>1. walk.root \in Seq(Entry)
      BY <1>3
    <3>2. Adding(live, BlocksOf(new)) \in SUBSET Numbers /\ IsFiniteSet(Adding(live, BlocksOf(new)))
      BY <1>8, <2>4, BlocksFinite
    <3> QED BY <2>1, <3>2, FS_Difference DEF Without
  <2> QED BY <2>1, <2>5, <2>6, <2>7, <2>12, <2>13, <2>14, WalkGoesOn DEF Q
<1> QED BY <1>9, <1>10

LEMMA AtListed ==
  ASSUME VfsInv, walk.pc = "listed"
  PROVE  /\ walk \in WalkRecord /\ Calling(walk, nodes) /\ Listing(walk)
         /\ walk.resp = <<>> /\ walk.copies = <<>> /\ walk.root \in Seq(Entry)
         /\ Readable(walk.partition, RootDirectoryInode) /\ walk.partition = "ext2"
<1>1. walk \in WalkRecord /\ RequestInv(walk, nodes)
  BY DEF VfsInv, VfsTyped
<1>2. Readable(walk.partition, RootDirectoryInode)
  BY <1>1 DEF RequestInv
<1>3. walk.root \in Seq(Entry)
  BY <1>1, WalkTypes
<1> QED BY <1>1, <1>2, <1>3, RootType, ReadableIs DEF RequestInv

LEMMA RespondInv ==
  ASSUME VfsInv, Walk, Respond
  PROVE  VfsInv'
<1> DEFINE n == Len(walk.root)
           new == Fresh(live, n + 1)
           copies == [k \in 1..n |-> [block |-> new[k + 1], string |-> walk.root[k].string]]
<1>1. /\ walk.pc = "listed" /\ walk.call = "list" /\ stage' = stage
      /\ live' = Without(Adding(live, new), BlocksOf(walk.root))
      /\ walk' = [walk EXCEPT !.pc = "respond", !.resp = <<new[1]>>, !.copies = copies, !.root = <<>>]
  BY DEF Respond, OldDirectory
<1>2. /\ walk \in WalkRecord /\ Calling(walk, nodes) /\ Listing(walk)
      /\ walk.resp = <<>> /\ walk.copies = <<>> /\ walk.root \in Seq(Entry)
      /\ Readable(walk.partition, RootDirectoryInode)
  BY <1>1, AtListed
<1>3. n \in Nat /\ n + 1 \in Nat /\ \A k \in 1..n : walk.root[k].string \in Text
  <2>1. \A k \in 1..n : walk.root[k] \in Entry
    BY <1>2, ElementOfSeq
  <2> QED BY <1>2, <2>1 DEF Entry, Text
<1>4. live \in SUBSET Numbers /\ IsFiniteSet(live)
  BY DEF VfsInv, VfsTyped
<1>5. /\ new \in Seq(Numbers) /\ DOMAIN new = 1..(n + 1)
      /\ \A k \in 1..(n + 1) : new[k] \in Numbers \ live
      /\ \A k, l \in 1..(n + 1) : new[k] = new[l] => k = l
  <2> HIDE DEF n
  <2> QED BY <1>3, <1>4, FreshBlocks
<1>6. \A k \in 1..n : k + 1 \in 1..(n + 1)
  BY <1>3
<1>7. copies \in [1..n -> Part] /\ 1 \in 1..(n + 1)
  <2> HIDE DEF new, n
  <2> QED BY <1>3, <1>5, <1>6 DEF Part
<1>8. /\ copies \in Seq(Part) /\ Len(copies) = n
  <2> HIDE DEF copies, n
  <2> QED BY <1>3, <1>7
<1>9. /\ Strings(copies) = Strings(walk.root)
      /\ DOMAIN PtrsOf(copies) = 1..n /\ \A k \in 1..n : PtrsOf(copies)[k] = new[k + 1]
  <2>1. Strings(copies) = [k \in 1..n |-> copies[k].string]
    BY <1>8 DEF Strings
  <2>2. PtrsOf(copies) = [k \in 1..n |-> copies[k].block]
    BY <1>8 DEF PtrsOf
  <2>3. \A k \in 1..n : copies[k].string = walk.root[k].string /\ copies[k].block = new[k + 1]
    OBVIOUS
  <2> HIDE DEF copies
  <2> QED BY <2>1, <2>2, <2>3 DEF Strings
<1> HIDE DEF copies, new
<1>10. walk' \in WalkRecord
  <2>1. "respond" \in {"idle", "open", "walk", "listed", "respond"} /\ <<>> \in Seq(Entry)
        /\ walk.split \in Seq(Part) /\ walk.i \in Numbers /\ walk.found \in BOOLEAN
        /\ walk.clean \in BOOLEAN /\ <<new[1]>> \in Seq(Numbers)
    BY <1>2, <1>5, <1>7, WalkTypes
  <2> QED BY <1>1, <1>2, <1>8, <2>1, FieldsChanged DEF WalkRecord
<1>11. /\ walk'.pc = "respond" /\ walk'.call = walk.call /\ walk'.path = walk.path
       /\ walk'.asked = walk.asked /\ walk'.partition = walk.partition
       /\ walk'.request = walk.request /\ walk'.file_name = walk.file_name
       /\ walk'.root = <<>> /\ walk'.split = walk.split /\ walk'.clean = walk.clean
       /\ walk'.resp = <<new[1]>> /\ walk'.copies = copies
  BY <1>1, <1>2 DEF WalkRecord
<1>12. RequestInv(walk', nodes')
  <2>1. nodes' = nodes
    BY DEF Walk, mounts
  <2>2. Calling(walk', nodes)
    BY <1>2, <1>11 DEF Calling
  <2>3. Responding(walk')
    BY <1>1, <1>2, <1>9, <1>11 DEF Responding, Listing, Lists
  <2> QED BY <1>2, <1>11, <2>1, <2>2, <2>3 DEF RequestInv
<1> DEFINE P == Pointers
           Q == Pointers'
           F == {6, 7}
<1>13. /\ DOMAIN Q = DOMAIN P /\ DOMAIN P = 1..(8 + Len(prv_data)) /\ Len(prv_data) \in Nat
       /\ P[4] = BlocksOf(walk.root) /\ P[6] = <<>> /\ P[7] = <<>>
       /\ Q[4] = <<>> /\ Q[6] = <<new[1]>> /\ Q[7] = PtrsOf(copies)
       /\ \A g \in DOMAIN P : g \notin {4, 6, 7} => Q[g] = P[g]
  <2>1. VfsTyped /\ UNCHANGED <<mounts, result>>
    BY DEF VfsInv, Walk
  <2>2. /\ DOMAIN Q = DOMAIN P /\ DOMAIN P = 1..(8 + Len(prv_data))
        /\ P[2] = Q[2] /\ P[3] = Q[3] /\ P[5] = Q[5]
        /\ P[4] = BlocksOf(walk.root) /\ P[6] = <<>> /\ P[7] = <<>>
        /\ Q[4] = <<>> /\ Q[6] = <<new[1]>> /\ Q[7] = PtrsOf(copies)
        /\ \A g \in DOMAIN P : g \notin 2..7 => Q[g] = P[g]
    BY <1>2, <1>11, <2>1, WalkPointers, NoPointers
  <2>3. \A g \in 2..7 : g = 2 \/ g = 3 \/ g = 4 \/ g = 5 \/ g = 6 \/ g = 7
    OBVIOUS
  <2>4. Len(prv_data) \in Nat
    BY <2>1 DEF VfsTyped
  <2> HIDE DEF P, Q
  <2> QED BY <2>2, <2>3, <2>4
<1>14. 4 \in DOMAIN P /\ 6 \in DOMAIN Q /\ 7 \in DOMAIN Q
  <2>1. 4 \in 1..(8 + Len(prv_data)) /\ 6 \in 1..(8 + Len(prv_data)) /\ 7 \in 1..(8 + Len(prv_data))
    BY <1>13
  <2> HIDE DEF P, Q
  <2> QED BY <1>13, <2>1
<1>15. Separate(P) /\ Blocks(P) \subseteq live /\ (~past.missed /\ ~past.info => live \subseteq Blocks(P))
  BY DEF VfsInv, OwnInv, LossInv
<1>16. live' = (live \cup Range(new)) \ Range(P[4])
  BY <1>1, <1>13 DEF Adding, Without
<1> HIDE DEF P, Q
<1>17. Range(P[4]) \subseteq live
  BY <1>14, <1>15 DEF Blocks
<1>18. /\ DOMAIN Q[6] = {1} /\ Q[6][1] = new[1]
       /\ DOMAIN Q[7] = 1..n /\ \A k \in 1..n : Q[7][k] = new[k + 1]
  BY <1>9, <1>13
<1>19. Range(new) = Range(Q[6]) \cup Range(Q[7])
  <2>1. \A k \in 1..(n + 1) : k = 1 \/ (k - 1 \in 1..n /\ (k - 1) + 1 = k)
    BY <1>3
  <2>2. \A k \in 1..(n + 1) : new[k] \in Range(Q[6]) \cup Range(Q[7])
    <3> SUFFICES ASSUME NEW k \in 1..(n + 1) PROVE new[k] \in Range(Q[6]) \cup Range(Q[7])
      OBVIOUS
    <3>1. CASE k = 1
      BY <1>18, <3>1 DEF Range
    <3>2. CASE k # 1
      <4>1. k - 1 \in 1..n /\ Q[7][k - 1] = new[(k - 1) + 1] /\ (k - 1) + 1 = k
        BY <1>18, <2>1, <3>2
      <4> QED BY <1>18, <4>1 DEF Range
    <3> QED BY <3>1, <3>2
  <2>3. Range(Q[6]) \subseteq Range(new)
    BY <1>5, <1>7, <1>18 DEF Range
  <2>4. Range(Q[7]) \subseteq Range(new)
    BY <1>5, <1>6, <1>18 DEF Range
  <2>5. Range(new) \subseteq Range(Q[6]) \cup Range(Q[7])
    <3>1. Range(new) = {new[k] : k \in 1..(n + 1)}
      BY <1>5 DEF Range
    <3> QED BY <2>2, <3>1
  <2> QED BY <2>3, <2>4, <2>5
<1>20. \A b \in Range(new) : b \in live' \ live
  BY <1>5, <1>16, <1>17 DEF Range
<1>21. Separate(Q) /\ Blocks(Q) \subseteq live'
  <2>1. \A g \in DOMAIN Q \ F : (\A k \in DOMAIN Q[g] : FALSE) \/ (g \in DOMAIN P /\ Q[g] = P[g])
    <3>1. DOMAIN <<>> = {}
      OBVIOUS
    <3> QED BY <1>13, <3>1
  <2>2. \A g \in DOMAIN Q \cap F : \A k \in DOMAIN Q[g] : Q[g][k] \in live' \ live
    <3>1. \A g \in {6, 7} : \A k \in DOMAIN Q[g] : Q[g][k] \in Range(new)
      BY <1>19 DEF Range
    <3> QED BY <1>20, <3>1
  <2>3. \A g, h \in DOMAIN Q \cap F : \A k \in DOMAIN Q[g], l \in DOMAIN Q[h] :
          Q[g][k] = Q[h][l] => g = h /\ k = l
    <3> SUFFICES ASSUME NEW g \in {6, 7}, NEW h \in {6, 7}, NEW k \in DOMAIN Q[g],
                        NEW l \in DOMAIN Q[h], Q[g][k] = Q[h][l]
                 PROVE  g = h /\ k = l
      OBVIOUS
    <3>1. CASE g = 6 /\ h = 6
      BY <1>18, <3>1
    <3>2. CASE g = 7 /\ h = 7
      <4>1. k \in 1..n /\ l \in 1..n /\ new[k + 1] = new[l + 1]
        BY <1>18, <3>2
      <4>2. k + 1 = l + 1
        BY <1>5, <1>6, <4>1
      <4> QED BY <3>2, <4>1, <4>2
    <3>3. CASE g = 6 /\ h = 7
      <4>1. k = 1 /\ l \in 1..n /\ new[1] = new[l + 1]
        BY <1>18, <3>3
      <4>2. 1 = l + 1
        BY <1>5, <1>6, <1>7, <4>1
      <4> QED BY <4>1, <4>2
    <3>4. CASE g = 7 /\ h = 6
      <4>1. l = 1 /\ k \in 1..n /\ new[1] = new[k + 1]
        BY <1>18, <3>4
      <4>2. 1 = k + 1
        BY <1>5, <1>6, <1>7, <4>1
      <4> QED BY <4>1, <4>2
    <3> QED BY <3>1, <3>2, <3>3, <3>4
  <2>4. \A b \in live \ live' : \E g \in DOMAIN P : b \in Range(P[g]) /\ (Gone(g, P, Q) \/ g \in F)
    <3>1. \A b \in live \ live' : b \in Range(P[4]) /\ P[4] # <<>>
      BY <1>16 DEF Range
    <3> QED BY <1>13, <1>14, <3>1 DEF Gone
  <2> HIDE DEF F
  <2> QED BY <1>15, <2>1, <2>2, <2>3, <2>4, Regrouped
<1>22. ~past'.missed /\ ~past.info => live' \subseteq Blocks(Q)
  <2>1. ~past'.missed => ~past.missed
    BY PastType
  <2>2. \A b \in live' \ live : \E g \in DOMAIN Q : b \in Range(Q[g])
    BY <1>14, <1>16, <1>19
  <2>3. \A g \in DOMAIN P : Gone(g, P, Q) => \A b \in Range(P[g]) : b \notin live'
    <3>1. Range(<<>>) = {}
      BY DEF Range
    <3> QED BY <1>13, <1>16, <3>1 DEF Gone
  <2> QED BY <1>15, <2>1, <2>2, <2>3, NoneLost
<1>23. live' \in SUBSET Numbers /\ IsFiniteSet(live')
  <2>1. Adding(live, new) \in SUBSET Numbers /\ IsFiniteSet(Adding(live, new))
    BY <1>4, <1>5, BlocksFinite
  <2> QED BY <1>1, <2>1, FS_Difference DEF Without
<1> QED BY <1>1, <1>10, <1>11, <1>12, <1>21, <1>22, <1>23, WalkGoesOn DEF Q

(* The root directory has one "..", which leads back to it.                 *)
LEMMA RootEntry ==
  ASSUME VfsInv, walk.pc = "listed", walk.call = "info", Len(walk.asked) = 1
  PROVE  Candidates # {} /\ \A e \in Candidates : walk.root[e].inode = RootDirectoryInode
<1>1. /\ walk \in WalkRecord /\ Calling(walk, nodes) /\ Listing(walk) /\ walk.root \in Seq(Entry)
      /\ Readable(walk.partition, RootDirectoryInode)
  BY AtListed
<1>2. walk.path \in Seq(STRING) /\ Len(walk.path) = 0
  BY <1>1, CallPath
<1>3. walk.path = <<>>
  BY <1>2
<1>4. walk.clean /\ Lists(walk.root, RootDirectoryInode)
  <2>1. walk.clean
    BY <1>1, <1>3 DEF Calling
  <2>2. Resolved(SubSeq(walk.path, 1, 0)) = RootDirectoryInode
        /\ SubSeq(walk.path, 1, Len(walk.path)) = walk.path
    BY <1>2, ResolvedSteps
  <2>3. Resolved(walk.path) = RootDirectoryInode
    BY <1>2, <2>2
  <2> QED BY <1>1, <2>1, <2>3 DEF Listing
<1> DEFINE es == Tree[RootDirectoryInode].entries
<1>5. Tree[RootDirectoryInode].kind = "dir"
  <2>1. Tree[RootDirectoryInode].kind \in Legible
    BY <1>1, RootType, ReadableIs
  <2> QED BY <2>1, TreeAssumption DEF Legible
<1>6. PICK k \in 1..Len(es) : es[k] = [name |-> "..", inode |-> RootDirectoryInode]
  <2>1. [name |-> "..", inode |-> RootDirectoryInode] \in Range(es)
    BY <1>5, TreeAssumption
  <2>2. DOMAIN es = 1..Len(es)
    <3>1. es \in Seq([name : STRING, inode : DOMAIN Tree])
      BY RootType, EntriesType
    <3> HIDE DEF es
    <3> QED BY <3>1
  <2> QED BY <2>1, <2>2 DEF Range
<1>7. Child(RootDirectoryInode, "..") = RootDirectoryInode
  BY <1>6, RootType, ChildIs
<1>8. \A e \in 1..Len(walk.root) : walk.root[e].string = ".." =>
        walk.root[e].inode = RootDirectoryInode
  BY <1>1, <1>4, <1>7, RootType, ListsChild DEF Inodes
<1>9. \E e \in 1..Len(walk.root) : walk.root[e].string = ".."
  <2>1. (\A e \in 1..Len(walk.root) : walk.root[e].string # "..") =>
          Child(RootDirectoryInode, "..") = 0
    BY <1>1, <1>4, RootType, ListsChild DEF Inodes
  <2> QED BY <1>7, <2>1, RootType
<1> QED BY <1>8, <1>9 DEF Candidates, NameIs

LEMMA NoEntryInv ==
  ASSUME VfsInv, Walk, NoEntry
  PROVE  VfsInv'
<1>1. /\ walk.pc = "listed" /\ walk.call = "info" /\ stage = "up"
      /\ Len(walk.asked) = 1 => Candidates = {}
      /\ stage' = "panic" /\ live' = live /\ walk' = walk
  BY DEF NoEntry
<1>2. Len(walk.asked) \in Nat /\ Len(walk.asked) >= 1
  BY <1>1, AtListed, CallPath
<1>3. Len(walk.asked) > 1
  <2>1. Len(walk.asked) # 1
    BY <1>1, RootEntry
  <2> DEFINE n == Len(walk.asked)
  <2>2. n \in Nat /\ n >= 1 /\ n # 1
    BY <1>2, <2>1
  <2>3. n > 1
    <3> HIDE DEF n
    <3> QED BY <2>2
  <2> QED BY <2>3
<1>4. Stopped
  BY <1>1, WalkIsUp DEF Stopped, Walk
<1>5. StopsKnown'
  BY <1>1, <1>3 DEF StopsKnown
<1> QED BY <1>1, <1>4, <1>5, WalkStops

LEMMA EntryBlocks ==
  ASSUME NEW root \in Seq(Entry), NEW k \in 1..Len(root)
  PROVE  root[k].block \in Range(BlocksOf(root)) /\ root[k].name \in Range(BlocksOf(root))
<1> DEFINE n == Len(root)
<1>1. n \in Nat /\ k \in 1..n
  OBVIOUS
<1>2. BlocksOf(root) = [j \in 1..(2 * n) |->
        IF j % 2 = 1 THEN root[(j + 1) \div 2].block ELSE root[j \div 2].name]
  BY DEF BlocksOf
<1>3. /\ 2 * k \in 1..(2 * n) /\ (2 * k) % 2 = 0 /\ (2 * k) \div 2 = k
      /\ 2 * k - 1 \in 1..(2 * n) /\ (2 * k - 1) % 2 = 1 /\ ((2 * k - 1) + 1) \div 2 = k
  <2> HIDE DEF n
  <2> QED BY <1>1
<1> HIDE DEF n
<1>4. BlocksOf(root)[2 * k - 1] = root[k].block /\ BlocksOf(root)[2 * k] = root[k].name
  BY <1>2, <1>3
<1>5. DOMAIN BlocksOf(root) = 1..(2 * n)
  BY <1>2
<1> QED BY <1>3, <1>4, <1>5 DEF Range

LEMMA AnswerInfoInv ==
  ASSUME VfsInv, Walk, AnswerInfo
  PROVE  VfsInv'
<1>1. walk.pc = "listed" /\ walk.call = "info" /\ stage = "up"
  BY DEF AnswerInfo
<1>2. PICK e \in Answers :
        LET entry == walk.root[e]
            freed == live \ Dropped(e)
        IN  IF walk.partition = "ext2" /\ GroupOf(entry.inode) < GroupsPerBlock
            THEN live' = Adding(freed, Fresh(freed, 2)) /\ walk' = Idle /\ stage' = stage
            ELSE stage' = "garbage" /\ live' = live /\ walk' = walk
  BY DEF AnswerInfo
<1>3. /\ walk \in WalkRecord /\ Calling(walk, nodes) /\ walk.root \in Seq(Entry)
      /\ walk.partition = "ext2" /\ Readable(walk.partition, RootDirectoryInode)
  BY <1>1, AtListed
<1>4. Len(walk.asked) \in Nat /\ Len(walk.asked) >= 1
  BY <1>1, <1>3, CallPath
<1> DEFINE entry == walk.root[e]
           freed == live \ Dropped(e)
<1>5. CASE ~(GroupOf(entry.inode) < GroupsPerBlock)
  <2>1. stage' = "garbage" /\ live' = live /\ walk' = walk
    BY <1>2, <1>5
  <2>2. Len(walk.asked) # 1
    <3> SUFFICES ASSUME Len(walk.asked) = 1 PROVE FALSE
      OBVIOUS
    <3>1. e \in Candidates
      BY <1>2 DEF Answers, Latest
    <3>2. entry.inode = RootDirectoryInode
      BY <1>1, <3>1, RootEntry
    <3> QED BY <1>3, <1>5, <3>2, RootType, ReadableIs
  <2>3. Len(walk.asked) > 1
    <3> DEFINE n == Len(walk.asked)
    <3>1. n \in Nat /\ n >= 1 /\ n # 1
      BY <1>4, <2>2
    <3>2. n > 1
      <4> HIDE DEF n
      <4> QED BY <3>1
    <3> QED BY <3>2
  <2>4. Stopped
    BY <1>1, WalkIsUp DEF Stopped, Walk
  <2>5. StopsKnown'
    BY <1>1, <2>1, <2>3 DEF StopsKnown
  <2> QED BY <2>1, <2>4, <2>5, WalkStops
<1>6. CASE GroupOf(entry.inode) < GroupsPerBlock
  <2>1. live' = Adding(freed, Fresh(freed, 2)) /\ walk' = Idle /\ stage' = stage
    BY <1>2, <1>3, <1>6
  <2>2. live \in SUBSET Numbers /\ IsFiniteSet(live)
    BY DEF VfsInv, VfsTyped
  <2>3. freed \in SUBSET Numbers /\ IsFiniteSet(freed)
    BY <2>2, FS_Difference
  <2>4. live' \in SUBSET Numbers /\ IsFiniteSet(live') /\ freed \subseteq live'
    <3> HIDE DEF freed
    <3>1. Fresh(freed, 2) \in Seq(Numbers)
      BY <2>3, 2 \in Nat, FreshBlocks
    <3> QED BY <2>1, <2>3, <3>1, BlocksFinite DEF Adding
  <2>5. RequestInv(walk', nodes')
    BY <2>1, IdleIs DEF RequestInv
  <2>6. walk' \in WalkRecord /\ walk'.call = "none"
    BY <2>1, IdleIs
  <2>7. past.info
    BY <1>1 DEF VfsInv, StageInv
  <2> DEFINE P == Pointers
             Q == Pointers'
  <2>8. /\ DOMAIN Q = DOMAIN P /\ DOMAIN P = 1..(8 + Len(prv_data)) /\ Len(prv_data) \in Nat
        /\ P[3] = walk.file_name /\ P[4] = BlocksOf(walk.root)
        /\ Q[2] = <<>> /\ Q[3] = <<>> /\ Q[4] = <<>> /\ Q[5] = <<>> /\ Q[6] = <<>> /\ Q[7] = <<>>
        /\ \A g \in DOMAIN P : g \notin 2..7 => Q[g] = P[g]
    <3>1. VfsTyped /\ UNCHANGED <<mounts, result>>
      BY DEF VfsInv, Walk
    <3>2. Len(prv_data) \in Nat
      BY <3>1 DEF VfsTyped
    <3> QED BY <2>1, <3>1, <3>2, WalkPointers, NoPointers, IdleIs
  <2>9. Separate(P) /\ Blocks(P) \subseteq live
    BY DEF VfsInv, OwnInv
  <2>10. 3 \in DOMAIN P /\ 4 \in DOMAIN P
    <3>1. 3 \in 1..(8 + Len(prv_data)) /\ 4 \in 1..(8 + Len(prv_data))
      BY <2>8
    <3> HIDE DEF P, Q
    <3> QED BY <2>8, <3>1
  <2> HIDE DEF P, Q
  <2>11. \A b \in Dropped(e) : b \in Range(P[3]) \/ b \in Range(P[4])
    <3>1. DOMAIN walk.root = 1..Len(walk.root)
      BY <1>3
    <3>2. \A k \in DOMAIN walk.root :
            walk.root[k].block \in Range(P[4]) /\ walk.root[k].name \in Range(P[4])
      BY <1>3, <2>8, <3>1, EntryBlocks
    <3> SUFFICES ASSUME NEW b \in Dropped(e) PROVE b \in Range(P[3]) \/ b \in Range(P[4])
      OBVIOUS
    <3> DEFINE entries == {{walk.root[k].block, walk.root[k].name} : k \in DOMAIN walk.root \ {e}}
               name == IF Len(walk.asked) = 1 THEN {} ELSE Range(walk.file_name)
    <3>4. b \in UNION entries \/ b \in name
      <4>1. Dropped(e) = (UNION entries) \cup name
        BY Zenon DEF Dropped
      <4> HIDE DEF entries, name
      <4> QED BY <4>1
    <3>5. b \in name => b \in Range(walk.file_name)
      OBVIOUS
    <3>6. b \in UNION entries => \E k \in DOMAIN walk.root : b \in {walk.root[k].block, walk.root[k].name}
      OBVIOUS
    <3>3. \/ \E k \in DOMAIN walk.root : b \in {walk.root[k].block, walk.root[k].name}
          \/ b \in Range(walk.file_name)
      BY <3>4, <3>5, <3>6
    <3> QED BY <2>8, <3>2, <3>3
  <2>12. \A b \in live \ live' : \E g \in DOMAIN P : b \in Range(P[g]) /\ Gone(g, P, Q)
    <3> SUFFICES ASSUME NEW b \in live \ live'
                 PROVE  \E g \in DOMAIN P : b \in Range(P[g]) /\ Gone(g, P, Q)
      OBVIOUS
    <3>1. b \in Range(P[3]) \/ b \in Range(P[4])
      BY <2>4, <2>11
    <3>2. Range(<<>>) = {}
      BY DEF Range
    <3> QED BY <2>8, <2>10, <3>1, <3>2 DEF Gone
  <2>13. \A g \in DOMAIN Q : (\A k \in DOMAIN Q[g] : FALSE) \/ (g \in DOMAIN P /\ Q[g] = P[g])
    <3>1. \A g \in 2..7 : g = 2 \/ g = 3 \/ g = 4 \/ g = 5 \/ g = 6 \/ g = 7
      OBVIOUS
    <3>2. DOMAIN <<>> = {}
      OBVIOUS
    <3> QED BY <2>8, <3>1, <3>2
  <2>14. Separate(Q) /\ Blocks(Q) \subseteq live'
    BY <2>9, <2>12, <2>13, OnlyDropped
  <2> QED BY <2>1, <2>4, <2>5, <2>6, <2>7, <2>14, WalkGoesOn DEF Q
<1> QED BY <1>5, <1>6

LEMMA WalkInv ==
  ASSUME VfsInv, Walk
  PROVE  VfsInv'
BY OpenRootInv, DescendInv, SkipInv, GiveUpInv, EndWalkInv, RespondInv, NoEntryInv, AnswerInfoInv
   DEF Walk, WalkStep

-----------------------------------------------------------------------------
(* The steps that leave every block with its owner.                         *)

LEMMA AtRest ==
  ASSUME VfsInv, walk.pc = "idle"
  PROVE  walk = Idle
BY DEF VfsInv, RequestInv

(* The record of the calls so far, one more call in it.                     *)
LEMMA CountedType ==
  ASSUME VfsInv, past.calls < MaxCalls, NEW path \in PathString
  PROVE  LET c == Counted
             l == [Counted EXCEPT !.path = path]
             f == [Counted EXCEPT !.info = TRUE, !.path = path]
             T == PastRecord(0 .. MaxCalls)
         IN  /\ c \in T /\ c.missed = past.missed /\ c.info = past.info
             /\ l \in T /\ l.missed = past.missed /\ l.info = past.info /\ l.path = path
             /\ f \in T /\ f.missed = past.missed /\ f.info /\ f.path = path
<1> DEFINE n == past.calls + 1
           D == 0..MaxCalls
           c == [past EXCEPT !.calls = n]
           l == [past EXCEPT !.calls = n, !.path = path]
           f == [past EXCEPT !.calls = n, !.info = TRUE, !.path = path]
<1>1. past \in PastRecord(D)
  BY DEF VfsInv, VfsTyped
<1>2. n \in D
  BY <1>1, BoundsAssumption DEF PastRecord
<1>3. /\ Counted = c
      /\ [Counted EXCEPT !.path = path] = l
      /\ [Counted EXCEPT !.info = TRUE, !.path = path] = f
  BY DEF Counted
<1>4. /\ c \in PastRecord(D) /\ c.missed = past.missed /\ c.info = past.info
      /\ l \in PastRecord(D) /\ l.missed = past.missed /\ l.info = past.info /\ l.path = path
      /\ f \in PastRecord(D) /\ f.missed = past.missed /\ f.info /\ f.path = path
  <2> HIDE DEF n, D
  <2> QED BY <1>1, <1>2 DEF PastRecord
<1> HIDE DEF n, c, l, f
<1> QED BY <1>3, <1>4 DEF D

LEMMA RootPathType == RootPath \in PathString
BY DEF RootPath, PathString

LEMMA SameBlocks ==
  ASSUME VfsInv, UNCHANGED <<live, walk, mounts, result>>,
         stage' \in {"disks", "mbr", "mount", "up", "panic", "garbage"},
         past' \in PastRecord(0 .. MaxCalls),
         past'.missed = past.missed, past.info => past'.info,
         StageInv', stage' \in {"panic", "garbage"} => Stopped, StopsKnown'
  PROVE  VfsInv'
<1>1. walk' = walk /\ live' = live /\ nodes' = nodes /\ prv_data' = prv_data
      /\ RequestServer' = RequestServer /\ result' = result /\ computer' = computer
      /\ partitions' = partitions
  BY DEF mounts
<1>2. VfsTyped'
  BY <1>1 DEF VfsInv, VfsTyped
<1>3. RequestInv(walk, nodes)' /\ ResultInv(result)' /\ InStep(nodes, prv_data, RequestServer)'
  BY <1>1 DEF VfsInv
<1>4. Stopped' <=> Stopped
  BY <1>1 DEF Stopped, Matches
<1>5. OwnInv' /\ LossInv'
  <2>1. Pointers' = Pointers
    BY <1>1 DEF Pointers, PartitionBlocks, BlocksOf, PtrsOf
  <2> QED BY <1>1, <2>1 DEF VfsInv, OwnInv, LossInv
<1> QED BY <1>2, <1>3, <1>4, <1>5 DEF VfsInv

LEMMA StutterInv ==
  ASSUME VfsInv, UNCHANGED vfsVars
  PROVE  VfsInv'
<1>1. /\ walk' = walk /\ live' = live /\ nodes' = nodes /\ prv_data' = prv_data
      /\ RequestServer' = RequestServer /\ result' = result /\ computer' = computer
      /\ partitions' = partitions /\ stage' = stage /\ past' = past
  BY DEF vfsVars
<1>2. /\ stage \in {"disks", "mbr", "mount", "up", "panic", "garbage"}
      /\ past \in PastRecord(0 .. MaxCalls)
  BY DEF VfsInv, VfsTyped
<1>3. StageInv' /\ StopsKnown' /\ (stage' \in {"panic", "garbage"} => Stopped)
  BY <1>1 DEF VfsInv, StageInv, StopsKnown, FirstListed
<1> QED BY <1>1, <1>2, <1>3, SameBlocks DEF mounts

LEMMA GetDiskInv ==
  ASSUME VfsInv, GetDisk
  PROVE  VfsInv'
<1>1. /\ stage = "disks" /\ stage' = (IF computer.disks = 0 THEN "panic" ELSE "mbr")
      /\ UNCHANGED <<live, walk, mounts, result, past>>
  BY DEF GetDisk
<1>2. /\ walk' = walk /\ nodes' = nodes /\ result' = result /\ computer' = computer
      /\ partitions' = partitions /\ past' = past
  BY <1>1 DEF mounts
<1>3. past \in PastRecord(0 .. MaxCalls) /\ StageInv
  BY DEF VfsInv, VfsTyped
<1>4. StageInv' /\ Stopped
  BY <1>1, <1>2, <1>3 DEF StageInv, Stopped
<1>5. StopsKnown'
  BY <1>1, <1>2 DEF StopsKnown
<1> QED BY <1>1, <1>2, <1>3, <1>4, <1>5, SameBlocks

LEMMA RemoveNodeInv ==
  ASSUME VfsInv, RemoveNode
  PROVE  VfsInv'
<1>1. /\ stage = "up" /\ past.calls < MaxCalls /\ past' = Counted
      /\ UNCHANGED <<live, walk, stage, mounts, result>>
  BY DEF RemoveNode, Callable, Disconnect, mounts
<1>2. /\ walk' = walk /\ nodes' = nodes /\ result' = result /\ computer' = computer
      /\ partitions' = partitions /\ stage' = "up"
  BY <1>1 DEF mounts
<1>3. /\ past' \in PastRecord(0 .. MaxCalls)
      /\ past'.missed = past.missed /\ past'.info = past.info
  BY <1>1, RootPathType, CountedType
<1>4. StageInv'
  BY <1>1, <1>2, <1>3 DEF VfsInv, StageInv, FirstListed
<1>5. StopsKnown'
  BY <1>2 DEF StopsKnown
<1> QED BY <1>1, <1>2, <1>3, <1>4, <1>5, SameBlocks

-----------------------------------------------------------------------------
(* A call begins.                                                           *)

LEMMA CallBegins ==
  ASSUME VfsInv, Callable, nodes # <<>>, stage' = stage, UNCHANGED <<mounts, result>>,
         past' \in PastRecord(0 .. MaxCalls),
         past'.missed = past.missed, past.info => past'.info, walk'.call = "info" => past'.info,
         NEW n \in {1, 2}, live' = Adding(live, Fresh(live, n)),
         walk' \in WalkRecord, walk'.pc = "open", Calling(walk', nodes), Opening(walk'),
         walk'.resp = <<>>, walk'.copies = <<>>, walk'.request = <<Fresh(live, n)[1]>>,
         walk'.file_name = IF n = 1 THEN <<>> ELSE <<Fresh(live, n)[2]>>
  PROVE  VfsInv'
<1>1. stage = "up" /\ walk.pc = "idle" /\ ~result.held
  BY DEF Callable
<1>2. walk = Idle
  BY <1>1, AtRest
<1>3. /\ nodes' = nodes /\ prv_data' = prv_data /\ stage' = "up" /\ computer' = computer
      /\ RequestServer' = RequestServer /\ result' = result /\ partitions' = partitions
  BY <1>1 DEF mounts
<1> DEFINE new == Fresh(live, n)
<1>4. live \in SUBSET Numbers /\ IsFiniteSet(live) /\ n \in Nat
  BY DEF VfsInv, VfsTyped
<1>5. /\ new \in Seq(Numbers) /\ DOMAIN new = 1..n
      /\ \A k \in 1..n : new[k] \in Numbers \ live
      /\ \A k, l \in 1..n : new[k] = new[l] => k = l
  BY <1>4, FreshBlocks
<1> HIDE DEF new
<1>6. live' \in SUBSET Numbers /\ IsFiniteSet(live') /\ live' = live \cup Range(new)
  BY <1>4, <1>5, BlocksFinite DEF new, Adding
<1>7. VfsTyped'
  BY <1>3, <1>6 DEF VfsInv, VfsTyped
<1>8. RequestInv(walk, nodes)' /\ ResultInv(result)' /\ InStep(nodes, prv_data, RequestServer)'
  <2>1. RequestInv(walk', nodes)
    BY DEF RequestInv
  <2> QED BY <1>3, <2>1 DEF VfsInv
<1>9. StageInv' /\ StopsKnown' /\ stage' \notin {"panic", "garbage"}
  BY <1>1, <1>3 DEF StageInv, StopsKnown
<1> DEFINE P == Pointers
           Q == Pointers'
           F == {2, 3}
<1>10. /\ DOMAIN Q = DOMAIN P /\ DOMAIN P = 1..(8 + Len(prv_data)) /\ Len(prv_data) \in Nat
       /\ P[2] = <<>> /\ P[3] = <<>>
       /\ Q[2] = <<new[1]>> /\ Q[3] = (IF n = 1 THEN <<>> ELSE <<new[2]>>)
       /\ \A g \in DOMAIN P : g \notin F => Q[g] = P[g]
  <2>1. VfsTyped /\ UNCHANGED <<mounts, result>>
    BY DEF VfsInv
  <2>2. /\ DOMAIN Q = DOMAIN P /\ DOMAIN P = 1..(8 + Len(prv_data))
        /\ P[2] = <<>> /\ P[3] = <<>> /\ P[4] = Q[4] /\ P[5] = Q[5] /\ P[6] = Q[6] /\ P[7] = Q[7]
        /\ Q[2] = walk'.request /\ Q[3] = walk'.file_name
        /\ \A g \in DOMAIN P : g \notin 2..7 => Q[g] = P[g]
    BY <1>2, <2>1, WalkPointers, IdleIs DEF Opening
  <2>3. Len(prv_data) \in Nat
    BY <2>1 DEF VfsTyped
  <2>4. \A g \in 2..7 : g = 2 \/ g = 3 \/ g = 4 \/ g = 5 \/ g = 6 \/ g = 7
    OBVIOUS
  <2> HIDE DEF P, Q
  <2> QED BY <2>2, <2>3, <2>4 DEF new
<1>11. Separate(P) /\ Blocks(P) \subseteq live /\ (~past.missed /\ ~past.info => live \subseteq Blocks(P))
  BY DEF VfsInv, OwnInv, LossInv
<1>12. 2 \in DOMAIN Q /\ 3 \in DOMAIN Q
  <2>1. 2 \in 1..(8 + Len(prv_data)) /\ 3 \in 1..(8 + Len(prv_data))
    BY <1>10
  <2> HIDE DEF P, Q
  <2> QED BY <1>10, <2>1
<1> HIDE DEF P, Q
<1>13. Range(new) = Range(Q[2]) \cup Range(Q[3])
  <2>1. CASE n = 1
    <3>1. DOMAIN new = {1}
      BY <1>5, <2>1
    <3> QED BY <1>10, <2>1, <3>1 DEF Range
  <2>2. CASE n = 2
    <3>1. DOMAIN new = {1, 2}
      BY <1>5, <2>2
    <3> QED BY <1>10, <2>2, <3>1 DEF Range
  <2> QED BY <2>1, <2>2
<1>14. Separate(Q) /\ Blocks(Q) \subseteq live'
  <2>1. \A g \in DOMAIN Q \ F : (\A k \in DOMAIN Q[g] : FALSE) \/ (g \in DOMAIN P /\ Q[g] = P[g])
    BY <1>10
  <2>2. \A g \in DOMAIN Q \cap F : \A k \in DOMAIN Q[g] : Q[g][k] \in live' \ live
    <3>1. \A g \in F : \A k \in DOMAIN Q[g] : Q[g][k] \in Range(new)
      BY <1>13 DEF Range
    <3>2. \A b \in Range(new) : b \in live' \ live
      BY <1>5, <1>6 DEF Range
    <3> QED BY <3>1, <3>2
  <2>3. \A g, h \in DOMAIN Q \cap F : \A k \in DOMAIN Q[g], l \in DOMAIN Q[h] :
          Q[g][k] = Q[h][l] => g = h /\ k = l
    <3>1. n = 1 \/ (n = 2 /\ new[1] # new[2])
      BY <1>5
    <3>2. DOMAIN Q[2] = {1} /\ Q[2][1] = new[1]
      BY <1>10
    <3>3. n = 1 => DOMAIN Q[3] = {}
      BY <1>10
    <3>4. n = 2 => DOMAIN Q[3] = {1} /\ Q[3][1] = new[2]
      BY <1>10
    <3> QED BY <3>1, <3>2, <3>3, <3>4
  <2>4. \A b \in live \ live' : \E g \in DOMAIN P : b \in Range(P[g]) /\ (Gone(g, P, Q) \/ g \in F)
    BY <1>6
  <2> HIDE DEF F
  <2> QED BY ONLY <1>11, <2>1, <2>2, <2>3, <2>4, Regrouped
<1>15. ~past'.missed /\ ~past'.info => live' \subseteq Blocks(Q)
  <2>1. \A b \in live' \ live : \E g \in DOMAIN Q : b \in Range(Q[g])
    BY <1>6, <1>12, <1>13
  <2>2. \A g \in DOMAIN P : Gone(g, P, Q) => \A b \in Range(P[g]) : b \notin live'
    <3>1. Range(<<>>) = {}
      BY DEF Range
    <3> QED BY <1>10, <3>1 DEF Gone
  <2> QED BY <1>11, <2>1, <2>2, NoneLost
<1> QED BY <1>7, <1>8, <1>9, <1>14, <1>15 DEF VfsInv, OwnInv, LossInv, Q

LEMMA PathType ==
  ASSUME NEW path \in Paths
  PROVE  /\ path \in PathString /\ path.names \in Seq(STRING)
         /\ path.names # <<>> => Front(path.names) \in Seq(STRING)
<1>1. path \in PathString /\ path.names \in Seq(STRING)
  BY PathsAssumption DEF PathString
<1>2. ASSUME path.names # <<>> PROVE Front(path.names) \in Seq(STRING)
  <2> DEFINE names == path.names
  <2>1. Len(names) - 1 \in Nat /\ \A k \in 1..(Len(names) - 1) : k \in 1..Len(names)
    BY <1>1, <1>2
  <2> QED BY <1>1, <2>1 DEF Front
<1> QED BY <1>1, <1>2

(* A path that passes the ASSERTs and has no name is "/".                   *)
LEMMA NamelessIsRoot ==
  ASSUME NEW path \in PathString, Wellformed(path), path.names = <<>>
  PROVE  path = RootPath
BY DEF PathString, Wellformed, RootPath

LEMMA NodePartition ==
  ASSUME VfsInv, nodes # <<>>
  PROVE  Served(GetChildNode) = nodes[1].partition /\ nodes[1].partition \in PartitionKind
<1>1. nodes \in Seq(NodeRecord) /\ Len(nodes) \in Nat
  BY DEF VfsInv, VfsTyped
<1>2. Len(nodes) # 0 /\ 1 \in 1..Len(nodes)
  BY <1>1
<1>3. nodes[1] \in NodeRecord
  BY <1>1, <1>2, ElementOfSeq
<1>4. nodes[1].index = 1 - 1
  BY <1>1, <1>2 DEF VfsInv, InStep
<1> QED BY <1>3, <1>4 DEF Served, GetChildNode, NodeRecord

(* The locals of a call that begins.                                        *)
LEMMA FieldsSet ==
  ASSUME NEW A, NEW B, NEW C, NEW D, NEW E, NEW F, NEW G, NEW H, NEW I, NEW J, NEW K, NEW L,
         NEW M, NEW N,
         NEW w \in [pc : A, call : B, path : C, asked : D, partition : E, request : F,
                    file_name : G, root : H, split : I, i : J, found : K, clean : L,
                    resp : M, copies : N],
         NEW pc \in A, NEW call \in B, NEW path \in C, NEW asked \in D, NEW partition \in E,
         NEW request \in F, NEW file_name \in G
  PROVE  LET u == [w EXCEPT !.pc = pc, !.call = call, !.path = path, !.asked = asked,
                            !.partition = partition, !.request = request]
             v == [w EXCEPT !.pc = pc, !.call = call, !.path = path, !.asked = asked,
                            !.partition = partition, !.request = request, !.file_name = file_name]
             W == [pc : A, call : B, path : C, asked : D, partition : E, request : F,
                   file_name : G, root : H, split : I, i : J, found : K, clean : L,
                   resp : M, copies : N]
         IN  /\ u \in W /\ u.pc = pc /\ u.call = call /\ u.path = path /\ u.asked = asked
             /\ u.partition = partition /\ u.request = request /\ u.file_name = w.file_name
             /\ u.root = w.root /\ u.split = w.split /\ u.i = w.i /\ u.clean = w.clean
             /\ u.resp = w.resp /\ u.copies = w.copies
             /\ v \in W /\ v.pc = pc /\ v.call = call /\ v.path = path /\ v.asked = asked
             /\ v.partition = partition /\ v.request = request /\ v.file_name = file_name
             /\ v.root = w.root /\ v.split = w.split /\ v.i = w.i /\ v.clean = w.clean
             /\ v.resp = w.resp /\ v.copies = w.copies
  OBVIOUS

LEMMA ListEntiresInv ==
  ASSUME VfsInv, NEW path \in Paths, ListEntires(path)
  PROVE  VfsInv'
<1>1. /\ stage = "up" /\ walk.pc = "idle" /\ ~result.held /\ past.calls < MaxCalls
      /\ past' = [Counted EXCEPT !.path = path] /\ UNCHANGED <<mounts, result>> /\ Callable
  BY DEF ListEntires, Callable
<1>2. /\ past' \in PastRecord(0 .. MaxCalls)
      /\ past'.missed = past.missed /\ past'.info = past.info /\ past'.path = path
  BY <1>1, PathType, CountedType
<1>3. CASE ~Wellformed(path) \/ nodes = <<>>
  <2>1. stage' = "panic" /\ UNCHANGED <<live, walk>>
    BY <1>3 DEF ListEntires
  <2>2. /\ walk' = walk /\ nodes' = nodes /\ result' = result /\ partitions' = partitions
    BY <1>1, <2>1 DEF mounts
  <2>3. StageInv' /\ Stopped
    BY <1>1, <1>2, <2>1, <2>2 DEF VfsInv, StageInv, Stopped
  <2>4. StopsKnown'
    <3>1. nodes = <<>> => nodes' = <<>> /\ (partitions' # <<>> => ~LinuxType(partitions'[1].kind))
      BY <1>1, <2>2 DEF VfsInv, StageInv, FirstListed
    <3>2. ~Wellformed(path) => ~(past'.path.first /\ past'.path.last)
      BY <1>2 DEF Wellformed, NotEmpty
    <3> QED BY <1>3, <2>1, <3>1, <3>2 DEF StopsKnown, FirstListed
  <2> QED BY <1>1, <1>2, <2>1, <2>3, <2>4, SameBlocks
<1>4. CASE Wellformed(path) /\ nodes # <<>>
  <2> DEFINE new == Fresh(live, 1)
             names == path.names
             partition == Served(GetChildNode)
  <2>1. /\ live' = Adding(live, new) /\ stage' = stage
        /\ walk' = [Idle EXCEPT !.pc = "open", !.call = "list", !.path = names, !.asked = names,
                                !.partition = partition, !.request = new]
    BY <1>4 DEF ListEntires, LocalPath
  <2>2. live \in SUBSET Numbers /\ IsFiniteSet(live) /\ 1 \in Nat
    BY DEF VfsInv, VfsTyped
  <2>3. new \in Seq(Numbers) /\ Len(new) = 1
    BY <2>2, FreshBlocks
  <2>4. new = <<new[1]>>
    <3> HIDE DEF new
    <3>1. <<new[1]>> \in Seq(Numbers) /\ Len(<<new[1]>>) = 1
      BY <2>3
    <3> QED BY <2>3, <3>1, SeqEqual
  <2>5. partition \in PartitionKind /\ partition = nodes[1].partition
    BY <1>4, NodePartition
  <2>6. names \in Seq(STRING) /\ (\E p \in Paths : names = p.names)
    BY PathType
  <2> HIDE DEF new, partition, names
  <2>7. Idle \in WalkRecord /\ "open" \in {"idle", "open", "walk", "listed", "respond"}
        /\ "list" \in {"none", "list", "info"} /\ new \in Seq(Numbers)
    BY <2>3, IdleIs
  <2>8. /\ walk' \in WalkRecord /\ walk'.pc = "open" /\ walk'.call = "list" /\ walk'.path = names
        /\ walk'.asked = names /\ walk'.partition = partition /\ walk'.request = new
        /\ walk'.file_name = Idle.file_name /\ walk'.root = Idle.root /\ walk'.split = Idle.split
        /\ walk'.i = Idle.i /\ walk'.clean = Idle.clean /\ walk'.resp = Idle.resp
        /\ walk'.copies = Idle.copies
    BY <2>1, <2>5, <2>6, <2>7, FieldsSet DEF WalkRecord
  <2>9. Calling(walk', nodes) /\ Opening(walk') /\ walk'.resp = <<>> /\ walk'.copies = <<>>
        /\ walk'.file_name = <<>>
    BY <1>4, <2>5, <2>6, <2>8, IdleIs DEF Calling, Opening
  <2> DEFINE n == 1
  <2>10. /\ n \in {1, 2} /\ live' = Adding(live, Fresh(live, n))
         /\ walk'.request = <<Fresh(live, n)[1]>>
         /\ walk'.file_name = (IF n = 1 THEN <<>> ELSE <<Fresh(live, n)[2]>>)
    BY <2>1, <2>4, <2>8, <2>9 DEF new
  <2> HIDE DEF n
  <2> QED BY <1>1, <1>2, <1>4, <2>1, <2>8, <2>9, <2>10, CallBegins
<1> QED BY <1>3, <1>4

LEMMA GetFileInfoInv ==
  ASSUME VfsInv, NEW path \in Paths, GetFileInfo(path)
  PROVE  VfsInv'
<1>1. /\ stage = "up" /\ walk.pc = "idle" /\ ~result.held /\ past.calls < MaxCalls
      /\ past' = [Counted EXCEPT !.info = TRUE, !.path = path] /\ UNCHANGED <<mounts, result>> /\ Callable
  BY DEF GetFileInfo, Callable
<1>2. /\ past' \in PastRecord(0 .. MaxCalls)
      /\ past'.missed = past.missed /\ past'.info /\ past'.path = path
  BY <1>1, PathType, CountedType
<1>3. CASE ~Wellformed(path) \/ nodes = <<>> \/ path.names = <<>>
  <2>1. /\ stage' = (IF ~Wellformed(path) \/ nodes = <<>> THEN "panic" ELSE "garbage") /\ UNCHANGED <<live, walk>>
    BY <1>3 DEF GetFileInfo
  <2>2. /\ walk' = walk /\ nodes' = nodes /\ result' = result /\ partitions' = partitions
    BY <1>1, <2>1 DEF mounts
  <2>3. StageInv' /\ Stopped
    BY <1>1, <1>2, <2>1, <2>2 DEF VfsInv, StageInv, Stopped
  <2>4. StopsKnown'
    <3>1. nodes = <<>> => nodes' = <<>> /\ (partitions' # <<>> => ~LinuxType(partitions'[1].kind))
      BY <1>1, <2>2 DEF VfsInv, StageInv, FirstListed
    <3>2. walk'.call = "none"
      BY <1>1, <2>2, AtRest, IdleIs
    <3>3. ~Wellformed(path) => ~(past'.path.first /\ past'.path.last)
      BY <1>2 DEF Wellformed, NotEmpty
    <3>4. Wellformed(path) /\ path.names = <<>> => past'.path = RootPath
      BY <1>2, PathType, NamelessIsRoot
    <3> QED BY <1>2, <1>3, <2>1, <3>1, <3>2, <3>3, <3>4 DEF StopsKnown, FirstListed
  <2> QED BY <1>1, <1>2, <2>1, <2>3, <2>4, SameBlocks
<1>4. CASE Wellformed(path) /\ nodes # <<>> /\ path.names # <<>>
  <2> DEFINE new == Fresh(live, 2)
             names == path.names
             partition == Served(GetChildNode)
  <2>1. /\ live' = Adding(live, new) /\ stage' = stage
        /\ walk' = [Idle EXCEPT !.pc = "open", !.call = "info", !.path = Front(names), !.asked = names,
                                !.partition = partition, !.request = <<new[1]>>,
                                !.file_name = <<new[2]>>]
    BY <1>1, <1>4 DEF GetFileInfo, Parent
  <2>2. live \in SUBSET Numbers /\ IsFiniteSet(live) /\ 2 \in Nat
    BY DEF VfsInv, VfsTyped
  <2>3. new \in Seq(Numbers) /\ Len(new) = 2
    BY <2>2, FreshBlocks
  <2>4. new[1] \in Numbers /\ new[2] \in Numbers
    <3> HIDE DEF new
    <3>1. 1 \in 1..Len(new) /\ 2 \in 1..Len(new)
      BY <2>3
    <3> QED BY <2>3, <3>1, ElementOfSeq
  <2>5. partition \in PartitionKind /\ partition = nodes[1].partition
    BY <1>4, NodePartition
  <2>6. /\ names \in Seq(STRING) /\ Front(names) \in Seq(STRING) /\ names # <<>>
        /\ \E p \in Paths : names = p.names
    BY <1>4, PathType
  <2> HIDE DEF new, partition, names
  <2>7. Idle \in WalkRecord /\ "open" \in {"idle", "open", "walk", "listed", "respond"}
        /\ "info" \in {"none", "list", "info"} /\ <<new[1]>> \in Seq(Numbers)
        /\ <<new[2]>> \in Seq(Numbers)
    BY <2>4, IdleIs
  <2>8. /\ walk' \in WalkRecord /\ walk'.pc = "open" /\ walk'.call = "info"
        /\ walk'.path = Front(names) /\ walk'.asked = names /\ walk'.partition = partition
        /\ walk'.request = <<new[1]>> /\ walk'.file_name = <<new[2]>>
        /\ walk'.root = Idle.root /\ walk'.split = Idle.split
        /\ walk'.i = Idle.i /\ walk'.clean = Idle.clean /\ walk'.resp = Idle.resp
        /\ walk'.copies = Idle.copies
    BY <2>1, <2>5, <2>6, <2>7, FieldsSet DEF WalkRecord
  <2>9. Calling(walk', nodes) /\ Opening(walk') /\ walk'.resp = <<>> /\ walk'.copies = <<>>
    BY <1>4, <2>5, <2>6, <2>8, IdleIs DEF Calling, Opening
  <2> DEFINE n == 2
  <2>10. /\ n \in {1, 2} /\ live' = Adding(live, Fresh(live, n))
         /\ walk'.request = <<Fresh(live, n)[1]>>
         /\ walk'.file_name = (IF n = 1 THEN <<>> ELSE <<Fresh(live, n)[2]>>)
    BY <2>1, <2>4, <2>8, <2>9 DEF new
  <2> HIDE DEF n
  <2> QED BY <1>1, <1>2, <1>4, <2>1, <2>8, <2>9, <2>10, CallBegins
<1> QED BY <1>3, <1>4

-----------------------------------------------------------------------------
(* A call ends.                                                             *)

(* A group of blocks changes hands, and blocks of others are freed.         *)
LEMMA Moved ==
  ASSUME NEW P, NEW Q, NEW used, NEW then, NEW from, NEW to, from # to,
         Separate(P), Blocks(P) \subseteq used, DOMAIN Q = DOMAIN P,
         from \in DOMAIN P, to \in DOMAIN P, Q[from] = <<>>, Q[to] = P[from],
         \A g \in DOMAIN P \ {from, to} : Q[g] = <<>> \/ Q[g] = P[g],
         \A b \in used \ then : \E g \in DOMAIN P \ {from} : b \in Range(P[g]) /\ Q[g] # P[g]
  PROVE  Separate(Q) /\ Blocks(Q) \subseteq then
<1> DEFINE Old(g) == IF g = to THEN from ELSE g
<1>1. DOMAIN <<>> = {}
  OBVIOUS
<1>2. ASSUME NEW g \in DOMAIN Q, NEW k \in DOMAIN Q[g]
      PROVE  g # from /\ Old(g) \in DOMAIN P /\ Q[g] = P[Old(g)] /\ k \in DOMAIN P[Old(g)]
  BY <1>1, <1>2
<1>3. ASSUME NEW g \in DOMAIN Q, NEW h \in DOMAIN Q,
             NEW k \in DOMAIN Q[g], NEW l \in DOMAIN Q[h], Q[g][k] = Q[h][l]
      PROVE  g = h /\ k = l
  <2>1. Old(g) = Old(h) /\ k = l
    <3> HIDE DEF Old
    <3> QED BY <1>2, <1>3 DEF Separate
  <2> QED BY <1>2, <2>1
<1>4. ASSUME NEW g \in DOMAIN Q, NEW k \in DOMAIN Q[g] PROVE Q[g][k] \in then
  <2>1. Q[g][k] \in used
    <3> HIDE DEF Old
    <3> QED BY <1>2 DEF Blocks, Range
  <2>2. SUFFICES ASSUME Q[g][k] \notin then PROVE FALSE
    OBVIOUS
  <2>3. PICK h \in DOMAIN P \ {from} : Q[g][k] \in Range(P[h]) /\ Q[h] # P[h]
    BY <2>1, <2>2
  <2>4. PICK l \in DOMAIN P[h] : P[h][l] = Q[g][k]
    BY <2>3 DEF Range
  <2>5. h = Old(g)
    <3> HIDE DEF Old
    <3> QED BY <1>2, <2>4 DEF Separate
  <2>6. g # to /\ h = g
    BY <2>3, <2>5
  <2> QED BY <1>2, <2>3, <2>6
<1> QED BY <1>3, <1>4 DEF Separate, Blocks, Range

LEMMA UnpackInv ==
  ASSUME VfsInv, Unpack
  PROVE  VfsInv'
<1>1. /\ walk.pc = "respond" /\ walk' = Idle /\ UNCHANGED <<stage, mounts, past>>
      /\ live' = live \ Range(walk.resp \o walk.resp \o walk.request)
      /\ result' = [path |-> walk.asked, names |-> walk.copies, held |-> TRUE, clean |-> walk.clean]
  BY DEF Unpack, Without
<1>2. /\ walk \in WalkRecord /\ RequestInv(walk, nodes) /\ stage = "up" /\ ~result.held
      /\ result.names = <<>>
  <2>1. walk \in WalkRecord /\ RequestInv(walk, nodes) /\ StageInv /\ ResultInv(result)
        /\ stage \in {"disks", "mbr", "mount", "up", "panic", "garbage"}
        /\ (stage \in {"panic", "garbage"} => Stopped)
    BY DEF VfsInv, VfsTyped
  <2> QED BY <1>1, <2>1 DEF StageInv, Stopped, ResultInv
<1>3. Calling(walk, nodes) /\ Responding(walk)
  BY <1>1, <1>2 DEF RequestInv
<1>4. /\ walk.path = walk.asked /\ walk.file_name = <<>> /\ walk.root = <<>> /\ walk.split = <<>>
      /\ walk.clean => Strings(walk.copies) = Names(Resolved(walk.asked))
  BY <1>3 DEF Calling, Responding
<1>5. /\ walk.asked \in Seq(STRING) /\ walk.copies \in Seq(Part) /\ walk.clean \in BOOLEAN
      /\ walk.request \in Seq(Numbers) /\ walk.resp \in Seq(Numbers)
  BY <1>2, WalkTypes
<1>6. /\ nodes' = nodes /\ prv_data' = prv_data /\ stage' = "up" /\ computer' = computer
      /\ RequestServer' = RequestServer /\ past' = past /\ partitions' = partitions
  BY <1>1, <1>2 DEF mounts
<1>7. live \in SUBSET Numbers /\ IsFiniteSet(live)
  BY DEF VfsInv, VfsTyped
<1>8. live' \in SUBSET Numbers /\ IsFiniteSet(live')
  BY <1>1, <1>7, FS_Difference
<1>9. result' \in ResultRecord /\ ResultInv(result')
  <2>1. /\ result'.path = walk.asked /\ result'.names = walk.copies /\ result'.held
        /\ result'.clean = walk.clean
    BY <1>1
  <2>2. result' \in ResultRecord
    BY <1>1, <1>5 DEF ResultRecord
  <2> QED BY <1>4, <2>1, <2>2 DEF ResultInv
<1>10. VfsTyped'
  BY <1>1, <1>6, <1>8, <1>9, IdleIs DEF VfsInv, VfsTyped
<1>11. RequestInv(walk, nodes)' /\ InStep(nodes, prv_data, RequestServer)'
  BY <1>1, <1>6, IdleIs DEF VfsInv, RequestInv
<1>12. StageInv' /\ StopsKnown' /\ stage' \notin {"panic", "garbage"}
  BY <1>1, <1>2, <1>6, IdleIs DEF VfsInv, StageInv, StopsKnown, FirstListed
<1> DEFINE P == Pointers
           Q == Pointers'
<1>13. /\ DOMAIN Q = DOMAIN P /\ DOMAIN P = 1..(8 + Len(prv_data)) /\ Len(prv_data) \in Nat
       /\ P[2] = walk.request /\ P[3] = <<>> /\ P[4] = <<>> /\ P[5] = <<>> /\ P[6] = walk.resp
       /\ P[8] = <<>> /\ Q[2] = <<>> /\ Q[3] = <<>> /\ Q[4] = <<>> /\ Q[5] = <<>> /\ Q[6] = <<>>
       /\ Q[7] = <<>> /\ Q[8] = P[7]
       /\ \A g \in DOMAIN P : g \notin 2..8 => Q[g] = P[g]
  <2>1. VfsTyped /\ UNCHANGED mounts
    BY <1>1 DEF VfsInv
  <2>2. result'.names = walk.copies
    BY <1>1
  <2> QED BY <1>1, <1>2, <1>4, <2>1, <2>2, CallPointers, NoPointers, IdleIs
<1>14. Separate(P) /\ Blocks(P) \subseteq live /\ (~past.missed /\ ~past.info => live \subseteq Blocks(P))
  BY DEF VfsInv, OwnInv, LossInv
<1>15. \A b : b \in Range(walk.resp \o walk.resp \o walk.request)
                 <=> b \in Range(walk.resp) \/ b \in Range(walk.request)
  <2>1. Range(walk.resp \o walk.resp) = Range(walk.resp) \cup Range(walk.resp)
        /\ walk.resp \o walk.resp \in Seq(Numbers)
    BY <1>5, RangeConcatenation, ConcatProperties
  <2> DEFINE twice == walk.resp \o walk.resp
  <2>3. twice \in Seq(Numbers) /\ walk.request \in Seq(Numbers)
    BY <1>5, <2>1
  <2>2. Range(twice \o walk.request) = Range(twice) \cup Range(walk.request)
    <3> HIDE DEF twice
    <3> QED BY <2>3, RangeConcatenation
  <2> QED BY <2>1, <2>2
<1>16. /\ 2 \in DOMAIN P /\ 6 \in DOMAIN P /\ 7 \in DOMAIN P /\ 8 \in DOMAIN P
  <2>1. /\ 2 \in 1..(8 + Len(prv_data)) /\ 6 \in 1..(8 + Len(prv_data))
        /\ 7 \in 1..(8 + Len(prv_data)) /\ 8 \in 1..(8 + Len(prv_data))
    BY <1>13
  <2> HIDE DEF P, Q
  <2> QED BY <1>13, <2>1
<1> HIDE DEF P, Q
<1>17. \A g \in 2..8 : g = 2 \/ g = 3 \/ g = 4 \/ g = 5 \/ g = 6 \/ g = 7 \/ g = 8
  OBVIOUS
<1>18. live' = live \ (Range(P[6]) \cup Range(P[2]))
  BY <1>1, <1>13, <1>15
<1>19. Range(<<>>) = {}
  BY DEF Range
<1>20. Separate(Q) /\ Blocks(Q) \subseteq live'
  <2>1. \A g \in DOMAIN P \ {7, 8} : Q[g] = <<>> \/ Q[g] = P[g]
    BY <1>13, <1>17
  <2>2. \A b \in live \ live' : \E g \in DOMAIN P \ {7} : b \in Range(P[g]) /\ Q[g] # P[g]
    <3> SUFFICES ASSUME NEW b \in live \ live'
                 PROVE  \E g \in DOMAIN P \ {7} : b \in Range(P[g]) /\ Q[g] # P[g]
      OBVIOUS
    <3>1. b \in Range(P[6]) \/ b \in Range(P[2])
      BY <1>18
    <3>2. CASE b \in Range(P[6])
      BY <1>13, <1>16, <1>19, <3>2
    <3>3. CASE b \in Range(P[2])
      BY <1>13, <1>16, <1>19, <3>3
    <3> QED BY <3>1, <3>2, <3>3
  <2> DEFINE from == 7
             to == 8
  <2>3. /\ from # to /\ DOMAIN Q = DOMAIN P /\ from \in DOMAIN P /\ to \in DOMAIN P
        /\ Q[from] = <<>> /\ Q[to] = P[from] /\ Separate(P) /\ Blocks(P) \subseteq live
    BY <1>13, <1>14, <1>16
  <2>4. \A g \in DOMAIN P \ {from, to} : Q[g] = <<>> \/ Q[g] = P[g]
    BY <2>1
  <2>5. \A b \in live \ live' : \E g \in DOMAIN P \ {from} : b \in Range(P[g]) /\ Q[g] # P[g]
    BY <2>2
  <2> HIDE DEF from, to
  <2> QED BY ONLY <2>3, <2>4, <2>5, Moved
<1>21. ~past'.missed /\ ~past'.info => live' \subseteq Blocks(Q)
  <2> SUFFICES ASSUME ~past.missed, ~past.info, NEW b \in live'
               PROVE  \E g \in DOMAIN Q : b \in Range(Q[g])
    BY <1>6 DEF Blocks
  <2>1. PICK g \in DOMAIN P : b \in Range(P[g])
    BY <1>14, <1>18 DEF Blocks
  <2>2. CASE g = 7
    BY <1>13, <1>16, <2>1, <2>2
  <2>3. CASE g # 7
    <3>1. g \notin 2..8
      BY <1>13, <1>17, <1>18, <1>19, <2>1, <2>3
    <3> QED BY <1>13, <2>1, <3>1
  <2> QED BY <2>2, <2>3
<1> QED BY <1>9, <1>10, <1>11, <1>12, <1>20, <1>21 DEF VfsInv, OwnInv, LossInv, Q

LEMMA ResultChanged ==
  ASSUME NEW A, NEW B, NEW C, NEW D, NEW r \in [path : A, names : B, held : C, clean : D],
         NEW names \in B, NEW held \in C
  PROVE  LET u == [r EXCEPT !.held = held, !.names = names]
         IN  u \in [path : A, names : B, held : C, clean : D] /\ u.held = held /\ u.names = names
  OBVIOUS

LEMMA FreeNamesInv ==
  ASSUME VfsInv, FreeNames
  PROVE  VfsInv'
<1>1. /\ result.held /\ UNCHANGED <<walk, stage, mounts, past>>
      /\ live' = live \ Range(PtrsOf(result.names))
      /\ result' = [result EXCEPT !.held = FALSE, !.names = <<>>]
  BY DEF FreeNames, Without
<1>2. /\ nodes' = nodes /\ prv_data' = prv_data /\ stage' = stage /\ computer' = computer
      /\ RequestServer' = RequestServer /\ past' = past /\ partitions' = partitions
      /\ walk' = walk
  BY <1>1 DEF mounts
<1>3. stage = "up" /\ walk.pc = "idle"
  <2>1. StageInv /\ stage \in {"disks", "mbr", "mount", "up", "panic", "garbage"}
        /\ (stage \in {"panic", "garbage"} => Stopped)
    BY DEF VfsInv, VfsTyped
  <2> QED BY <1>1, <2>1 DEF StageInv, Stopped
<1>4. live \in SUBSET Numbers /\ IsFiniteSet(live)
  BY DEF VfsInv, VfsTyped
<1>5. live' \in SUBSET Numbers /\ IsFiniteSet(live')
  BY <1>1, <1>4, FS_Difference
<1>6. result' \in ResultRecord /\ ~result'.held /\ result'.names = <<>>
  <2>1. result \in ResultRecord /\ <<>> \in Seq(Part) /\ FALSE \in BOOLEAN
    BY DEF VfsInv, VfsTyped
  <2> QED BY <1>1, <2>1, ResultChanged DEF ResultRecord
<1>7. VfsTyped'
  BY <1>2, <1>5, <1>6 DEF VfsInv, VfsTyped
<1>8. RequestInv(walk, nodes)' /\ ResultInv(result)' /\ InStep(nodes, prv_data, RequestServer)'
  BY <1>2, <1>6 DEF VfsInv, ResultInv
<1>9. StageInv' /\ StopsKnown' /\ stage' \notin {"panic", "garbage"}
  BY <1>2, <1>3, <1>6 DEF VfsInv, StageInv, StopsKnown, FirstListed
<1> DEFINE P == Pointers
           Q == Pointers'
<1>10. /\ DOMAIN Q = DOMAIN P /\ P[8] = PtrsOf(result.names) /\ Q[8] = <<>> /\ 8 \in DOMAIN P
       /\ \A g \in DOMAIN P : g # 8 => Q[g] = P[g]
  <2>1. VfsTyped /\ UNCHANGED mounts
    BY <1>1 DEF VfsInv
  <2>2. /\ DOMAIN P = 1..(8 + Len(prv_data)) /\ DOMAIN Q = DOMAIN P /\ Len(prv_data) \in Nat
        /\ P[8] = PtrsOf(result.names) /\ Q[8] = <<>>
        /\ P[2] = Q[2] /\ P[3] = Q[3] /\ P[4] = Q[4] /\ P[5] = Q[5] /\ P[6] = Q[6] /\ P[7] = Q[7]
        /\ \A g \in DOMAIN P : g \notin 2..8 => Q[g] = P[g]
    BY <1>2, <1>6, <2>1, CallPointers, NoPointers
  <2>3. \A g \in 2..8 : g = 2 \/ g = 3 \/ g = 4 \/ g = 5 \/ g = 6 \/ g = 7 \/ g = 8
    OBVIOUS
  <2>4. 8 \in 1..(8 + Len(prv_data))
    BY <2>2
  <2> HIDE DEF P, Q
  <2> QED BY <2>2, <2>3, <2>4
<1>11. Separate(P) /\ Blocks(P) \subseteq live /\ (~past.missed /\ ~past.info => live \subseteq Blocks(P))
  BY DEF VfsInv, OwnInv, LossInv
<1> HIDE DEF P, Q
<1>12. Range(<<>>) = {} /\ DOMAIN <<>> = {}
  BY DEF Range
<1>13. Separate(Q) /\ Blocks(Q) \subseteq live'
  <2>1. \A g \in DOMAIN Q : (\A k \in DOMAIN Q[g] : FALSE) \/ (g \in DOMAIN P /\ Q[g] = P[g])
    BY <1>10, <1>12
  <2>2. \A b \in live \ live' : \E g \in DOMAIN P : b \in Range(P[g]) /\ Gone(g, P, Q)
    <3>1. \A b \in live \ live' : b \in Range(P[8]) /\ P[8] # <<>>
      BY <1>1, <1>10, <1>12
    <3> QED BY <1>10, <3>1 DEF Gone
  <2> QED BY <1>11, <2>1, <2>2, OnlyDropped
<1>14. ~past'.missed /\ ~past'.info => live' \subseteq Blocks(Q)
  <2>1. live' \ live = {}
    BY <1>1
  <2>2. \A g \in DOMAIN P : Gone(g, P, Q) => \A b \in Range(P[g]) : b \notin live'
    BY <1>1, <1>10 DEF Gone
  <2> QED BY <1>2, <1>11, <2>1, <2>2, NoneLost
<1> QED BY <1>7, <1>8, <1>9, <1>13, <1>14 DEF VfsInv, OwnInv, LossInv, Q

-----------------------------------------------------------------------------
(* The start, and the partitions.                                           *)

LEMMA AllEmpty ==
  ASSUME NEW P, \A g \in DOMAIN P : P[g] = <<>>, NEW used
  PROVE  Separate(P) /\ Blocks(P) \subseteq used
<1>1. DOMAIN <<>> = {} /\ Range(<<>>) = {}
  BY DEF Range
<1> QED BY <1>1 DEF Separate, Blocks

LEMMA InitInv ==
  ASSUME VfsInit
  PROVE  VfsInv
<1>1. /\ computer \in Computers /\ live = {} /\ walk = Idle /\ stage = "disks"
      /\ partitions = <<>> /\ nodes = <<>> /\ prv_data = <<>> /\ RequestServer = <<>>
      /\ result = [path |-> <<>>, names |-> <<>>, held |-> FALSE, clean |-> TRUE]
      /\ past = [calls |-> 0, missed |-> FALSE, info |-> FALSE, path |-> RootPath]
  BY DEF VfsInit
<1>2. MaxCalls \in Nat /\ MaxNodes \in Nat
  BY BoundsAssumption
<1>3. VfsTyped
  <2>1. IsFiniteSet({})
    BY FS_EmptySet
  <2>2. past \in PastRecord(0 .. MaxCalls)
    BY <1>1, <1>2, RootPathType DEF PastRecord
  <2>3. result \in ResultRecord
    BY <1>1 DEF ResultRecord
  <2>4. /\ partitions \in Seq(PartitionRecord) /\ nodes \in Seq(NodeRecord)
        /\ prv_data \in Seq(Seq(Numbers)) /\ RequestServer \in Seq({"ext2"})
    BY <1>1
  <2> QED BY <1>1, <2>1, <2>2, <2>3, <2>4, IdleIs DEF VfsTyped
<1>4. RequestInv(walk, nodes) /\ ResultInv(result)
  BY <1>1, IdleIs DEF RequestInv, ResultInv
<1>5. InStep(nodes, prv_data, RequestServer)
  BY <1>1, <1>2 DEF InStep
<1>6. StageInv /\ StopsKnown /\ stage \notin {"panic", "garbage"}
  BY <1>1, IdleIs DEF StageInv, StopsKnown
<1> DEFINE P == Pointers
<1>7. \A g \in DOMAIN P : P[g] = <<>>
  <2>1. PartitionBlocks = <<>>
    <3>1. 1..(2 * Len(<<>>)) = {}
      OBVIOUS
    <3> QED BY <1>1, <3>1 DEF PartitionBlocks
  <2>2. result.names = <<>>
    BY <1>1
  <2>3. P = Groups(<<>>, <<>>, <<>>, <<>>, <<>>, <<>>, <<>>, <<>>, prv_data)
    BY <1>1, <2>1, <2>2, IdleIs, NoPointers DEF Pointers, Groups
  <2>4. prv_data \in Seq(Seq(Numbers)) /\ Len(prv_data) = 0
    BY <1>1
  <2> HIDE DEF P
  <2>5. /\ DOMAIN P = 1..8 /\ P[1] = <<>> /\ P[2] = <<>> /\ P[3] = <<>> /\ P[4] = <<>>
        /\ P[5] = <<>> /\ P[6] = <<>> /\ P[7] = <<>> /\ P[8] = <<>>
    <3> DEFINE e == <<>>
               T == Seq(Numbers)
    <3>1. P = Groups(e, e, e, e, e, e, e, e, prv_data) /\ prv_data \in Seq(T)
      BY <2>3, <2>4
    <3> HIDE DEF e, T
    <3>2. /\ DOMAIN P = 1..(8 + Len(prv_data)) /\ P[1] = e /\ P[2] = e /\ P[3] = e /\ P[4] = e
          /\ P[5] = e /\ P[6] = e /\ P[7] = e /\ P[8] = e
      BY ONLY <3>1, GroupsAre
    <3> QED BY <2>4, <3>2 DEF e
  <2>6. \A g \in 1..8 : g = 1 \/ g = 2 \/ g = 3 \/ g = 4 \/ g = 5 \/ g = 6 \/ g = 7 \/ g = 8
    OBVIOUS
  <2> QED BY <2>5, <2>6
<1>8. Separate(P) /\ Blocks(P) \subseteq live
  <2> HIDE DEF P
  <2> QED BY <1>7, AllEmpty
<1> QED BY <1>1, <1>3, <1>4, <1>5, <1>6, <1>8 DEF VfsInv, OwnInv, LossInv

(* The pointers import_disk_partitions leaves in the vector are the blocks  *)
(* it allocated, two for each entry.                                        *)
Pairs(n, new, kinds) ==
    [k \in 1..n |-> [kind |-> kinds[k], block |-> new[2 * k - 1], disk |-> new[2 * k]]]
Unpaired(n, ps) ==
    [k \in 1..(2 * n) |-> IF k % 2 = 1 THEN ps[(k + 1) \div 2].block ELSE ps[k \div 2].disk]

LEMMA PairsAre ==
  ASSUME NEW n \in Nat, NEW new \in [1..(2 * n) -> Numbers], NEW kinds
  PROVE  Len(Pairs(n, new, kinds)) = n /\ Unpaired(n, Pairs(n, new, kinds)) = new
<1> DEFINE ps == [k \in 1..n |-> [kind |-> kinds[k], block |-> new[2 * k - 1], disk |-> new[2 * k]]]
<1>1. ASSUME NEW k \in 1..(2 * n)
      PROVE  (IF k % 2 = 1 THEN ps[(k + 1) \div 2].block ELSE ps[k \div 2].disk) = new[k]
  <2>1. CASE k % 2 = 1
    <3>1. (k + 1) \div 2 \in 1..n /\ 2 * ((k + 1) \div 2) - 1 = k
      BY <2>1
    <3>2. ps[(k + 1) \div 2].block = new[2 * ((k + 1) \div 2) - 1]
      BY <3>1
    <3> QED BY <2>1, <3>1, <3>2
  <2>2. CASE k % 2 # 1
    <3>1. k \div 2 \in 1..n /\ 2 * (k \div 2) = k
      BY <2>2
    <3>2. ps[k \div 2].disk = new[2 * (k \div 2)]
      BY <3>1
    <3> QED BY <2>2, <3>1, <3>2
  <2> QED BY <2>1, <2>2
<1>2. Len(ps) = n
  OBVIOUS
<1> HIDE DEF ps
<1>3. [k \in 1..(2 * n) |->
         IF k % 2 = 1 THEN ps[(k + 1) \div 2].block ELSE ps[k \div 2].disk] = new
  BY <1>1
<1> QED BY <1>2, <1>3 DEF ps, Pairs, Unpaired

LEMMA ImportPartitionsInv ==
  ASSUME VfsInv, ImportPartitions
  PROVE  VfsInv'
<1> DEFINE used == {k \in 1..4 : computer.table[k] # "none"}
           n == Cardinality(used)
           kinds == [k \in 1..n |-> computer.table[Nth(used, k)]]
           new == Fresh(live, 2 * n)
<1>1. n \in Nat /\ Len(kinds) = n /\ \A k \in 1..n : kinds[k] \in PartitionKind
  <2>1. used \in SUBSET (1..4) /\ 4 \in Nat
    OBVIOUS
  <2>2. IsFiniteSet(1..4)
    <3> DEFINE first == 1
               last == 4
    <3>1. first \in Int /\ last \in Int
      OBVIOUS
    <3>2. IsFiniteSet(first..last)
      <4> HIDE DEF first, last
      <4> QED BY <3>1, FS_Interval
    <3> QED BY <3>2
  <2>3. n \in Nat
    <3> HIDE DEF used
    <3> QED BY <2>1, <2>2, FS_Subset, FS_CardinalityType
  <2>4. computer.table \in [1..4 -> PartitionKind]
    BY ComputersAssumption DEF VfsInv, VfsTyped
  <2>5. \A k \in 1..n : Nth(used, k) \in 1..4
    <3> DEFINE m == 4
    <3>1. m \in Nat /\ used \in SUBSET (1..m)
      BY <2>1
    <3>2. \A k \in 1..Cardinality(used) : Nth(used, k) \in used
      <4> HIDE DEF m, used
      <4> QED BY <3>1, NthExists
    <3> QED BY <2>1, <3>2
  <2> HIDE DEF used
  <2> QED BY <2>3, <2>4, <2>5
<1>2. /\ stage = "mbr" /\ stage' = "mount"
      /\ UNCHANGED <<walk, computer, nodes, prv_data, RequestServer, result, past>>
      /\ partitions' = [k \in 1..n |->
                          [kind |-> kinds[k], block |-> new[2 * k - 1], disk |-> new[2 * k]]]
      /\ live' = Adding(live, new)
  <2> HIDE DEF used
  <2>1. Len([k \in 1 .. Cardinality(used) |-> computer.table[Nth(used, k)]]) = Cardinality(used)
    BY <1>1
  <2> QED BY <2>1 DEF ImportPartitions, used
<1>3. /\ walk.pc = "idle" /\ ~result.held /\ nodes = <<>> /\ partitions = <<>>
  BY <1>2 DEF VfsInv, StageInv
<1>4. live \in SUBSET Numbers /\ IsFiniteSet(live)
  BY DEF VfsInv, VfsTyped
<1>5. 2 * n \in Nat
  BY <1>1
<1> HIDE DEF kinds, n
<1>6. /\ new \in Seq(Numbers) /\ DOMAIN new = 1..(2 * n)
      /\ \A k \in 1..(2 * n) : new[k] \in Numbers \ live
      /\ \A k, l \in 1..(2 * n) : new[k] = new[l] => k = l
      /\ new = [k \in 1..(2 * n) |-> new[k]]
  <2> DEFINE m == 2 * n
  <2>1. m \in Nat
    BY <1>5
  <2> HIDE DEF m
  <2>2. /\ Fresh(live, m) \in Seq(Numbers) /\ DOMAIN Fresh(live, m) = 1..m
        /\ \A k \in 1..m : Fresh(live, m)[k] \in Numbers \ live
        /\ \A k, l \in 1..m : Fresh(live, m)[k] = Fresh(live, m)[l] => k = l
    BY <1>4, <2>1, FreshBlocks
  <2>3. Fresh(live, m) = [k \in 1..m |-> Fresh(live, m)[k]]
    BY <2>2 DEF Fresh
  <2> QED BY <2>2, <2>3 DEF m
<1> HIDE DEF new
<1>7. live' \in SUBSET Numbers /\ IsFiniteSet(live') /\ live' = live \cup Range(new)
  BY <1>2, <1>4, <1>6, BlocksFinite DEF Adding
<1>8. /\ Len(partitions') = n
      /\ [k \in 1..(2 * n) |->
            IF k % 2 = 1 THEN partitions'[(k + 1) \div 2].block ELSE partitions'[k \div 2].disk] = new
  <2>1. partitions' = Pairs(n, new, kinds)
    BY <1>2 DEF Pairs
  <2>2. new \in [1..(2 * n) -> Numbers]
    BY <1>6
  <2>3. Len(Pairs(n, new, kinds)) = n /\ Unpaired(n, Pairs(n, new, kinds)) = new
    BY <1>1, <2>2, PairsAre
  <2> QED BY <2>1, <2>3 DEF Unpaired
<1>9. PartitionBlocks' = new
  BY <1>8 DEF PartitionBlocks
<1>10. partitions' \in Seq(PartitionRecord)
  <2>1. \A k \in 1..n : 2 * k - 1 \in 1..(2 * n) /\ 2 * k \in 1..(2 * n)
    BY <1>1
  <2>2. partitions' \in [1..n -> PartitionRecord]
    BY <1>1, <1>2, <1>6, <2>1 DEF PartitionRecord
  <2> QED BY <1>1, <2>2
<1>11. VfsTyped'
  BY <1>2, <1>7, <1>10 DEF VfsInv, VfsTyped
<1>12. RequestInv(walk, nodes)' /\ ResultInv(result)' /\ InStep(nodes, prv_data, RequestServer)'
  BY <1>2 DEF VfsInv
<1>13. StageInv' /\ StopsKnown' /\ stage' \notin {"panic", "garbage"}
  BY <1>2, <1>3 DEF VfsInv, StageInv, StopsKnown
<1> DEFINE P == Pointers
           Q == Pointers'
           F == {1}
<1>14. /\ DOMAIN Q = DOMAIN P /\ 1 \in DOMAIN P /\ Q[1] = new /\ P[1] = <<>>
       /\ \A g \in DOMAIN P : g \notin F => Q[g] = P[g]
  <2>1. prv_data \in Seq(Seq(Numbers)) /\ prv_data' = prv_data
    BY <1>2 DEF VfsInv, VfsTyped
  <2>2. /\ walk' = walk /\ result' = result
    BY <1>2
  <2>3. /\ DOMAIN P = 1..(8 + Len(prv_data)) /\ DOMAIN Q = DOMAIN P /\ Len(prv_data) \in Nat
        /\ P[1] = PartitionBlocks /\ Q[1] = new
        /\ P[2] = Q[2] /\ P[3] = Q[3] /\ P[4] = Q[4] /\ P[5] = Q[5] /\ P[6] = Q[6] /\ P[7] = Q[7]
        /\ P[8] = Q[8] /\ \A k \in 1..Len(prv_data) : Q[8 + k] = P[8 + k]
    BY <1>9, <2>1, <2>2, StepPointers
  <2>4. PartitionBlocks = <<>>
    <3>1. 1..(2 * Len(<<>>)) = {}
      OBVIOUS
    <3> QED BY <1>3, <3>1 DEF PartitionBlocks
  <2> HIDE DEF P, Q
  <2>5. \A g \in DOMAIN P : g = 1 \/ g = 2 \/ g = 3 \/ g = 4 \/ g = 5 \/ g = 6 \/ g = 7 \/ g = 8
                             \/ (g - 8 \in 1..Len(prv_data) /\ g = 8 + (g - 8))
    BY <2>3
  <2>6. ASSUME NEW g \in DOMAIN P, g \notin F PROVE Q[g] = P[g]
    BY <2>3, <2>5, <2>6
  <2>7. 1 \in 1..(8 + Len(prv_data))
    BY <2>3
  <2> QED BY <2>3, <2>4, <2>6, <2>7
<1>15. Separate(P) /\ Blocks(P) \subseteq live /\ (~past.missed /\ ~past.info => live \subseteq Blocks(P))
  BY DEF VfsInv, OwnInv, LossInv
<1> HIDE DEF P, Q
<1>16. Separate(Q) /\ Blocks(Q) \subseteq live'
  <2>1. \A g \in DOMAIN Q \ F : (\A k \in DOMAIN Q[g] : FALSE) \/ (g \in DOMAIN P /\ Q[g] = P[g])
    BY <1>14
  <2>2. \A g \in DOMAIN Q \cap F : \A k \in DOMAIN Q[g] : Q[g][k] \in live' \ live
    BY <1>6, <1>7, <1>14 DEF Range
  <2>3. \A g, h \in DOMAIN Q \cap F : \A k \in DOMAIN Q[g], l \in DOMAIN Q[h] :
          Q[g][k] = Q[h][l] => g = h /\ k = l
    BY <1>6, <1>14
  <2>4. \A b \in live \ live' : \E g \in DOMAIN P : b \in Range(P[g]) /\ (Gone(g, P, Q) \/ g \in F)
    BY <1>7
  <2> HIDE DEF F
  <2> QED BY ONLY <1>15, <2>1, <2>2, <2>3, <2>4, Regrouped
<1>17. ~past'.missed /\ ~past'.info => live' \subseteq Blocks(Q)
  <2>1. \A b \in live' \ live : \E g \in DOMAIN Q : b \in Range(Q[g])
    BY <1>7, <1>14
  <2>2. \A g \in DOMAIN P : Gone(g, P, Q) => \A b \in Range(P[g]) : b \notin live'
    <3>1. Range(<<>>) = {}
      BY DEF Range
    <3> QED BY <1>14, <3>1 DEF Gone
  <2>3. past' = past
    BY <1>2
  <2> QED BY <1>15, <2>1, <2>2, <2>3, NoneLost
<1> QED BY <1>11, <1>12, <1>13, <1>16, <1>17 DEF VfsInv, OwnInv, LossInv, Q

-----------------------------------------------------------------------------
(* A node is mounted.                                                       *)

LEMMA Appended ==
  ASSUME NEW S, NEW s \in Seq(S), NEW x \in S
  PROVE  /\ Append(s, x) \in Seq(S) /\ Len(s) \in Nat /\ Len(Append(s, x)) = Len(s) + 1
         /\ Append(s, x)[Len(s) + 1] = x /\ \A k \in 1..Len(s) : Append(s, x)[k] = s[k]
OBVIOUS

LEMMA AddNodeInv ==
  ASSUME VfsInv, walk.pc = "idle", ~result.held, Len(nodes) < MaxNodes,
         NEW i \in 1..Len(partitions), AddNode(partitions[i]),
         UNCHANGED <<walk, computer, partitions, result>>, stage' = "up",
         past' \in PastRecord(0 .. MaxCalls),
         past'.missed = past.missed, past.info => past'.info
  PROVE  VfsInv'
<1> DEFINE p == partitions[i]
           count == 1 + Kept(p)
           new == Fresh(live, count)
           node == [partition |-> p.kind, index |-> Len(nodes)]
<1>1. /\ RequestServer' = Append(RequestServer, "ext2") /\ prv_data' = Append(prv_data, new)
      /\ nodes' = Append(nodes, node) /\ live' = Adding(live, new)
  BY DEF AddNode, NodeIndex
<1>2. /\ walk' = walk /\ computer' = computer /\ partitions' = partitions /\ result' = result
  OBVIOUS
<1>3. /\ live \in SUBSET Numbers /\ IsFiniteSet(live) /\ partitions \in Seq(PartitionRecord)
      /\ nodes \in Seq(NodeRecord) /\ prv_data \in Seq(Seq(Numbers))
      /\ RequestServer \in Seq({"ext2"})
  BY DEF VfsInv, VfsTyped
<1>4. p \in PartitionRecord
  BY <1>3, ElementOfSeq
<1>5. count \in Nat /\ count = (IF Signature(p.kind) THEN 3 ELSE 1)
  BY DEF Kept
<1> HIDE DEF count
<1>6. /\ new \in Seq(Numbers) /\ DOMAIN new = 1..count /\ Len(new) = count
      /\ \A k \in 1..count : new[k] \in Numbers \ live
      /\ \A k, l \in 1..count : new[k] = new[l] => k = l
  <2>1. count \in Nat
    BY <1>5
  <2> QED BY <1>3, <2>1, FreshBlocks
<1> HIDE DEF new
<1>7. live' \in SUBSET Numbers /\ IsFiniteSet(live') /\ live' = live \cup Range(new)
  BY <1>1, <1>3, <1>6, BlocksFinite DEF Adding
<1>8. node \in NodeRecord /\ node.partition = p.kind /\ node.index = Len(nodes)
  <2>1. Len(nodes) \in Nat
    BY <1>3
  <2> HIDE DEF p
  <2> QED BY <1>4, <2>1 DEF NodeRecord, PartitionRecord
<1> HIDE DEF node
<1>9. /\ nodes' \in Seq(NodeRecord) /\ Len(nodes) \in Nat /\ Len(nodes') = Len(nodes) + 1
      /\ nodes'[Len(nodes) + 1] = node /\ \A k \in 1..Len(nodes) : nodes'[k] = nodes[k]
  BY <1>1, <1>3, <1>8, Appended
<1>10. /\ prv_data' \in Seq(Seq(Numbers)) /\ Len(prv_data) \in Nat
       /\ Len(prv_data') = Len(prv_data) + 1 /\ prv_data'[Len(prv_data) + 1] = new
       /\ \A k \in 1..Len(prv_data) : prv_data'[k] = prv_data[k]
  <2> DEFINE T == Seq(Numbers)
  <2>1. prv_data \in Seq(T) /\ new \in T
    BY <1>3, <1>6
  <2> HIDE DEF T
  <2>2. /\ prv_data' \in Seq(T) /\ Len(prv_data) \in Nat
        /\ Len(prv_data') = Len(prv_data) + 1 /\ prv_data'[Len(prv_data) + 1] = new
        /\ \A k \in 1..Len(prv_data) : prv_data'[k] = prv_data[k]
    BY <1>1, <2>1, Appended
  <2> QED BY <2>2 DEF T
<1>11. RequestServer' \in Seq({"ext2"}) /\ Len(RequestServer') = Len(RequestServer) + 1
  BY <1>1, <1>3, Appended
<1>12. VfsTyped'
  BY <1>2, <1>7, <1>9, <1>10, <1>11 DEF VfsInv, VfsTyped
<1>13. RequestInv(walk, nodes)' /\ ResultInv(result)'
  BY <1>2 DEF VfsInv, RequestInv
<1>14. InStep(nodes, prv_data, RequestServer)'
  <2>1. InStep(nodes, prv_data, RequestServer)
    BY DEF VfsInv
  <2>2. Len(nodes') = Len(prv_data') /\ Len(nodes') = Len(RequestServer')
    BY <1>9, <1>10, <1>11, <2>1 DEF InStep
  <2>3. Len(nodes') <= MaxNodes
    BY <1>9, BoundsAssumption
  <2>4. ASSUME NEW k \in DOMAIN nodes'
        PROVE  /\ nodes'[k].index = k - 1
               /\ Len(prv_data'[k]) = (IF Signature(nodes'[k].partition) THEN 3 ELSE 1)
    <3>1. k \in 1..(Len(nodes) + 1)
      BY <1>9
    <3>2. CASE k \in 1..Len(nodes)
      <4>1. k \in DOMAIN nodes /\ k \in 1..Len(prv_data)
        BY <1>3, <2>1, <3>2 DEF InStep
      <4> QED BY <1>9, <1>10, <2>1, <3>2, <4>1 DEF InStep
    <3>3. CASE k = Len(nodes) + 1
      <4>1. nodes'[k] = node /\ prv_data'[k] = new /\ k - 1 = Len(nodes)
        BY <1>9, <1>10, <2>1, <3>3 DEF InStep
      <4> QED BY <1>5, <1>6, <1>8, <4>1
    <3> QED BY <1>9, <3>1, <3>2, <3>3
  <2> QED BY <2>2, <2>3, <2>4 DEF InStep
<1>15. StageInv' /\ StopsKnown' /\ stage' \notin {"panic", "garbage"}
  <2>1. nodes' # <<>>
    <3>1. Len(nodes') # 0
      BY <1>9
    <3> QED BY <3>1
  <2> QED BY <1>2, <2>1 DEF VfsInv, StageInv, StopsKnown
<1> DEFINE P == Pointers
           Q == Pointers'
           m == 8 + Len(prv_data) + 1
           F == {m}
<1>16. /\ m \in DOMAIN Q /\ Q[m] = new /\ \A g \in DOMAIN P : g # m /\ g \in DOMAIN Q /\ Q[g] = P[g]
       /\ \A g \in DOMAIN Q : g # m => g \in DOMAIN P
  <2>1. PartitionBlocks' = PartitionBlocks
    BY <1>2 DEF PartitionBlocks
  <2>2. /\ DOMAIN P = 1..(8 + Len(prv_data)) /\ DOMAIN Q = 1..(8 + Len(prv_data'))
        /\ Len(prv_data) \in Nat
        /\ P[1] = Q[1] /\ P[2] = Q[2] /\ P[3] = Q[3] /\ P[4] = Q[4] /\ P[5] = Q[5] /\ P[6] = Q[6]
        /\ P[7] = Q[7] /\ P[8] = Q[8] /\ \A k \in 1..Len(prv_data) : P[8 + k] = prv_data[k]
        /\ \A k \in 1..Len(prv_data') : Q[8 + k] = prv_data'[k]
    BY <1>2, <1>3, <1>10, <2>1, StepPointers
  <2> DEFINE c == Len(prv_data)
  <2>9. c \in Nat /\ m = 8 + c + 1 /\ Len(prv_data') = c + 1
        /\ DOMAIN P = 1..(8 + c) /\ DOMAIN Q = 1..(8 + (c + 1)) /\ prv_data'[c + 1] = new
    BY <1>10, <2>2
  <2> HIDE DEF P, Q, c, m
  <2>3. /\ DOMAIN Q = 1..m /\ m \in 1..m
        /\ \A g \in DOMAIN P : g # m /\ g \in 1..m
        /\ \A g \in 1..m : g # m => g \in DOMAIN P
    BY <2>9
  <2>4. Q[m] = new
    <3>1. m = 8 + (c + 1) /\ c + 1 \in 1..Len(prv_data')
      BY <2>9
    <3> QED BY <2>2, <2>9, <3>1
  <2>5. \A g \in DOMAIN P : g = 1 \/ g = 2 \/ g = 3 \/ g = 4 \/ g = 5 \/ g = 6 \/ g = 7 \/ g = 8
                             \/ (g - 8 \in 1..Len(prv_data) /\ g = 8 + (g - 8))
    <3>1. \A g \in 1..(8 + c) : g = 1 \/ g = 2 \/ g = 3 \/ g = 4 \/ g = 5 \/ g = 6 \/ g = 7 \/ g = 8
                                 \/ (g - 8 \in 1..c /\ g = 8 + (g - 8))
      BY <2>9
    <3> QED BY <2>9, <3>1 DEF c
  <2>6. \A k \in 1..Len(prv_data) : k \in 1..Len(prv_data')
    BY <1>10
  <2>7. \A k \in 1..Len(prv_data) : Q[8 + k] = P[8 + k]
    BY <1>10, <2>2, <2>6
  <2>8. \A g \in DOMAIN P : Q[g] = P[g]
    BY <2>2, <2>5, <2>7
  <2> QED BY <2>3, <2>4, <2>8
<1>17. Separate(P) /\ Blocks(P) \subseteq live /\ (~past.missed /\ ~past.info => live \subseteq Blocks(P))
  BY DEF VfsInv, OwnInv, LossInv
<1> HIDE DEF P, Q, m
<1>18. Separate(Q) /\ Blocks(Q) \subseteq live'
  <2>1. \A g \in DOMAIN Q \ F : (\A k \in DOMAIN Q[g] : FALSE) \/ (g \in DOMAIN P /\ Q[g] = P[g])
    BY <1>16
  <2>2. \A g \in DOMAIN Q \cap F : \A k \in DOMAIN Q[g] : Q[g][k] \in live' \ live
    BY <1>6, <1>7, <1>16 DEF Range
  <2>3. \A g, h \in DOMAIN Q \cap F : \A k \in DOMAIN Q[g], l \in DOMAIN Q[h] :
          Q[g][k] = Q[h][l] => g = h /\ k = l
    BY <1>6, <1>16
  <2>4. \A b \in live \ live' : \E g \in DOMAIN P : b \in Range(P[g]) /\ (Gone(g, P, Q) \/ g \in F)
    BY <1>7
  <2> HIDE DEF F
  <2> QED BY ONLY <1>17, <2>1, <2>2, <2>3, <2>4, Regrouped
<1>19. ~past'.missed /\ ~past'.info => live' \subseteq Blocks(Q)
  <2>1. \A b \in live' \ live : \E g \in DOMAIN Q : b \in Range(Q[g])
    BY <1>7, <1>16
  <2>2. \A g \in DOMAIN P : Gone(g, P, Q) => \A b \in Range(P[g]) : b \notin live'
    BY <1>16 DEF Gone
  <2> QED BY <1>17, <2>1, <2>2, NoneLost
<1> QED BY <1>12, <1>13, <1>14, <1>15, <1>18, <1>19 DEF VfsInv, OwnInv, LossInv, Q

LEMMA MountInv ==
  ASSUME VfsInv, Mount
  PROVE  VfsInv'
<1>1. /\ stage = "mount" /\ stage' = "up" /\ UNCHANGED <<walk, computer, partitions, result, past>>
  BY DEF Mount
<1>2. /\ walk.pc = "idle" /\ ~result.held /\ nodes = <<>>
  BY <1>1 DEF VfsInv, StageInv
<1>3. /\ past' = past /\ past \in PastRecord(0 .. MaxCalls)
      /\ partitions \in Seq(PartitionRecord) /\ partitions' = partitions /\ walk' = walk
      /\ result' = result
  BY <1>1 DEF VfsInv, VfsTyped
<1>4. CASE \E i \in 1..Len(partitions) : LinuxType(partitions[SlotRead(i)].kind)
  <2>1. AddNode(partitions[1])
    BY <1>4 DEF Mount, SlotRead
  <2>2. Len(partitions) \in Nat /\ 1..Len(partitions) # {}
    BY <1>3, <1>4
  <2>3. 1 \in 1..Len(partitions)
    BY <2>2
  <2>4. Len(nodes) < MaxNodes
    BY <1>2, BoundsAssumption
  <2> QED BY <1>1, <1>2, <1>3, <2>1, <2>3, <2>4, AddNodeInv
<1>5. CASE ~ \E i \in 1..Len(partitions) : LinuxType(partitions[SlotRead(i)].kind)
  <2>1. UNCHANGED <<live, nodes, prv_data, RequestServer>>
    BY <1>5 DEF Mount
  <2>2. partitions = <<>> \/ ~LinuxType(FirstListed)
    <3> SUFFICES ASSUME partitions # <<>> PROVE ~LinuxType(partitions[1].kind)
      BY DEF FirstListed
    <3>1. 1 \in 1..Len(partitions)
      BY <1>3
    <3> QED BY <1>5, <3>1 DEF SlotRead
  <2>3. StageInv'
    BY <1>1, <1>2, <1>3, <2>2 DEF VfsInv, StageInv, FirstListed
  <2>4. StopsKnown' /\ stage' \notin {"panic", "garbage"}
    BY <1>1 DEF StopsKnown
  <2>5. UNCHANGED <<live, walk, mounts, result>>
    BY <1>1, <2>1 DEF mounts
  <2> QED BY <1>1, <1>3, <2>3, <2>4, <2>5, SameBlocks
<1> QED BY <1>4, <1>5

LEMMA AddAnotherInv ==
  ASSUME VfsInv, NEW k \in 1..Len(partitions), AddAnother(k)
  PROVE  VfsInv'
<1>1. /\ stage = "up" /\ walk.pc = "idle" /\ ~result.held /\ past.calls < MaxCalls
      /\ Len(nodes) < MaxNodes /\ AddNode(partitions[k]) /\ past' = Counted /\ stage' = "up"
      /\ UNCHANGED <<walk, computer, partitions, result>>
  BY DEF AddAnother, Callable
<1>2. /\ past' \in PastRecord(0 .. MaxCalls)
      /\ past'.missed = past.missed /\ past'.info = past.info
  BY <1>1, RootPathType, CountedType
<1> QED BY <1>1, <1>2, AddNodeInv

-----------------------------------------------------------------------------
(* Each step keeps the invariant.                                           *)

LEMMA StepInv ==
  ASSUME VfsInv, [VfsNext]_vfsVars
  PROVE  VfsInv'
<1>1. ASSUME NEW path \in Paths, ListEntires(path) \/ GetFileInfo(path) PROVE VfsInv'
  BY <1>1, ListEntiresInv, GetFileInfoInv
<1>2. ASSUME NEW k \in 1..Len(partitions), AddAnother(k) PROVE VfsInv'
  BY <1>2, AddAnotherInv
<1>3. ASSUME UNCHANGED vfsVars PROVE VfsInv'
  BY <1>3, StutterInv
<1> QED BY <1>1, <1>2, <1>3, GetDiskInv, ImportPartitionsInv, MountInv, WalkInv, UnpackInv,
           FreeNamesInv, RemoveNodeInv DEF VfsNext

LEMMA AlwaysVfsInv == VfsSpec => []VfsInv
BY InitInv, StepInv, PTL DEF VfsSpec

(* Each block on the heap is freed once, by its owner, whatever partitions  *)
(* a disk has and whatever is listed, looked up or mounted in which order:  *)
(* no pointer that the vectors, the walk or the caller still hold is to a   *)
(* block that is free or that another of them frees, and the three vectors  *)
(* of mounted nodes stay in step (ext2.cpp, vfs.cpp).                       *)
THEOREM BlocksOwnedOnce == VfsSpec => []OwnedOnce
<1>1. VfsInv => OwnedOnce
  <2> SUFFICES ASSUME VfsInv PROVE OwnedOnce
    OBVIOUS
  <2>1. VfsTyped /\ RequestInv(walk, nodes) /\ OwnInv /\ InStep(nodes, prv_data, RequestServer)
    BY DEF VfsInv
  <2>2. walk.i \in 1 .. Len(walk.split) + 1 \/ walk.split = <<>>
    <3>1. walk.pc \in {"idle", "open", "walk", "listed", "respond"}
      BY <2>1, WalkTypes DEF VfsTyped
    <3>2. CASE walk.pc = "walk"
      BY <2>1, <3>2 DEF RequestInv, Walking
    <3>3. CASE walk.pc # "walk"
      BY <2>1, <3>1, <3>3, IdleIs DEF RequestInv, Opening, Listing, Responding
    <3> QED BY <3>2, <3>3
  <2>3. \A k \in DOMAIN partitions : partitions[k].kind \in PartitionKind
    <3>1. partitions \in Seq(PartitionRecord)
      BY <2>1 DEF VfsTyped
    <3>2. \A k \in DOMAIN partitions : partitions[k] \in PartitionRecord
      BY <3>1
    <3> QED BY <3>2 DEF PartitionRecord
  <2>4. past.calls \in 0..MaxCalls
    BY <2>1 DEF VfsTyped, PastRecord
  <2>5. VfsTypeOK
    BY <2>1, <2>2, <2>3, <2>4, WalkTypes DEF VfsTypeOK, VfsTyped, Numbers, InStep
  <2> QED BY <2>1, <2>5 DEF OwnedOnce, OwnInv, InStep
<1> QED BY <1>1, AlwaysVfsInv, PTL

(* Between calls each allocated block has an owner, as long as no lookup    *)
(* failed and get_file_info was not called: the other calls lose nothing.   *)
THEOREM NothingIsLost == VfsSpec => []NothingLost
<1>1. VfsInv => NothingLost
  BY DEF VfsInv, LossInv, NothingLost, Lost
<1> QED BY <1>1, AlwaysVfsInv, PTL

(* On every directory tree, and for every path whose split names end where  *)
(* they should, ListEntires returns the names of the directory that the     *)
(* path leads to, in order, or none when it leads nowhere.                  *)
THEOREM ListingIsTheDirectory == VfsSpec => []ListsTheDirectory
<1>1. VfsInv => ListsTheDirectory
  BY DEF VfsInv, ResultInv, ListsTheDirectory, Strings
<1> QED BY <1>1, AlwaysVfsInv, PTL

(* What stops the kernel is what StopsKnown lists, for every disk and tree  *)
(* and every string given to ListEntires or get_file_info as a path, in the *)
(* form that their ASSERTs demand or not: nothing else panics or takes      *)
(* other bytes for a directory.                                             *)
THEOREM StopsAreKnown == VfsSpec => []StopsKnown
<1>1. VfsInv => StopsKnown
  BY DEF VfsInv
<1> QED BY <1>1, AlwaysVfsInv, PTL

=============================================================================
