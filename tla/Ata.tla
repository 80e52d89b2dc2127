------------------------------- MODULE Ata -------------------------------
(* The ATA driver (System/Disk/ata.cpp) and the table of disks above it    *)
(* (System/Disk/vDisk.cpp), against the drives of two buses.  The driver   *)
(* polls: it has no request outstanding but one, and no way to learn of    *)
(* the drive's progress but BSY, DRQ and ERR of the status register.       *)
(* A transfer is Words words (256 in the code); a sector is a sequence of  *)
(* words; LbaLimit is 2^28, of which the four address registers keep the   *)
(* remainder.                                                              *)
EXTENDS Integers, Sequences

CONSTANTS
    Machines,   \* the machines to consider: what sits at each place
    Words,      \* words of a sector
    LbaLimit,   \* sector numbers the address registers hold
    Asked,      \* sector numbers callers ask for
    Values,     \* what callers write
    MaxWrites   \* bound on the writes of a run

Bus == 0 .. 1                   \* ATA_PRIMARY, ATA_SECONDARY
Place == Bus \X (0 .. 1)        \* ATA_MASTER, ATA_SLAVE
Kind == {"ata", "atapi", "absent", "floating"}

ASSUME MachinesAssumption == Machines \subseteq [Place -> Kind]
ASSUME SizesAssumption ==
    /\ Words \in Nat \ {0} /\ LbaLimit \in Nat \ {0}
    /\ Asked \subseteq Nat /\ MaxWrites \in Nat

Lba == 0 .. LbaLimit - 1
Word == (Place \X Lba \X (1 .. Words)) \cup (Values \X (1 .. Words))
             \cup {<<"ident", p>> : p \in Place} \cup {<<"zero">>, <<"junk">>}

VARIABLES
    machine,    \* what sits at each place
    selected,   \* of each bus, the drive its last HDDEVSEL named
    drive,      \* of each drive: phase, command, sector, words of a write
    media,      \* the sectors of each drive
    disks,      \* vDisk.cpp: the vector disks
    buffer,     \* read_write_buffer of each disk
    at,         \* where the driver is, and in which call
    history     \* writes so far; did a drive fail, or come late to a write

vars == <<machine, selected, drive, media, disks, buffer, at, history>>
world == <<machine, selected, drive, media>>

------------------------------------------------------------------------------
(* The drives (external).  A command is taken by a selected drive that is   *)
(* idle; for at most 400 ns the status is still the old one ("lag"), then   *)
(* BSY is up until there is data to move or an error.                       *)

Present(p) == machine[p] \in {"ata", "atapi"}
Floating(b) == machine[<<b, 0>>] = "floating"
Chosen(b) == <<b, selected[b]>>
BSY(b) == Floating(b) \/ drive[Chosen(b)].phase \in {"busy", "storing"}
DRQ(b) == Floating(b) \/ drive[Chosen(b)].phase = "data"
ERR(b) == Floating(b) \/ drive[Chosen(b)].phase = "error"
\* Mutant: an empty place is polled like any other.
NeverZero(b) == FALSE
StatusZero(b) == ~Present(Chosen(b)) /\ ~Floating(b)

Resting == [phase |-> "idle", cmd |-> "none", lba |-> 0, moved |-> <<>>]

Taken(p, cmd, lba) ==
    IF Present(p) /\ drive[p].phase \in {"idle", "error"}
    THEN [drive EXCEPT ![p] = [phase |-> "lag", cmd |-> cmd, lba |-> lba, moved |-> <<>>]]
    ELSE drive

Ident(p) == [k \in 1 .. Words |-> <<"ident", p>>]
Holds(p) == IF drive[p].cmd = "identify" THEN Ident(p) ELSE media[p][drive[p].lba]

\* A word read from the data port: meaningless unless the drive offers data.
WordIn(p) ==
    IF drive[p].phase = "data" /\ drive[p].cmd \in {"identify", "read"}
    THEN Holds(p)[Len(drive[p].moved) + 1]
    ELSE <<"junk">>

AfterWord(p, w) ==
    IF drive[p].phase # "data" THEN drive
    ELSE LET moved == Append(drive[p].moved, w)
         IN  [drive EXCEPT ![p] =
                IF Len(moved) < Words THEN [@ EXCEPT !.moved = moved]
                ELSE IF @.cmd = "write" THEN [@ EXCEPT !.moved = moved, !.phase = "storing"]
                ELSE Resting]

RaiseBusy(p) ==
    /\ drive[p].phase = "lag"
    /\ drive' = [drive EXCEPT ![p].phase = "busy"]
    /\ UNCHANGED <<machine, selected, media, disks, buffer, at, history>>

Offer(p) ==
    /\ drive[p].phase = "busy" /\ drive[p].cmd # "flush"
    /\ ~(machine[p] = "atapi" /\ drive[p].cmd = "identify")
    /\ drive' = [drive EXCEPT ![p].phase = "data"]
    /\ UNCHANGED <<machine, selected, media, disks, buffer, at, history>>

Fail(p) ==
    /\ drive[p].phase = "busy" /\ drive[p].cmd # "flush"
    /\ machine[p] = "atapi" \/ drive[p].cmd # "identify"
    /\ drive' = [drive EXCEPT ![p] = [Resting EXCEPT !.phase = "error"]]
    /\ history' = [history EXCEPT !.failed = @ \/ (at.call # "identify")]
    /\ UNCHANGED <<machine, selected, media, disks, buffer, at>>

Store(p) ==
    /\ drive[p].phase = "storing"
    /\ media' = [media EXCEPT ![p][drive[p].lba] = drive[p].moved]
    /\ drive' = [drive EXCEPT ![p] = Resting]
    /\ UNCHANGED <<machine, selected, disks, buffer, at, history>>

Flush(p) ==
    /\ drive[p].phase = "busy" /\ drive[p].cmd = "flush"
    /\ drive' = [drive EXCEPT ![p] = Resting]
    /\ UNCHANGED <<machine, selected, media, disks, buffer, at, history>>

DriveStep(p) == RaiseBusy(p) \/ Offer(p) \/ Fail(p) \/ Store(p) \/ Flush(p)

------------------------------------------------------------------------------
(* Looking for drives: ide_init_all, ide_setup_device, ide_check_device.    *)

Following(p) == IF p[2] = 0 THEN <<p[1], 1>> ELSE <<1, 0>>

NextPlace(p) ==
    IF p = <<1, 1>> THEN [at EXCEPT !.pc = "up"]
    ELSE [at EXCEPT !.pc = "identify", !.place = Following(p)]

\* disk_select of a disk, and the drive that ata_read_one takes it for.
\* Mutant: bus and drive exchanged.
SelectSwapped(p) == p[2] * 2 + p[1]
SelectOf(p) == p[1] * 2 + p[2]
DriveOf(select) == <<select \div 2, select % 2>>

SendIdentify ==
    /\ at.pc = "identify"
    /\ selected' = [selected EXCEPT ![at.place[1]] = at.place[2]]
    /\ drive' = Taken(at.place, "identify", 0)
    /\ at' = [at EXCEPT !.pc = "check"]
    /\ UNCHANGED <<machine, media, disks, buffer, history>>

CheckStatus ==
    /\ at.pc = "check"
    /\ at' = IF StatusZero(at.place[1]) THEN NextPlace(at.place) ELSE [at EXCEPT !.pc = "wait busy"]
    /\ UNCHANGED <<world, disks, buffer, history>>

\* One turn of the loop that waits for BSY to go.
WaitBusy ==
    /\ at.pc = "wait busy"
    /\ at' = IF BSY(at.place[1]) THEN at ELSE [at EXCEPT !.pc = "wait data"]
    /\ UNCHANGED <<world, disks, buffer, history>>

\* One turn of the loop that waits for DRQ or ERR.
WaitData ==
    /\ at.pc = "wait data"
    /\ at' = IF ERR(at.place[1]) THEN NextPlace(at.place)
             ELSE IF DRQ(at.place[1]) THEN [at EXCEPT !.pc = "take ident"]
             ELSE at
    /\ UNCHANGED <<world, disks, buffer, history>>

Listed(p, ident) == [select |-> SelectOf(p), info |-> ident]
PushDisk(disk) == Append(disks, disk)

\* All 256 words, which fill ide_buf, and the rest of ide_setup_device.
AddDisk ==
    /\ at.pc = "take ident"
    /\ LET p == at.place IN
       /\ disks' = PushDisk(Listed(p, WordIn(p)))
       /\ drive' = [drive EXCEPT ![p] = Resting]
       /\ buffer' = Append(buffer, [k \in 1 .. Words |-> <<"zero">>])
       /\ at' = NextPlace(p)
    /\ UNCHANGED <<machine, selected, media, history>>

------------------------------------------------------------------------------
(* read_sector and write_sector of a disk of the table.                     *)

\* The registers that ata_read_one and ata_write_one set, the command last.
Registers(p, lba) == lba % LbaLimit

Issue(i, cmd, lba) ==
    LET p == DriveOf(disks[i].select) IN
    /\ selected' = [selected EXCEPT ![p[1]] = p[2]]
    /\ drive' = Taken(p, cmd, Registers(p, lba))
    /\ at' = [at EXCEPT !.pc = "delay", !.call = cmd, !.disk = i, !.lba = lba,
                        !.place = p, !.word = 0]

\* disk.read_write_buffer is cleared first.
ReadSector(i, lba) ==
    /\ at.pc = "up"
    /\ buffer' = [buffer EXCEPT ![i] = [k \in 1 .. Words |-> <<"zero">>]]
    /\ Issue(i, "read", lba)
    /\ history' = [history EXCEPT !.failed = FALSE]
    /\ UNCHANGED <<machine, media, disks>>

WriteSector(i, lba, v) ==
    /\ at.pc = "up" /\ history.writes < MaxWrites
    /\ buffer' = [buffer EXCEPT ![i] = [k \in 1 .. Words |-> <<v, k>>]]
    /\ Issue(i, "write", lba)
    /\ history' = [history EXCEPT !.writes = @ + 1, !.failed = FALSE,
                                  !.late = @ \/ drive'[at'.place].phase # "lag"]
    /\ UNCHANGED <<machine, media, disks>>

\* Mutant: the drive is looked at or written to at once.
NoDelay == TRUE

\* Four reads of a port take 400 ns or more: the drive has raised BSY by then.
LongEnough == drive[at.place].phase # "lag"

\* Mutant: no poll before a read either.
WordsAtOnce == "words"
AfterDelay == IF at.call = "read" THEN "poll" ELSE "words"

Delay ==
    /\ at.pc = "delay" /\ LongEnough
    /\ at' = [at EXCEPT !.pc = AfterDelay]
    /\ history' = [history EXCEPT !.late = @ \/ (at.call = "write" /\ BSY(at.place[1]))]
    /\ UNCHANGED <<world, disks, buffer>>

KeepPolling == BSY(at.place[1]) /\ ~DRQ(at.place[1])

\* One turn of ide_poll: an error is printed and otherwise overlooked.
Poll ==
    /\ at.pc = "poll"
    /\ at' = IF KeepPolling THEN at ELSE [at EXCEPT !.pc = "words"]
    /\ UNCHANGED <<world, disks, buffer, history>>

NextWord == [at EXCEPT !.word = @ + 1, !.pc = IF at.word + 1 = Words THEN "pause" ELSE @]

ReadWord ==
    /\ at.pc = "words" /\ at.call = "read"
    /\ buffer' = [buffer EXCEPT ![at.disk][at.word + 1] = WordIn(at.place)]
    /\ drive' = AfterWord(at.place, WordIn(at.place))
    /\ at' = NextWord
    /\ UNCHANGED <<machine, selected, media, disks, history>>

\* A word, and then the command FLUSH, which a drive waiting for data ignores.
WriteWord ==
    /\ at.pc = "words" /\ at.call = "write"
    /\ drive' = AfterWord(at.place, buffer[at.disk][at.word + 1])
    /\ at' = [at EXCEPT !.pc = "flush"]
    /\ UNCHANGED <<machine, selected, media, disks, buffer, history>>

WriteFlush ==
    /\ at.pc = "flush"
    /\ drive' = Taken(at.place, "flush", 0)
    /\ at' = [NextWord EXCEPT !.pc = IF at.word + 1 = Words THEN "pause" ELSE "words"]
    /\ UNCHANGED <<machine, selected, media, disks, buffer, history>>

Pause ==
    /\ at.pc = "pause" /\ LongEnough
    /\ at' = [at EXCEPT !.pc = "up"]
    /\ UNCHANGED <<world, disks, buffer, history>>

------------------------------------------------------------------------------
Sectors(p) == [l \in Lba |-> [k \in 1 .. Words |-> <<p, l, k>>]]

Init ==
    /\ machine \in Machines
    /\ selected = [b \in Bus |-> 0]
    /\ drive = [p \in Place |-> Resting]
    /\ media = [p \in Place |-> Sectors(p)]
    /\ disks = <<>>
    /\ buffer = <<>>
    /\ at = [pc |-> "identify", place |-> <<0, 0>>, call |-> "identify",
             disk |-> 0, lba |-> 0, word |-> 0]
    /\ history = [writes |-> 0, failed |-> FALSE, late |-> FALSE]

DriverStep ==
    \/ SendIdentify \/ CheckStatus \/ WaitBusy \/ WaitData \/ AddDisk
    \/ Delay \/ Poll \/ ReadWord \/ WriteWord \/ WriteFlush \/ Pause

Next ==
    \/ DriverStep
    \/ \E i \in DOMAIN disks, lba \in Asked : ReadSector(i, lba)
    \/ \E i \in DOMAIN disks, lba \in Asked, v \in Values : WriteSector(i, lba, v)
    \/ \E p \in Place : DriveStep(p)

\* The driver is the only thread of the kernel; a drive that took a command
\* gets on with it.
Spec ==
    /\ Init /\ [][Next]_vars
    /\ WF_vars(DriverStep)
    /\ \A p \in Place : WF_vars(DriveStep(p))

------------------------------------------------------------------------------
(* Properties.                                                               *)

TypeOK ==
    /\ machine \in Machines
    /\ selected \in [Bus -> 0 .. 1]
    /\ \A p \in Place :
        /\ drive[p].phase \in {"idle", "lag", "busy", "data", "storing", "error"}
        /\ drive[p].cmd \in {"none", "identify", "read", "write", "flush"}
        /\ drive[p].lba \in Lba
        /\ Len(drive[p].moved) <= Words
        /\ \A l \in Lba : DOMAIN media[p][l] = 1 .. Words
    /\ Len(buffer) = Len(disks)
    /\ \A i \in DOMAIN buffer : DOMAIN buffer[i] = 1 .. Words /\ \A k \in 1 .. Words : buffer[i][k] \in Word
    /\ at.place \in Place /\ at.word \in 0 .. Words

\* The hard disks of the machine, in the order they are looked for.
With(found, p) == IF machine[p] = "ata" THEN Append(found, p) ELSE found
Answering == With(With(With(With(<<>>, <<0, 0>>), <<0, 1>>), <<1, 0>>), <<1, 1>>)
Name(p) == <<"ident", p>>
PlaceOf(i) == CHOOSE p \in Place : disks[i].info = Name(p)

\* Once the search is over the table holds the hard disks of the machine, in
\* the order they were looked for, each with the identification of the drive
\* that its disk_select leads read and write to: a CD drive, an empty place
\* or the other drive of the bus has left nothing in it (ide_setup_device).
DisksAreTheDrives ==
    /\ TypeOK
    /\ at.pc = "up" =>
        /\ Len(disks) = Len(Answering)
        /\ \A i \in DOMAIN disks :
            /\ disks[i].info = Name(Answering[i])
            /\ DriveOf(disks[i].select) = Answering[i]

Junk == [k \in 1 .. Words |-> <<"junk">>]
Wanted == <<PlaceOf(at.disk), at.lba % LbaLimit>>
Over(call) == at.pc = "up" /\ at.call = call

\* What a read leaves in the buffer is the sector asked for, of the disk asked
\* for, whole, or nothing of any sector, although ata_read_one does not report
\* an error: and as long as nothing was written it is the sector unless the
\* drive said ERR.
ReadIsTheSector ==
    Over("read") =>
        /\ buffer[at.disk] \in {media[Wanted[1]][Wanted[2]], Junk}
        /\ history.writes = 0 /\ ~history.failed => buffer[at.disk] # Junk

\* ata_write_one does not poll.  As long as each write met a drive that had
\* raised DRQ when the delay was over, every sector of every disk is what it
\* was or one caller's words, in spite of the FLUSH after each word, and the
\* last write that the drive did not refuse is on the disk once it is stored.
WriteIsTheSector ==
    ~history.late =>
        /\ \A p \in Place, l \in Lba :
            media[p][l] \in {Sectors(p)[l]} \cup {[k \in 1 .. Words |-> <<v, k>>] : v \in Values}
        /\ Over("write") /\ ~history.failed /\ drive[Wanted[1]].phase # "storing" =>
            media[Wanted[1]][Wanted[2]] = buffer[at.disk]

\* The search for drives ends and so does every call after it, polling
\* without a bound, on a machine whose buses do not float.
AlwaysAnswers == (\E b \in Bus : Floating(b)) \/ []<>(at.pc = "up")

==============================================================================
