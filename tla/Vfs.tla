-------------------------------- MODULE Vfs --------------------------------
(* Partitions (System/fs/mbt.cpp), the virtual file system over them       *)
(* (System/fs/vfs.cpp, vfs.hpp) and the use system_init makes of both      *)
(* (Kernel/runtime.cpp): the first disk's partitions, the mounted nodes in *)
(* three vectors that share an index, and requests to ext2, the only       *)
(* server.  Nodes are mounted at "/", the only mount point in the code.    *)
EXTENDS Ext2

CONSTANTS
    Computers,  \* [disks, table]: how many disks Ata found; the four entries
    Paths,      \* paths asked for
    MaxCalls,   \* bound on the requests of a run
    MaxNodes    \* bound on the nodes added

\* A partition: none, ext2 with blocks of 1 KB, ext2 with larger ones, one
\* of the Linux type that is not ext2, one of another type.
PartitionKind == {"none", "ext2", "ext2 large", "linux", "foreign"}

ASSUME ComputersAssumption == Computers \subseteq [disks : 0 .. 1, table : [1 .. 4 -> PartitionKind]]
ASSUME BoundsAssumption == MaxCalls \in Nat /\ MaxNodes \in Nat \ {0}
\* A path as a caller writes it: its names, and whether a '/' comes before the
\* first and after the last.  "/" is both without a name, "" neither.
PathString == [first : BOOLEAN, names : Seq(STRING), last : BOOLEAN]
RootPath == [first |-> TRUE, names |-> <<>>, last |-> TRUE]

ASSUME PathsAssumption ==
    /\ Paths \subseteq PathString
    /\ \A path \in Paths : Range(path.names) \subseteq DOMAIN Longer
    /\ \A n \in DOMAIN Longer : Longer[n] \subseteq STRING

VARIABLES
    computer,
    partitions,      \* mbt.cpp: the vector partitions
    nodes,           \* vfs.cpp: nodes
    prv_data,        \* vfs.cpp: private data of each, and what it points to
    RequestServer,   \* vfs.cpp: the server of each
    result,          \* the names ListEntires returned, until they are freed
    past             \* calls so far; lookups that failed; calls of get_file_info;
                     \* the path that was asked for last

vfsVars == <<live, walk, stage, computer, partitions, nodes, prv_data, RequestServer, result, past>>
mounts == <<computer, partitions, nodes, prv_data, RequestServer>>

------------------------------------------------------------------------------
(* system_init: get_disk(0), import_disk_partitions, fs::init, the loop.    *)

VfsInit ==
    /\ computer \in Computers
    /\ live = {} /\ walk = Idle /\ stage = "disks"
    /\ partitions = <<>> /\ nodes = <<>> /\ prv_data = <<>> /\ RequestServer = <<>>
    /\ result = [path |-> <<>>, names |-> <<>>, held |-> FALSE, clean |-> TRUE]
    /\ past = [calls |-> 0, missed |-> FALSE, info |-> FALSE, path |-> RootPath]

\* disks[0] of an empty vector is out of bounds.
GetDisk ==
    /\ stage = "disks"
    /\ stage' = IF computer.disks = 0 THEN "panic" ELSE "mbr"
    /\ UNCHANGED <<live, walk, mounts, result, past>>

\* Four entries; of those with a size, the entry and a copy of the disk stay.
ImportPartitions ==
    /\ stage = "mbr"
    /\ LET used == {k \in 1 .. 4 : computer.table[k] # "none"}
           kinds == [k \in 1 .. Cardinality(used) |-> computer.table[Nth(used, k)]]
           new == Fresh(live, 2 * Len(kinds))
       IN  /\ partitions' = [k \in 1 .. Len(kinds) |->
                               [kind |-> kinds[k], block |-> new[2 * k - 1], disk |-> new[2 * k]]]
           /\ live' = Adding(live, new)
    /\ stage' = "mount"
    /\ UNCHANGED <<walk, computer, nodes, prv_data, RequestServer, result, past>>

LinuxType(kind) == kind \in {"ext2", "ext2 large", "linux"}   \* 131
Signature(kind) == kind \in {"ext2", "ext2 large"}            \* 0xEF53

\* INIT: a node with the signature keeps its superblock and its root inode.
Kept(p) == IF Signature(p.kind) THEN 2 ELSE 0
NodeIndex == Len(nodes)

\* AddNode: three vectors, then INIT, whose answer changes nothing in them.
AddNode(p) ==
    LET new == Fresh(live, 1 + Kept(p))
    IN  /\ RequestServer' = Append(RequestServer, "ext2")
        /\ prv_data' = Append(prv_data, new)
        /\ nodes' = Append(nodes, [partition |-> p.kind, index |-> NodeIndex])
        /\ live' = Adding(live, new)

\* getat(i) is the first slot for every i.
SlotRead(i) == 1

Mount ==
    /\ stage = "mount"
    /\ IF \E i \in 1 .. Len(partitions) : LinuxType(partitions[SlotRead(i)].kind)
       THEN AddNode(partitions[SlotRead(1)])
       ELSE UNCHANGED <<live, nodes, prv_data, RequestServer>>
    /\ stage' = "up"
    /\ UNCHANGED <<walk, computer, partitions, result, past>>

------------------------------------------------------------------------------
(* Calls, once the system is up.                                            *)

Callable == stage = "up" /\ walk.pc = "idle" /\ ~result.held /\ past.calls < MaxCalls
Counted == [past EXCEPT !.calls = @ + 1]

AddAnother(k) ==
    /\ Callable /\ Len(nodes) < MaxNodes
    /\ AddNode(partitions[k])
    /\ past' = Counted
    /\ UNCHANGED <<walk, stage, computer, partitions, result>>

\* Mutant: the node mounted last.
NewestNode == nodes[Len(nodes)].index + 1

\* The index of the node GetChildNode returns, a root node if there is one.
GetChildNode == nodes[1].index + 1

\* RunRequest: what the three vectors hold at that index.
Served(index) == nodes[index].partition

\* GetChildLocalPath under "/" copies the path into a block.
LocalPath == Fresh(live, 1)

\* The ASSERTs that ListEntires and get_file_info begin with: the path is not
\* empty, and its first and its last character are a '/'.
NotEmpty(path) == path.first \/ path.names # <<>> \/ path.last
Wellformed(path) == NotEmpty(path) /\ path.first /\ path.last

\* ListEntires up to RunRequest; the server's walk follows.
ListEntires(path) ==
    /\ Callable
    /\ IF ~Wellformed(path) \/ nodes = <<>>
       THEN stage' = "panic" /\ UNCHANGED <<live, walk>>
       ELSE LET request == LocalPath IN
            /\ live' = Adding(live, request)
            /\ walk' = [Idle EXCEPT !.pc = "open", !.call = "list",
                                    !.path = path.names, !.asked = path.names,
                                    !.partition = Served(GetChildNode), !.request = request]
            /\ UNCHANGED stage
    /\ past' = [Counted EXCEPT !.path = path]
    /\ UNCHANGED <<mounts, result>>

\* get_entry_from_path cuts the last component off before it is copied.
Parent(names) == Front(names)

\* get_file_info up to the walk of the parent; of "/" it looks for a '/' in
\* the bytes below the string.
GetFileInfo(path) ==
    /\ Callable
    /\ stage' = IF ~Wellformed(path) \/ nodes = <<>> THEN "panic"
                ELSE IF path.names = <<>> THEN "garbage" ELSE stage
    /\ IF stage' # "up" THEN UNCHANGED <<live, walk>>
       ELSE LET new == Fresh(live, 2) IN
            /\ live' = Adding(live, new)
            /\ walk' = [Idle EXCEPT !.pc = "open", !.call = "info", !.path = Parent(path.names),
                                    !.asked = path.names, !.partition = Served(GetChildNode),
                                    !.request = <<new[1]>>, !.file_name = <<new[2]>>]
    /\ past' = [Counted EXCEPT !.info = TRUE, !.path = path]
    /\ UNCHANGED <<mounts, result>>

\* Mutant: a server that lets go of its node.
DisconnectOk == "OK"
\* ext2 does not know the request DISCONNECT.
Disconnect == "BAD_REQUEST"

\* remove_node("/") takes the node out of one vector, when the server agrees.
RemoveNode ==
    /\ Callable /\ nodes # <<>>
    /\ nodes' = IF Disconnect = "OK" THEN Tail(nodes) ELSE nodes
    /\ past' = Counted
    /\ UNCHANGED <<live, walk, stage, computer, partitions, prv_data, RequestServer, result>>

\* The rest of ListEntires: the names go to the caller, the answer is freed,
\* the answer is freed again, the request is freed.
Unpack ==
    /\ walk.pc = "respond"
    /\ live' = Without(live, walk.resp \o walk.resp \o walk.request)
    /\ result' = [path |-> walk.asked, names |-> walk.copies, held |-> TRUE, clean |-> walk.clean]
    /\ walk' = Idle
    /\ UNCHANGED <<stage, mounts, past>>

FreeNames ==
    /\ result.held
    /\ live' = Without(live, PtrsOf(result.names))
    /\ result' = [result EXCEPT !.held = FALSE, !.names = <<>>]
    /\ UNCHANGED <<walk, stage, mounts, past>>

Walk ==
    /\ WalkStep
    /\ past' = [past EXCEPT !.missed = @ \/ (walk.pc = "walk" /\ walk'.pc = "listed" /\ walk.i <= Len(walk.split))]
    /\ UNCHANGED <<mounts, result>>

VfsNext ==
    \/ GetDisk \/ ImportPartitions \/ Mount
    \/ Walk \/ Unpack \/ FreeNames \/ RemoveNode
    \/ \E path \in Paths : ListEntires(path) \/ GetFileInfo(path)
    \/ \E k \in 1 .. Len(partitions) : AddAnother(k)

VfsSpec == VfsInit /\ [][VfsNext]_vfsVars

------------------------------------------------------------------------------
(* Properties.                                                               *)

VfsTypeOK ==
    /\ computer \in Computers /\ live \subseteq Nat \ {0} /\ IsFiniteSet(live)
    /\ stage \in {"disks", "mbr", "mount", "up", "panic", "garbage"}
    /\ walk.pc \in {"idle", "open", "walk", "listed", "respond"}
    /\ walk.i \in 1 .. Len(walk.split) + 1 \/ walk.split = <<>>
    /\ Len(nodes) <= MaxNodes /\ past.calls \in 0 .. MaxCalls
    /\ \A k \in DOMAIN partitions : partitions[k].kind \in PartitionKind

\* Every pointer that some variable of the code will still follow or free,
\* by the variable: nodes own theirs one by one.
PartitionBlocks ==
    [k \in 1 .. 2 * Len(partitions) |->
        IF k % 2 = 1 THEN partitions[(k + 1) \div 2].block ELSE partitions[k \div 2].disk]

Pointers ==
    <<PartitionBlocks, walk.request, walk.file_name, BlocksOf(walk.root), PtrsOf(walk.split),
      walk.resp, PtrsOf(walk.copies), PtrsOf(result.names)>> \o prv_data

Separate(groups) ==
    \A g, h \in DOMAIN groups : \A k \in DOMAIN groups[g], l \in DOMAIN groups[h] :
        groups[g][k] = groups[h][l] => g = h /\ k = l

Blocks(groups) == UNION {Range(groups[g]) : g \in DOMAIN groups}
Lost == live \ Blocks(Pointers)

\* No pointer still in use is to a block that was freed or that belongs to
\* another: the answer that ListEntires frees twice, the directory that is
\* freed in the loop that walks it and the names handed up through three
\* functions are each freed once while they are somebody's.  And the three
\* vectors that are indexed together are in step: remove_node, which would
\* shorten one of them, never gets its server's consent.
OwnedOnce ==
    /\ VfsTypeOK
    /\ Separate(Pointers) /\ Blocks(Pointers) \subseteq live
    /\ Len(nodes) = Len(prv_data) /\ Len(nodes) = Len(RequestServer)
    /\ \A k \in DOMAIN nodes :
        /\ nodes[k].index = k - 1
        /\ Len(prv_data[k]) = (IF Signature(nodes[k].partition) THEN 3 ELSE 1)

\* The inode a path names, 0 if none does, read off the tree.
Child(id, n) ==
    IF id # 0 /\ \E e \in Range(Tree[id].entries) : e.name = n
    THEN (CHOOSE e \in Range(Tree[id].entries) : e.name = n).inode
    ELSE 0

Resolved(path) ==
    LET R[k \in 0 .. Len(path)] == IF k = 0 THEN RootDirectoryInode ELSE Child(R[k - 1], path[k])
    IN  R[Len(path)]

Names(id) == IF id = 0 THEN <<>> ELSE [k \in 1 .. Len(Tree[id].entries) |-> Tree[id].entries[k].name]

\* When the byte that PathToVector leaves unwritten is zero in each component,
\* ListEntires returns the names in the directory the path leads to, in
\* order, and none when it leads nowhere: inode arithmetic, a stale
\* found_next_entry and the swap of vectors in mid-walk notwithstanding.
ListsTheDirectory ==
    result.held /\ result.clean =>
        [k \in 1 .. Len(result.names) |-> result.names[k].string] = Names(Resolved(result.path))

\* Between calls every allocated block is somebody's, as long as no lookup
\* failed (get_entries_from_path then returns without freeing what it holds)
\* and get_file_info, which drops its answer, was not called.
NothingLost ==
    walk.pc = "idle" /\ ~past.missed /\ ~past.info => Lost = {}

FirstListed == partitions[1].kind

\* What stops the kernel or makes it take other bytes for a directory is one
\* of these: no disk; a path that is empty or does not begin and end with '/';
\* no node, because the first partition listed is not of the Linux type; a
\* get_file_info of more than one component, or of "/"; a file system that is
\* not ext2 with blocks of 1 KB; a byte that PathToVector left unwritten and
\* that was not zero, so that another name was looked up; and for a good one, a
\* path through a file or a directory too large or too far up the disk.
StopsKnown ==
    /\ stage = "panic" =>
        \/ computer.disks = 0
        \/ ~(past.path.first /\ past.path.last)
        \/ nodes = <<>> /\ (partitions # <<>> => ~LinuxType(FirstListed))
        \/ walk.call = "info" /\ Len(walk.asked) > 1
    /\ stage = "garbage" =>
        \/ nodes[1].partition # "ext2"
        \/ walk.call = "none" /\ past.info /\ past.path = RootPath
        \/ walk.call = "info" /\ Len(walk.asked) > 1
        \/ ~walk.clean
        \/ \E k \in 0 .. Len(walk.asked) :
             LET id == Resolved(SubSeq(walk.asked, 1, k))
             IN  id # 0 /\ (Tree[id].kind \notin Legible \/ GroupOf(id) >= GroupsPerBlock)

\* runtime.cpp:144 says of the loop in system_init: "Look through all the
\* partitions and find the one that is EXT2".
MountsTheExt2 ==
    stage = "up" /\ (\E k \in DOMAIN partitions : LinuxType(partitions[k].kind)) => nodes # <<>>

==============================================================================
