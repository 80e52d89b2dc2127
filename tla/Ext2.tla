------------------------------- MODULE Ext2 -------------------------------
(* Listing a directory of an ext2 file system (System/fs/ext2.cpp): which  *)
(* inodes are read on the way down a path, and which blocks of the kernel  *)
(* heap the walk allocates, frees and forgets.  One action for each loop   *)
(* or call that allocates; superblock, group descriptor and data block are *)
(* allocated and freed within one action and leave no trace.               *)
(*                                                                         *)
(* A name is a string taken whole.  What lies on the disk is Tree: inode   *)
(* number -> kind and entries.  A kind outside Legible is one whose first  *)
(* block read as a directory of low_size bytes is not one: a file, or a    *)
(* directory of more than one block.                                       *)
EXTENDS Integers, Sequences, FiniteSets, SequencesExt

CONSTANTS
    Tree,            \* inode -> [kind, entries]
    Longer,          \* name -> the names that are one character longer
    InodesPerGroup, InodesPerBlock,
    GroupsPerBlock   \* descriptors in the one block that is read of them

VARIABLES
    live,     \* heap blocks that are allocated
    walk,     \* get_entries_from_path and its callers: locals
    stage     \* how far the kernel is, or how it stopped

RootDirectoryInode == 2
Legible == {"dir", "empty"}

\* A directory names each entry once; that of the root is not empty, and its
\* ".." leads back to it, as mkfs leaves it.
ASSUME TreeAssumption ==
    /\ DOMAIN Tree \subseteq Nat \ {0} /\ RootDirectoryInode \in DOMAIN Tree
    /\ \A n \in DOMAIN Tree :
        /\ Tree[n].entries \in Seq([name : STRING, inode : DOMAIN Tree])
        /\ \A k, l \in DOMAIN Tree[n].entries :
             Tree[n].entries[k].name = Tree[n].entries[l].name => k = l
    /\ Tree[RootDirectoryInode].kind # "empty"
    /\ Tree[RootDirectoryInode].kind = "dir" =>
         [name |-> "..", inode |-> RootDirectoryInode] \in Range(Tree[RootDirectoryInode].entries)
ASSUME LayoutAssumption ==
    /\ InodesPerGroup \in Nat \ {0} /\ InodesPerBlock \in Nat \ {0}
    /\ GroupsPerBlock \in Nat \ {0}

------------------------------------------------------------------------------
(* kmalloc and kfree as the callers see them: n blocks, the lowest that are *)
(* free, and blocks given back; freeing what is free does nothing (KHeap).  *)

\* The n-th smallest of a set of numbers.
Nth(S, n) == CHOOSE x \in S : Cardinality({y \in S : y <= x}) = n

Fresh(used, n) ==
    LET free == (1 .. Cardinality(used) + n) \ used IN [k \in 1 .. n |-> Nth(free, k)]
Adding(used, blocks) == used \cup Range(blocks)
Without(used, blocks) == used \ Range(blocks)

------------------------------------------------------------------------------
(* read_inode: where the code looks, and which inode mkfs put there.        *)

GroupOf(id) == (id - 1) \div InodesPerGroup
InodeIndex(id) == (id - 1) % InodesPerGroup
InodeAt(group, block, slot) == group * InodesPerGroup + block * InodesPerBlock + slot + 1

\* Mutant: the numbering of inodes from 1 forgotten.
InodeReadFromZero(id) ==
    InodeAt(id \div InodesPerGroup, (id % InodesPerGroup) \div InodesPerBlock,
            (id % InodesPerGroup) % InodesPerBlock)

InodeRead(id) ==
    InodeAt(GroupOf(id), InodeIndex(id) \div InodesPerBlock, InodeIndex(id) % InodesPerBlock)

\* parse_dir of an inode on a partition gives a directory's entries, not
\* what happens to lie there.
Readable(partition, id) ==
    /\ partition = "ext2"
    /\ GroupOf(id) < GroupsPerBlock
    /\ InodeRead(id) \in DOMAIN Tree
    /\ Tree[InodeRead(id)].kind \in Legible

\* The vector parse_dir returns: per entry a block, a block for its name.
Parsed(id, used) ==
    LET entries == Tree[InodeRead(id)].entries
        new == Fresh(used, 2 * Len(entries))
    IN  [k \in 1 .. Len(entries) |->
            [block |-> new[2 * k - 1], name |-> new[2 * k],
             string |-> entries[k].name, inode |-> entries[k].inode]]

BlocksOf(entries) ==
    [k \in 1 .. 2 * Len(entries) |->
        IF k % 2 = 1 THEN entries[(k + 1) \div 2].block ELSE entries[k \div 2].name]

------------------------------------------------------------------------------
(* The locals of a call.  path is what get_entries_from_path is given;      *)
(* target is what get_entry_from_path looks for in it.                      *)

Idle == [pc |-> "idle", call |-> "none", path |-> <<>>, asked |-> <<>>, partition |-> "none",
         request |-> <<>>, file_name |-> <<>>, root |-> <<>>, split |-> <<>>, i |-> 1,
         found |-> FALSE, clean |-> TRUE, resp |-> <<>>, copies |-> <<>>]

\* The byte of a split name that PathToVector does not write is whatever the
\* block held: the end of the name, or one more character of it.
StringsOf(path) ==
    {s \in [1 .. Len(path) -> UNION {{n, "?"} \cup Longer[n] : n \in Range(path)}] :
        \A k \in 1 .. Len(path) : s[k] \in {path[k], "?"} \cup Longer[path[k]]}

SplitOf(strings, used) ==
    LET new == Fresh(used, Len(strings))
    IN  [k \in 1 .. Len(strings) |-> [block |-> new[k], string |-> strings[k]]]

PtrsOf(seq) == [k \in 1 .. Len(seq) |-> seq[k].block]

OpenRoot ==
    /\ walk.pc = "open" /\ stage = "up"
    /\ IF ~Readable(walk.partition, RootDirectoryInode)
       THEN stage' = "garbage" /\ UNCHANGED <<live, walk>>
       ELSE \E strings \in StringsOf(walk.path) :
              LET root == Parsed(RootDirectoryInode, live)
                  split == SplitOf(strings, Adding(live, BlocksOf(root)))
              IN  /\ live' = Adding(Adding(live, BlocksOf(root)), PtrsOf(split))
                  /\ walk' = [walk EXCEPT !.pc = "walk", !.root = root, !.split = split,
                                          !.clean = (strings = walk.path)]
                  /\ UNCHANGED stage

Matches == {e \in 1 .. Len(walk.root) : walk.root[e].string = walk.split[walk.i].string}

\* One component found: the new directory is read before the old one is freed.
OldDirectory == BlocksOf(walk.root)
NewDirectory(e) == Parsed(walk.root[e].inode, live)    \* get_directories

Descend ==
    /\ walk.pc = "walk" /\ stage = "up" /\ walk.i <= Len(walk.split) /\ Matches # {}
    /\ LET e == CHOOSE k \in Matches : \A l \in Matches : k <= l
           new == NewDirectory(e)
       IN  IF ~Readable(walk.partition, walk.root[e].inode)
           THEN stage' = "garbage" /\ UNCHANGED <<live, walk>>
           ELSE /\ live' = Without(Adding(live, BlocksOf(new)), OldDirectory)
                /\ walk' = [walk EXCEPT !.root = new, !.i = @ + 1, !.found = TRUE]
                /\ UNCHANGED stage

\* found_next_entry keeps its value when there is no entry to compare with.
StillFound == walk.root = <<>> /\ walk.found

Skip ==
    /\ walk.pc = "walk" /\ walk.i <= Len(walk.split) /\ Matches = {} /\ StillFound
    /\ walk' = [walk EXCEPT !.i = @ + 1]
    /\ UNCHANGED <<live, stage>>

\* Not found: return {}, with the entries, their names and the split names
\* still allocated.
GiveUp ==
    /\ walk.pc = "walk" /\ walk.i <= Len(walk.split) /\ Matches = {} /\ ~StillFound
    /\ walk' = [walk EXCEPT !.pc = "listed", !.root = <<>>, !.split = <<>>]
    /\ UNCHANGED <<live, stage>>

\* Mutant: the split names are kept.
NothingFreed == <<>>
SplitNames == PtrsOf(walk.split)

EndWalk ==
    /\ walk.pc = "walk" /\ walk.i > Len(walk.split)
    /\ live' = Without(live, SplitNames)
    /\ walk' = [walk EXCEPT !.pc = "listed", !.split = <<>>]
    /\ UNCHANGED stage

------------------------------------------------------------------------------
(* FileSystemServer, LIST_ENTRIES: copies of the names for the caller.      *)

Respond ==
    /\ walk.pc = "listed" /\ walk.call = "list"
    /\ LET n == Len(walk.root)
           new == Fresh(live, n + 1)
           copies == [k \in 1 .. n |-> [block |-> new[k + 1], string |-> walk.root[k].string]]
       IN  /\ live' = Without(Adding(live, new), OldDirectory)
           /\ walk' = [walk EXCEPT !.pc = "respond", !.resp = <<new[1]>>,
                                   !.copies = copies, !.root = <<>>]
    /\ UNCHANGED stage

(* GET_ENTRY, after get_entries_from_path: the last entry whose name is     *)
(* file_name.  That is ".." when the path has one component; otherwise it   *)
(* is a block nobody wrote to, which may hold any name.                     *)

NameIs(e) == IF Len(walk.asked) = 1 THEN walk.root[e].string = ".." ELSE TRUE
Candidates == {e \in 1 .. Len(walk.root) : NameIs(e)}
Latest(S) == {e \in S : \A l \in S : l <= e}
Answers == IF Len(walk.asked) = 1 THEN Latest(Candidates) ELSE Candidates

NoEntry ==
    /\ walk.pc = "listed" /\ walk.call = "info" /\ stage = "up"
    /\ Len(walk.asked) = 1 => Candidates = {}
    /\ stage' = "panic"
    /\ UNCHANGED <<live, walk>>

\* The entries but the one are freed, and file_name unless it is the literal.
Dropped(e) ==
    (UNION {{walk.root[k].block, walk.root[k].name} : k \in DOMAIN walk.root \ {e}})
        \cup (IF Len(walk.asked) = 1 THEN {} ELSE Range(walk.file_name))

\* An inode and the answer are allocated; get_file_info drops all of it.
AnswerInfo ==
    /\ walk.pc = "listed" /\ walk.call = "info" /\ stage = "up"
    /\ \E e \in Answers :
         LET entry == walk.root[e]
             freed == live \ Dropped(e)
         IN  IF walk.partition = "ext2" /\ GroupOf(entry.inode) < GroupsPerBlock
             THEN /\ live' = Adding(freed, Fresh(freed, 2))
                  /\ walk' = Idle
                  /\ UNCHANGED stage
             ELSE stage' = "garbage" /\ UNCHANGED <<live, walk>>

WalkStep == OpenRoot \/ Descend \/ Skip \/ GiveUp \/ EndWalk \/ Respond \/ NoEntry \/ AnswerInfo

==============================================================================
