------------------------------- MODULE MCVfs -------------------------------
EXTENDS Vfs

Entry(n, i) == [name |-> n, inode |-> i]

\* Inodes in groups of four, two to a block, two groups described: inode 2 is
\* the root, 9 lies in a group whose descriptor is not read.
MCTree ==
    [i \in {2, 3, 4, 5, 6, 7, 9} |->
        CASE i = 2 -> [kind |-> "dir",
                       entries |-> <<Entry(".", 2), Entry("..", 2), Entry("Hello", 3),
                                     Entry("Hellos", 4), Entry("text", 6), Entry("void", 7),
                                     Entry("far", 9)>>]
          [] i = 3 -> [kind |-> "dir", entries |-> <<Entry(".", 3), Entry("..", 2), Entry("in", 5)>>]
          [] i = 4 -> [kind |-> "dir", entries |-> <<Entry(".", 4), Entry("..", 2)>>]
          [] i = 5 -> [kind |-> "dir", entries |-> <<Entry(".", 5), Entry("..", 3)>>]
          [] i = 6 -> [kind |-> "file", entries |-> <<>>]
          [] i = 7 -> [kind |-> "empty", entries |-> <<>>]
          [] i = 9 -> [kind |-> "dir", entries |-> <<Entry(".", 9), Entry("..", 2)>>]]

MCNames == {".", "..", "Hello", "Hellos", "text", "void", "far", "in", "no"}
MCLonger == [n \in MCNames |-> CASE n = "Hello" -> {"Hellos"} [] n = "." -> {".."} [] OTHER -> {}]

Dir(names) == [first |-> TRUE, names |-> names, last |-> TRUE]

\* The last three: "/Hello/in", "Hello/" and "".
MCPaths ==
    {Dir(<<>>), Dir(<<"Hello">>), Dir(<<"Hello", "in">>), Dir(<<"Hello", "no">>), Dir(<<"no">>),
     Dir(<<"text">>), Dir(<<"void", "no">>), Dir(<<"far">>),
     [first |-> TRUE, names |-> <<"Hello", "in">>, last |-> FALSE],
     [first |-> FALSE, names |-> <<"Hello">>, last |-> TRUE],
     [first |-> FALSE, names |-> <<>>, last |-> FALSE]}

Disk(a, b, c, d) == [disks |-> 1, table |-> <<a, b, c, d>>]
MCComputers ==
    {[disks |-> 0, table |-> <<"none", "none", "none", "none">>],
     Disk("none", "none", "none", "none"),
     Disk("ext2", "none", "none", "none"),
     Disk("none", "ext2", "foreign", "linux"),
     Disk("foreign", "ext2", "none", "none"),
     Disk("linux", "ext2", "none", "none"),
     Disk("ext2 large", "foreign", "none", "none")}
==========================================================================
