------------------------------ MODULE DiskImage ------------------------------
(***************************************************************************)
(* What fs.h and mkfs.c put on a disk, for files that have at most one     *)
(* block: directories and symbolic links have one, other files none.       *)
(***************************************************************************)
EXTENDS Naturals, Sequences, FiniteSetsExt

CONSTANTS NInode,  \* sb.ninodes
          NBlock,  \* data blocks
          Name,    \* names in a directory, "." and ".." apart
          NoName   \* the name in an entry that was zeroed

ASSUME ImageAssumption == /\ NInode \in Nat \ {0} /\ NBlock \in Nat \ {0}
                          /\ IsFiniteSet(Name) /\ Name # {} /\ NoName \notin Name

RootInum == 1
Inum  == 1..NInode
Block == 1..NBlock
Slot  == 1..Cardinality(Name)  \* entries of a directory behind its first two

\* struct dinode; size is in blocks, addr is addrs[0].
FreeInode == [type |-> "free", nlink |-> 0, addr |-> 0, size |-> 0]

\* A block that balloc() has zeroed.  In a directory self and up are the inodes
\* of "." and "..", in a symbolic link target is the path.
Hole   == [name |-> NoName, inum |-> 0]
Zeroed == [self |-> 0, up |-> 0, slot |-> [k \in Slot |-> Hole], target |-> <<>>]

\* The file system of mkfs.c: the root directory, and nothing in it.
RootInode == [type |-> "dir", nlink |-> 1, addr |-> 1, size |-> 1]
RootBlock == [Zeroed EXCEPT !.self = RootInum, !.up = RootInum]
=============================================================================
