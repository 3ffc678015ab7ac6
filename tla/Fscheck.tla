------------------------------- MODULE Fscheck -------------------------------
(***************************************************************************)
(* The checks of p7/p7b/fscheck.c, as operators on an image: its inodes    *)
(* (ino), the blocks its bitmap marks (map) and what is in the blocks      *)
(* (blk).                                                                  *)
(***************************************************************************)
EXTENDS DiskImage

InUse(ino) == {i \in Inum : ino[i].nlink > 0}
Used(ino)  == {ino[i].addr : i \in InUse(ino)} \ {0}

\* "bitmap marks data free but data block used by inode"
DataMarkedFree(ino, map) == ~(Used(ino) \subseteq map)

\* "bad inode": symbolic links came with another assignment.
BadInode(ino) == \E i \in InUse(ino) : ino[i].type \notin {"dir", "file", "dev"}

\* "bitmap marks data block in use but not used"
MarkedUnused(ino, map) == ~(map \subseteq Used(ino))

\* "bad size in inode"
BadSize(ino) == \E i \in InUse(ino) : ino[i].size # (IF ino[i].addr = 0 THEN 0 ELSE 1)

\* "root directory does not exist"
NoRoot(ino, blk) == \/ ino[RootInum].type # "dir"
                    \/ blk[ino[RootInum].addr].self # RootInum
                    \/ blk[ino[RootInum].addr].up # RootInum

\* "current directory mismatch"
BadCurrent(ino, blk) == \E i \in Inum : ino[i].type = "dir" /\ blk[ino[i].addr].self # i

\* The inodes that a directory's block names, up to the first zeroed entry.
Listed(c) == {c.self, c.up} \union
             {c.slot[k].inum : k \in {k \in Slot : \A j \in 1..k : c.slot[j].inum # 0}}
InDirectory(ino, blk) ==
    UNION {Listed(blk[ino[i].addr]) : i \in {i \in InUse(ino) : ino[i].type = "dir"}}

\* "inode marked free but referred to in directory".  iNodesArr is not set for
\* a free inode: whether it is 1 is up to the stack.
FreeReferred(ino, blk) == ~(InDirectory(ino, blk) \subseteq InUse(ino))

\* "inode marked in use but not found in a directory"
UsedNotFound(ino, blk) == ~(InUse(ino) \subseteq InDirectory(ino, blk))
=============================================================================
