---------------------------------- MODULE InodeTable ----------------------------------
(***********************************************************************************)
(* The inodes of an image and what is decided by them alone: inode_read and        *)
(* inode_write (src/done/inode.c), direntv6_opendir, and the numbers that the      *)
(* loops over all inodes reach.                                                    *)
(*                                                                                 *)
(* d.itab[inr] is the inode stored for number inr in the inode sectors of image d. *)
(***********************************************************************************)
EXTENDS Inode

CONSTANTS
    InodesPerSector,   \* INODES_PER_SECTOR, 16 in the code
    s_isize            \* superblock: sectors of inodes

ASSUME InodeTableAssumption ==
    /\ InodesPerSector \in Nat \ {0, 1} /\ s_isize \in Nat \ {0}
    /\ InodesPerSector * s_isize < WordValues

\* The numbers of the inodes stored, 0 included, which names nothing.
InodeNumbers == 0 .. InodesPerSector * s_isize - 1

inode_read(d, inr) ==
    CASE inr \notin InodeNumbers \ {0} -> ERR_INODE_OUT_OF_RANGE
      [] inr \in InodeNumbers \ {0} /\ d.itab[inr].mode = "free" -> ERR_UNALLOCATED_INODE
      [] OTHER                         -> ERR_NONE

\* inode_write has the same bounds, and does not look at what it overwrites.
inode_write(itab, inr, inode) == [itab EXCEPT ![inr] = inode]

\* direntv6_opendir
opendir(d, inr) ==
    IF inode_read(d, inr) # ERR_NONE THEN inode_read(d, inr)
    ELSE IF d.itab[inr].mode # "dir" THEN ERR_INVALID_DIRECTORY_INODE ELSE ERR_NONE

\* Mutant: the first inode sector only.
ScannedInodes_first == 1 .. InodesPerSector - 1

\* The numbers fill_bitmaps looks at: its loop ends one inode sector early.
ScannedInodes == 1 .. InodesPerSector * (s_isize - 1)
===================================================================================
