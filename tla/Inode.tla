---------------------------------- MODULE Inode ----------------------------------
(***********************************************************************************)
(* The inode as src/done/inode.c and src/done/inode.h read it: the size kept in    *)
(* two fields, and the map from a sector offset in the file to a sector of the     *)
(* disk.                                                                           *)
(*                                                                                 *)
(* An inode is a record [mode, size, addr]: addr[k] is i_addr[k], a sector number, *)
(* and size is what inode_getsize answers (the two fields it is kept in are        *)
(* modelled by inode_setsize and inode_getsize below).  Sizes count units, and     *)
(* SectorSize says how many units a sector has.  A unit holds one 16-bit word, so  *)
(* an indirect sector holds SectorSize addresses: with a unit of two bytes the     *)
(* numbers are the code's, SectorSize = ADDRESSES_PER_SECTOR = 256.                *)
(*                                                                                 *)
(* words[s][k] is the k-th word of sector s; sectors outside DOMAIN words are      *)
(* beyond the end of the image, where sector_read answers ERR_IO.                  *)
(***********************************************************************************)
EXTENDS U6Base

CONSTANTS
    SectorSize,   \* SECTOR_SIZE, in units
    AddrSmall,    \* ADDR_SMALL_LENGTH, 8 in the code
    WordValues    \* the number of values of a 16-bit word, 65536 in the code

ASSUME GeometryAssumption ==
    /\ SectorSize \in Nat \ {0}
    /\ AddrSmall \in Nat /\ AddrSmall >= 2
    /\ WordValues \in Nat \ {0}

AddressesPerSector == SectorSize
Word == 0 .. WordValues - 1

\* i_mode, as far as the code looks at it: not allocated (no IALLOC), or
\* allocated and a directory (IFDIR) or not.
Modes == {"free", "file", "dir"}

\* The highest sector offset plus one that a file may have: MEDIUM_FILESYS_SIZE.
MediumSize == (AddrSmall - 1) * AddressesPerSector

Inodes(maxsize) == [mode : Modes, size : 0 .. maxsize, addr : [0 .. AddrSmall - 1 -> Word]]

NoAddr == [k \in 0 .. AddrSmall - 1 |-> 0]

-----------------------------------------------------------------------------------
(* The size in bytes: i_size0 holds its high byte, i_size1 the two low ones. *)

\* Negative, or of more than 24 bits: refused.  The mask the code keeps for i_size1
\* has one bit too many (17); the assignment to a 16-bit field drops it.
inode_setsize(new_size) ==
    IF new_size < 0 \/ new_size \div 16777216 # 0
      THEN [ret |-> ERR_BAD_PARAMETER, i_size0 |-> 0, i_size1 |-> 0]
      ELSE [ret     |-> ERR_NONE,
            i_size0 |-> (new_size \div 65536) % 256,
            i_size1 |-> (new_size % 131072) % 65536]

inode_getsize(i_size0, i_size1) == i_size0 * 65536 + i_size1

-----------------------------------------------------------------------------------
(* From an offset in the file to a sector of the disk. *)

\* Mutant: a last sector that is not full is forgotten.
SizeTot_full(size) == size \div SectorSize

\* The number of sectors the code believes a file to have: one more than the size
\* needs when the size is a multiple of the sector size.
SizeTot(size) == size \div SectorSize + 1

\* A word read into the int16_t of inode_findsector_bigfile.
Int16(w) == IF w < WordValues \div 2 THEN w ELSE w - WordValues

\* Mutant: table and index swapped.
inode_findsector_bigfile_swapped(words, i, off) ==
    LET table == i.addr[off % AddressesPerSector]
    IN  IF table \notin DOMAIN words THEN ERR_IO
                                     ELSE Int16(words[table][off \div AddressesPerSector])

inode_findsector_bigfile(words, i, off) ==
    LET table == i.addr[off \div AddressesPerSector]
    IN  IF table \notin DOMAIN words THEN ERR_IO
                                     ELSE Int16(words[table][off % AddressesPerSector])

inode_findsector(words, i, off) ==
    CASE i.mode = "free"                                -> ERR_UNALLOCATED_INODE
      [] i.mode # "free" /\ off \notin 0 .. SizeTot(i.size) - 1 -> ERR_OFFSET_OUT_OF_RANGE
      [] OTHER ->
           IF SizeTot(i.size) <= AddrSmall THEN i.addr[off]
           ELSE IF SizeTot(i.size) <= MediumSize
             THEN inode_findsector_bigfile(words, i, off)
             ELSE ERR_FILE_TOO_LARGE
===================================================================================
