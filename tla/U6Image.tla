---------------------------------- MODULE U6Image ----------------------------------
(***********************************************************************************)
(* The disk image and everything that only reads it: the directory reader and the  *)
(* path lookup (src/done/direntv6.c), and the bitmaps built at mount (src/done/    *)
(* mount.c).                                                                       *)
(*                                                                                 *)
(* An image is a record [itab, data].  itab[inr] is the inode stored for number    *)
(* inr in the inode sectors.  data[s] is the content of sector s, SectorSize       *)
(* cells of 16 bytes; a cell is a directory entry or 16 bytes of a file, in both   *)
(* cases a first word (d_inumber) and the fourteen bytes behind it (d_name).  So a *)
(* size counts cells, and of a table of addresses only the first word of every     *)
(* cell is kept.  Sectors outside DOMAIN data are beyond the end of the image      *)
(* file.  The sectors below s_block_start are in DOMAIN data, but what the inode   *)
(* sectors hold as bytes is not kept there.                                        *)
(***********************************************************************************)
EXTENDS InodeTable, BmBlock, Sequences

CONSTANTS
    s_block_start,     \* superblock: first data sector
    s_fsize,           \* superblock: sectors of the volume
    Names,             \* what the fourteen bytes d_name may hold
    LongNames          \* components of more than DIRENT_MAXLEN characters

ASSUME VolumeAssumption ==
    /\ SectorSize >= 2                \* 32 in the code
    /\ s_block_start \in Nat \ {0} /\ s_fsize \in Nat
    /\ s_block_start <= s_fsize /\ s_fsize < WordValues
    /\ "" \notin Names /\ Names \intersect LongNames = {}

Cells == [inr : Word, name : Names]
Sectors == [0 .. SectorSize - 1 -> Cells]

Volume == 0 .. s_fsize - 1
DataArea == s_block_start .. s_fsize - 1

Words(d) == [s \in DOMAIN d.data |-> [k \in 0 .. SectorSize - 1 |-> d.data[s][k].inr]]

-----------------------------------------------------------------------------------
(* Directory entries. *)

\* filev6_readblock on the block of the p-th cell of file i: its sector, or an error.
CellSector(d, i, p) ==
    LET s == inode_findsector(Words(d), i, p \div SectorSize)
    IN  IF s >= 0 /\ s \notin DOMAIN d.data THEN ERR_IO ELSE s

CellAt(d, i, p) == d.data[CellSector(d, i, p)][p % SectorSize]

\* Mutant: the last entry is not looked at.
Entries_short(i) == 0 .. i.size - 2

\* The entries direntv6_readdir gives of directory i.
Entries(i) == 0 .. i.size - 1

\* One level of direntv6_dirlookup_core: the entries are read in order, up to the
\* first of that name or the first block that cannot be read.
LookupEntry(d, inr, name) ==
    IF opendir(d, inr) # ERR_NONE THEN opendir(d, inr)
    ELSE LET i == d.itab[inr]
             scan[p \in 0 .. i.size] ==
                 IF p \notin Entries(i) THEN ERR_NO_SUCH_FILE
                 ELSE IF CellSector(d, i, p) < 0 THEN CellSector(d, i, p)
                 ELSE IF CellAt(d, i, p).name = name THEN CellAt(d, i, p).inr
                 ELSE scan[p + 1]
         IN  scan[0]

\* A path is the sequence of its components; slashes before and between them, one
\* or several, make no difference to the code.  walk[k] is the directory entered, or
\* the error met, behind the k-th component.
direntv6_dirlookup(d, inr, path) ==
    LET walk[k \in 0 .. Len(path)] ==
          IF k = 0 THEN inr
          ELSE IF walk[k - 1] < 0 THEN walk[k - 1]
          ELSE LookupEntry(d, walk[k - 1], path[k])
    IN  walk[Len(path)]

-----------------------------------------------------------------------------------
(* The bitmaps, built at mount from the inodes. *)

\* How many sector offsets of file i can be translated, counted from 0.
Translated(d, i) ==
    {k \in 0 .. SizeTot(i.size) - 1 :
        \A j \in 0 .. k : inode_findsector(Words(d), i, j) >= 0}

\* Mutant: full sectors only.
UsedSectors_full(d, i) ==
    {inode_findsector(Words(d), i, k) : k \in 0 .. i.size \div SectorSize - 1}

\* write_sector_on_bitmap: the direct or indirect sectors, by the inode, and every
\* data sector until one cannot be translated.
UsedSectors(d, i) ==
    {i.addr[k] : k \in IF SizeTot(i.size) <= MediumSize
                         THEN 0 .. SizeTot(i.size) \div AddressesPerSector ELSE {}}
    \union {inode_findsector(Words(d), i, k) : k \in Translated(d, i)}

write_sector_on_bitmap(d, i) ==
    LET last == inode_findsector(Words(d), i, Cardinality(Translated(d, i)))
    IN  IF last # ERR_OFFSET_OUT_OF_RANGE THEN last ELSE ERR_NONE

\* Mutant: the data bitmap begins in the inode sectors.
DataBitmap_early == bm_alloc(s_block_start - 1, s_fsize)

\* The bitmaps mountv6 allocates: note that s_fsize itself is no sector.
InodeBitmap == bm_alloc(ROOT_INUMBER, s_isize * InodesPerSector)
DataBitmap == bm_alloc(s_block_start, s_fsize)

\* Mutant: bm_set without its check of the window.
MarkAll_unchecked(bm, X) == [bm EXCEPT !.bits = @ \union X]

\* bm_set for every number in X; it ignores those outside the window.
MarkAll(bm, X) == [bm EXCEPT !.bits = @ \union (X \intersect (bm.min .. bm.max))]

\* The marks of an inode that spoils the mount are lost with the bitmaps.  An inode
\* sector is marked as well, which has no effect outside the data area.
fill_bitmaps(d) ==
    LET used == {inr \in ScannedInodes : inode_read(d, inr) = ERR_NONE}
        bad  == {inr \in used : write_sector_on_bitmap(d, d.itab[inr]) # ERR_NONE}
    IN  [ret |-> IF bad = {} THEN ERR_NONE
                 ELSE write_sector_on_bitmap(d, d.itab[Min(bad)]),
         ibm |-> MarkAll(InodeBitmap, used),
         fbm |-> MarkAll(DataBitmap, UNION {UsedSectors(d, d.itab[inr]) : inr \in used})]
===================================================================================
