---------------------------------- MODULE MCListing ----------------------------------
(***********************************************************************************)
(* Images with four inode numbers, a root of up to four entries, and inodes 2 and  *)
(* 3 that are missing, files or directories, whole or spoiled.  Sectors 3 and 8    *)
(* are address tables, the data are in sectors 4 to 7, and a sector may hold the   *)
(* same entry twice.  The second word of sector 8 is -120 as an int16_t.           *)
(***********************************************************************************)
EXTENDS Listing

\* cat1 of an inode, of the same one behind the range of a word, of none, of no number.
MCCommands ==
    [op : {"tree", "inode", "shafiles"}, arg : {0}] \union
    [op : {"cat1"}, arg : {0, 2, WordValues + 2, WordValues - 1, INT_MIN}]

Free == [mode |-> "free", size |-> 0, addr |-> NoAddr]

Stored(mode, size, first, second) ==
    [mode |-> mode, size |-> size, addr |-> [NoAddr EXCEPT ![0] = first, ![1] = second]]

\* A root that ends with an entry, in the middle of one, or before one begins.
Roots == {Stored("dir", size, 4, 5) : size \in {0, 3, 5, 6, 8}} \union {Free}

\* Empty, of one sector and a piece, of which one cannot be read, behind the tables.
Files == {Stored("file", 0, 0, 0), Stored("file", 5, 6, 7), Stored("file", 5, 6, 9),
          Stored("file", 13, 3, 0), Stored("file", 13, 8, 0)}

\* Whole, and beyond the image; sector 6 or 7 holds their entries.
Directories(s) == {Stored("dir", 2, s, 0), Stored("dir", 2, 9, 0)}

Sector(a, b, s) == [k \in 0 .. SectorSize - 1 |->
    CASE k = 0 -> a [] k = 1 -> 2 * s [] k = 2 -> b [] k = 3 -> IF a = b THEN 2 * s ELSE 2 * s + 1]

MCImages ==
    {[itab  |-> [inr \in InodeNumbers |-> <<root, two, three, Free>>[IF inr = 0 THEN 4 ELSE inr]],
      words |-> [s \in 3 .. 8 |->
                    CASE s = 3 -> [k \in 0 .. SectorSize - 1 |-> 4 + k]
                      [] s = 4 -> Sector(a, b, 4) [] s = 5 -> Sector(c, 3, 5)
                      [] s = 6 -> Sector(d, 0, 6) [] s = 7 -> Sector(e, 0, 7)
                      [] s = 8 -> [k \in 0 .. SectorSize - 1 |-> IF k = 1 THEN 136 ELSE 4]]] :
        root \in Roots, two \in {Free} \union Files \union Directories(6),
        three \in {Free} \union Directories(7) \union {Stored("file", 5, 6, 7), Stored("file", 13, 8, 0)},
        a \in {2, 3}, b \in {0, 2, 3}, c \in {1, 2}, d \in {1, 3}, e \in {0, 2}}

\* Of these, the ones where the root leads to two files, in different inode sectors.
TwoFiles ==
    {d \in MCImages : /\ d.itab[1] = Stored("dir", 6, 4, 5)
                      /\ d.itab[2].mode = "file" /\ d.itab[3] = Stored("file", 5, 6, 7)
                      /\ d.words[4][0] = 2 /\ d.words[4][2] = 3 /\ d.words[5][0] = 2}
===================================================================================
