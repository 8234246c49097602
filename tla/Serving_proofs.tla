-------------------------------- MODULE Serving_proofs --------------------------------
(***********************************************************************************)
(* The server beside any number of writing commands: what it has read at different *)
(* times, through pages of different ages, is true of the disk as it is, so that   *)
(* its answers are.                                                                *)
(***********************************************************************************)
EXTENDS ServingInvariant, U6fs_proofs

-----------------------------------------------------------------------------------
(* Later images. *)

\* What a page tells of a file stays true when the image grows.
LEMMA TellsLater ==
    ASSUME NEW d, Sound(d), NEW e, Sound(e), Grown(d, e), NEW b, NEW inr, NEW i, i.size \in Nat,
           Tells(d, b, inr, i)
    PROVE  Tells(e, b, inr, i)
<1>1. inr \in Live(d) /\ i.mode = d.itab[inr].mode /\ i.size <= d.itab[inr].size
  BY DEF Tells
<1>2. /\ inr \in Live(e) /\ e.itab[inr].mode = d.itab[inr].mode
      /\ e.itab[inr].size >= d.itab[inr].size
  BY <1>1, GrownKeeps DEF Grown
<1>3. d.itab[inr].size \in Nat /\ e.itab[inr].size \in Nat
  BY <1>1, <1>2, InodeInUse DEF Sound
<1>4. ASSUME NEW p \in 0 .. i.size - 1
      PROVE  Place(e, inr, p) = Place(d, inr, p) /\ Cell(e, inr, p) = Cell(d, inr, p)
  <2>1. p \in Positions(d, inr)
    BY <1>1, <1>3 DEF Positions
  <2>. QED BY <1>1, <2>1 DEF Grown
<1>. QED BY <1>1, <1>2, <1>3, <1>4 DEF Tells

\* So does all that a page tells.
LEMMA PageLater ==
    ASSUME NEW d, Sound(d), NEW e, Sound(e), Grown(d, e), NEW b, PageTyped(b), PageTells(d, b)
    PROVE  PageTells(e, b)
<1>1. ASSUME NEW inr \in DOMAIN b.itab \ {0}, b.itab[inr].mode # "free"
      PROVE  Tells(e, b, inr, b.itab[inr])
  <2>1. b.itab[inr].size \in Nat
    BY Format DEF PageTyped, Inodes
  <2>2. Tells(d, b, inr, b.itab[inr])
    BY <1>1 DEF PageTells
  <2>. QED BY <2>1, <2>2, TellsLater
<1>. QED BY <1>1 DEF PageTells

\* The beginning of a path is one.
LEMMA Beginning ==
    ASSUME NEW T, NEW path \in Seq(T), NEW n \in 0 .. Len(path)
    PROVE  /\ SubSeq(path, 1, n) \in Seq(T) /\ Len(SubSeq(path, 1, n)) = n
           /\ \A m \in 0 .. n : SubSeq(SubSeq(path, 1, n), 1, m) = SubSeq(path, 1, m)
           /\ \A m \in 1 .. n : SubSeq(path, 1, n)[m] = path[m]
           /\ SubSeq(path, 1, Len(path)) = path
<1>1. \A k \in 1 .. n : path[k] \in T
  OBVIOUS
<1>2. SubSeq(path, 1, n) \in Seq(T) /\ Len(SubSeq(path, 1, n)) = n
      /\ \A m \in 1 .. n : SubSeq(path, 1, n)[m] = path[m]
  BY <1>1
<1>3. ASSUME NEW m \in 0 .. n PROVE SubSeq(SubSeq(path, 1, n), 1, m) = SubSeq(path, 1, m)
  BY <1>2
<1>. QED BY <1>2, <1>3

\* Where a beginning of a path leads it does on later images.
LEMMA AtLater ==
    ASSUME NEW d, Sound(d), NEW e, Sound(e), Grown(d, e), NEW T, NEW path \in Seq(T),
           NEW n \in 0 .. Len(path), At(d, path, n) \in Live(d)
    PROVE  At(e, path, n) = At(d, path, n) /\ At(e, path, n) \in Live(e)
<1>1. SubSeq(path, 1, n) \in Seq(T)
  BY Beginning
<1>2. At(e, path, n) = At(d, path, n)
  BY <1>1, PathStays DEF At
<1>. QED BY <1>2, GrownKeeps

\* A page that is not older than the entries of a path stays so.
LEMMA KnowsLater ==
    ASSUME NEW d, Sound(d), NEW e, Sound(e), Grown(d, e), NEW b, NEW T, NEW path \in Seq(T),
           NEW n \in 0 .. Len(path), Knows(d, b, path, n)
    PROVE  Knows(e, b, path, n)
<1>1. SUFFICES ASSUME NEW m \in 0 .. n - 1
               PROVE  LET dir == At(e, path, m)
                      IN  /\ dir \in Directories(e)
                          /\ \E p \in Positions(e, dir) :
                                /\ Cell(e, dir, p) = [inr |-> At(e, path, m + 1), name |-> path[m + 1]]
                                /\ dir \in DOMAIN b.itab =>
                                      b.itab[dir].mode # "free" /\ p < b.itab[dir].size
  BY DEF Knows
<1> DEFINE dir == At(d, path, m)
<1>2. dir \in Directories(d)
  BY DEF Knows
<1>3. PICK p \in Positions(d, dir) :
         /\ Cell(d, dir, p) = [inr |-> At(d, path, m + 1), name |-> path[m + 1]]
         /\ dir \in DOMAIN b.itab => b.itab[dir].mode # "free" /\ p < b.itab[dir].size
  BY DEF Knows
<1>4. dir \in Live(d) /\ At(d, path, m + 1) \in Live(d)
  <2>1. Cell(d, dir, p).inr \in Live(d)
    BY <1>2 DEF Sound, Named
  <2>. QED BY <1>2, <1>3, <2>1 DEF Directories
<1>5. At(e, path, m) = dir /\ At(e, path, m + 1) = At(d, path, m + 1)
  <2>1. m \in 0 .. Len(path) /\ m + 1 \in 0 .. Len(path)
    OBVIOUS
  <2>. QED BY <1>4, <2>1, AtLater
<1>6. dir \in Directories(e) /\ p \in Positions(e, dir) /\ Cell(e, dir, p) = Cell(d, dir, p)
  BY <1>2, <1>4, GrownKeeps DEF Grown
<1>. QED BY <1>3, <1>5, <1>6

-----------------------------------------------------------------------------------
(* Pages read now. *)

\* What a file was, the page read now still tells.
LEMMA NowTells ==
    ASSUME Sound(disk), NEW page, NEW inr \in Live(disk), NEW i,
           i.mode = disk.itab[inr].mode, i.size \in Nat, i.size <= disk.itab[inr].size,
           \A p \in 0 .. i.size - 1 : i.addr[p \div SectorSize] = Place(disk, inr, p)
    PROVE  Tells(disk, PageNow(page), inr, i)
<1> DEFINE b == PageNow(page)
<1>1. /\ b.page = page
      /\ DOMAIN b.itab \subseteq InodeNumbers
      /\ \A n \in DOMAIN b.itab : b.itab[n] = disk.itab[n]
      /\ DOMAIN b.data = {x \in DOMAIN disk.data : PageOf(x) = page}
      /\ \A s \in DOMAIN b.data : b.data[s] = disk.data[s]
  BY DEF PageNow
<1> HIDE DEF b
<1>2. disk.itab[inr].size \in Nat
  BY InodeInUse DEF Sound
<1>3. ASSUME NEW p \in 0 .. i.size - 1
      PROVE  /\ PageOf(Place(disk, inr, p)) = b.page =>
                   /\ Place(disk, inr, p) \in DOMAIN b.data
                   /\ b.data[Place(disk, inr, p)][p % SectorSize] = Cell(disk, inr, p)
             /\ i.mode = "dir" => Shows(b, Cell(disk, inr, p).inr)
  <2>1. p \in Positions(disk, inr)
    BY <1>2 DEF Positions
  <2>2. Place(disk, inr, p) \in DOMAIN disk.data
    BY <2>1, Readable
  <2>3. i.mode = "dir" => Cell(disk, inr, p).inr \in Live(disk)
    BY <2>1 DEF Sound, Named, Directories
  <2>. QED BY <1>1, <2>2, <2>3 DEF Cell, Shows, Live
<1>. QED BY <1>3 DEF Tells, b

\* The page read now has every inode in use that is in its sectors.
LEMMA NowShows ==
    ASSUME NEW page, NEW inr \in Live(disk) PROVE Shows(PageNow(page), inr)
BY DEF Shows, PageNow, Live

\* The page read now is a page, and tells the truth.
LEMMA NowIsPage ==
    ASSUME Sound(disk), NEW page \in Nat
    PROVE  PageTyped(PageNow(page)) /\ PageTells(disk, PageNow(page))
<1> DEFINE b == PageNow(page)
<1>1. /\ b.page = page
      /\ DOMAIN b.itab = {n \in InodeNumbers : PageOf(InodeSector(n)) = page}
      /\ \A n \in DOMAIN b.itab : b.itab[n] = disk.itab[n]
      /\ DOMAIN b.data = {x \in DOMAIN disk.data : PageOf(x) = page}
      /\ \A s \in DOMAIN b.data : b.data[s] = disk.data[s]
  BY DEF PageNow
<1>2. PageTyped(b)
  <2> HIDE DEF b
  <2>1. Typed(disk)
    BY DEF Sound
  <2>. QED BY <1>1, <2>1 DEF PageTyped, Typed
<1>3. ASSUME NEW inr \in DOMAIN b.itab \ {0}, b.itab[inr].mode # "free"
      PROVE  Tells(disk, b, inr, b.itab[inr])
  <2>1. inr \in Live(disk) /\ b.itab[inr] = disk.itab[inr]
    BY <1>1, <1>3 DEF Live
  <2>2. disk.itab[inr].size \in Nat
    BY <2>1, InodeInUse DEF Sound
  <2>3. \A p \in 0 .. disk.itab[inr].size - 1 :
           disk.itab[inr].addr[p \div SectorSize] = Place(disk, inr, p)
    BY DEF Place
  <2>4. Tells(disk, PageNow(page), inr, disk.itab[inr])
    BY <2>1, <2>2, <2>3, NowTells
  <2>. QED BY <2>1, <2>4
<1>4. Shows(b, ROOT_INUMBER)
  BY NowShows DEF Sound, Rooted, Directories
<1>. QED BY <1>2, <1>3, <1>4 DEF PageTells

\* The page read now is not older than any path there is.
LEMMA NowKnows ==
    ASSUME Sound(disk), NEW page, NEW T, NEW path \in Seq(T), NEW n \in 0 .. Len(path),
           At(disk, path, n) \in Live(disk)
    PROVE  Knows(disk, PageNow(page), path, n)
<1> DEFINE b == PageNow(page)
<1>1. DOMAIN b.itab \subseteq InodeNumbers /\ \A k \in DOMAIN b.itab : b.itab[k] = disk.itab[k]
  BY DEF PageNow
<1> HIDE DEF b
<1>2. SUFFICES ASSUME NEW m \in 0 .. n - 1
               PROVE  LET dir == At(disk, path, m)
                      IN  /\ dir \in Directories(disk)
                          /\ \E p \in Positions(disk, dir) :
                                /\ Cell(disk, dir, p) = [inr |-> At(disk, path, m + 1), name |-> path[m + 1]]
                                /\ dir \in DOMAIN b.itab =>
                                      b.itab[dir].mode # "free" /\ p < b.itab[dir].size
  BY DEF Knows, b
<1> DEFINE dir == At(disk, path, m)
<1>3. ASSUME NEW k \in 0 .. n - 1 PROVE At(disk, path, k) \in Directories(disk)
  <2>1. SubSeq(path, 1, n) \in Seq(T) /\ Len(SubSeq(path, 1, n)) = n
        /\ SubSeq(SubSeq(path, 1, n), 1, k) = SubSeq(path, 1, k)
    BY Beginning
  <2>. QED BY <2>1, ThroughDirectories DEF At
<1>4. At(disk, path, m + 1) \in Live(disk)
  <2>1. m + 1 = n \/ m + 1 \in 0 .. n - 1
    OBVIOUS
  <2>. QED BY <2>1, <1>3 DEF Directories
<1>5. PICK p \in Positions(disk, dir) :
         Cell(disk, dir, p).name = path[m + 1] /\ Cell(disk, dir, p).inr = At(disk, path, m + 1)
  <2>1. m \in 0 .. Len(path) - 1
    OBVIOUS
  <2>2. /\ At(disk, path, m + 1) = direntv6_dirlookup(disk, ROOT_INUMBER, SubSeq(path, 1, m + 1))
        /\ At(disk, path, m) = direntv6_dirlookup(disk, ROOT_INUMBER, SubSeq(path, 1, m))
    BY DEF At
  <2>3. \E p \in Positions(disk, At(disk, path, m)) :
           /\ Cell(disk, At(disk, path, m), p).name = path[m + 1]
           /\ Cell(disk, At(disk, path, m), p).inr = At(disk, path, m + 1)
    BY <1>4, <2>1, <2>2, EntryBehind
  <2>. QED BY <2>3
<1>6. dir \in Directories(disk) /\ dir \in Live(disk)
  BY <1>3 DEF Directories
<1>7. Cell(disk, dir, p) = [inr |-> At(disk, path, m + 1), name |-> path[m + 1]]
  <2>1. Cell(disk, dir, p) \in Cells
    BY <1>6, Readable
  <2>. QED BY <1>5, <2>1 DEF Cells
<1>8. p < disk.itab[dir].size /\ disk.itab[dir].mode # "free"
  <2>1. disk.itab[dir].size \in Nat
    BY <1>6, InodeInUse DEF Sound
  <2>. QED BY <1>6, <2>1 DEF Positions, Live
<1>. QED BY <1>1, <1>6, <1>7, <1>8

-----------------------------------------------------------------------------------
(* A sector is read through the buffer. *)

\* The page is read now, or it is the one that is there.
LEMMA FetchCases ==
    ASSUME NEW b, NEW s
    PROVE  /\ Fetch(b, s).page = PageOf(s)
           /\ \/ Fetch(b, s) = b
              \/ b.page # PageOf(s) /\ Fetch(b, s) = PageNow(PageOf(s))
BY DEF Fetch, PageNow

\* Sectors are on pages.
LEMMA Pages == ASSUME NEW s \in Nat PROVE PageOf(s) \in Nat
BY ServingAssumption, Quotient DEF PageOf

\* The sector of an inode is one.
LEMMA InodeSectors == ASSUME NEW inr \in InodeNumbers PROVE InodeSector(inr) \in Nat
<1>1. inr \in Nat
  <2>1. InodesPerSector * s_isize \in Nat
    BY Format, SMTT(30)
  <2>. QED BY <2>1 DEF InodeNumbers
<1>2. inr \div InodesPerSector \in Nat
  BY <1>1, Format, Quotient
<1>. QED BY <1>2, Format, ServingAssumption DEF InodeSector

\* A page stays a page, and true.
LEMMA FetchIsPage ==
    ASSUME Sound(disk), NEW b, PageTyped(b), PageTells(disk, b), NEW s \in Nat
    PROVE  PageTyped(Fetch(b, s)) /\ PageTells(disk, Fetch(b, s))
BY FetchCases, NowIsPage, Pages

\* What a page tells and shows the next one does.
LEMMA FetchTells ==
    ASSUME Sound(disk), NEW b, NEW s, NEW inr, NEW i, i.size \in Nat, Tells(disk, b, inr, i)
    PROVE  Tells(disk, Fetch(b, s), inr, i)
<1>1. CASE Fetch(b, s) = PageNow(PageOf(s))
  <2>1. /\ inr \in Live(disk) /\ i.mode = disk.itab[inr].mode /\ i.size <= disk.itab[inr].size
        /\ \A p \in 0 .. i.size - 1 : i.addr[p \div SectorSize] = Place(disk, inr, p)
    BY DEF Tells
  <2>. QED BY <1>1, <2>1, NowTells
<1>. QED BY <1>1, FetchCases

LEMMA FetchShows ==
    ASSUME NEW b, NEW s, NEW inr \in Live(disk), Shows(b, inr) PROVE Shows(Fetch(b, s), inr)
BY FetchCases, NowShows

LEMMA FetchKnows ==
    ASSUME Sound(disk), NEW b, NEW s, NEW T, NEW path \in Seq(T), NEW n \in 0 .. Len(path),
           At(disk, path, n) \in Live(disk), Knows(disk, b, path, n)
    PROVE  Knows(disk, Fetch(b, s), path, n)
BY FetchCases, NowKnows

\* The size known of a file is not more than the next page has.
LEMMA FetchSize ==
    ASSUME NEW b, NEW s, NEW inr, NEW i, Tells(disk, b, inr, i),
           inr \in DOMAIN b.itab => i.size <= b.itab[inr].size,
           inr \in DOMAIN Fetch(b, s).itab
    PROVE  i.size <= Fetch(b, s).itab[inr].size
<1>1. CASE Fetch(b, s) = PageNow(PageOf(s))
  <2>1. PageNow(PageOf(s)).itab[inr] = disk.itab[inr]
    BY <1>1 DEF PageNow
  <2>. QED BY <1>1, <2>1 DEF Tells
<1>. QED BY <1>1, FetchCases

-----------------------------------------------------------------------------------
(* A block of a file, as it is known. *)

\* A small file has no table, and its sector is the one in its slot, on the image as
\* it is.
LEMMA BlockSector ==
    ASSUME Sound(disk), NEW b, NEW inr, NEW i \in Inodes(MaxSize), Tells(disk, b, inr, i),
           NEW off \in 0 .. i.size - 1
    PROVE  /\ WithTable(b, i, off) = b
           /\ inode_findsector(Words(b), i, off \div SectorSize) = Place(disk, inr, off)
           /\ Place(disk, inr, off) \in DOMAIN disk.data /\ Place(disk, inr, off) \in Nat
<1>1. /\ inr \in Live(disk) /\ i.mode = disk.itab[inr].mode /\ i.size <= disk.itab[inr].size
      /\ i.addr[off \div SectorSize] = Place(disk, inr, off)
  BY DEF Tells
<1>2. i.size \in Nat
  BY Format DEF Inodes
<1>3. /\ disk.itab[inr].size \in Nat /\ disk.itab[inr].size < MAX_SIZE
      /\ disk.itab[inr].mode \in {"file", "dir"}
  BY <1>1, InodeInUse DEF Sound
<1>4. i.size < MAX_SIZE /\ off \in 0 .. i.size /\ MAX_SIZE \in Nat
  BY <1>1, <1>2, <1>3, Format
<1>5. SizeTot(i.size) \in Nat /\ SizeTot(i.size) <= AddrSmall
      /\ off \div SectorSize \in 0 .. SizeTot(i.size) - 1
  <2> DEFINE n == i.size
  <2>1. n \in Nat /\ n < MAX_SIZE /\ off \in 0 .. n
    BY <1>2, <1>4
  <2> HIDE DEF n
  <2>2. SizeTot(n) \in Nat /\ SizeTot(n) <= AddrSmall /\ off \div SectorSize \in 0 .. SizeTot(n) - 1
    BY <2>1, Slot
  <2>. QED BY <2>2 DEF n
<1>6. WithTable(b, i, off) = b
  BY <1>5, Format DEF WithTable
<1>7. off \in Positions(disk, inr)
  BY <1>1, <1>2, <1>3 DEF Positions
<1>8. Place(disk, inr, off) \in DOMAIN disk.data /\ Place(disk, inr, off) \in Nat
  BY <1>1, <1>7, Readable, Format DEF Numbered
<1>9. inode_findsector(Words(b), i, off \div SectorSize) = Place(disk, inr, off)
  <2>1. i.mode # "free"
    BY <1>1, <1>3
  <2>. QED BY <1>1, <1>5, <2>1 DEF inode_findsector
<1>. QED BY <1>6, <1>8, <1>9

\* How much of it is read, and where that ends.
LEMMA BlockEnds ==
    ASSUME NEW i, i.size \in Nat, NEW off \in 0 .. i.size - 1, off % SectorSize = 0
    PROVE  /\ BlockSize(i, off) \in 1 .. SectorSize
           /\ off + BlockSize(i, off) <= i.size
           /\ (off + BlockSize(i, off)) % SectorSize = 0 \/ off + BlockSize(i, off) = i.size
<1> DEFINE n == i.size
<1>1. BlockSize(i, off) = IF SectorSize <= n - off THEN SectorSize ELSE n - off
  <2>1. SectorSize \in Int /\ n - off \in Int
    BY Format
  <2>. QED BY <2>1, MinOfTwo DEF BlockSize
<1>2. (off + SectorSize) % SectorSize = 0
  <2>1. off \in Nat /\ SectorSize \in Nat \ {0}
    BY Format
  <2>. QED BY <2>1, NextBoundary
<1>3. BlockSize(i, off) = SectorSize \/ BlockSize(i, off) = n - off
  BY <1>1
<1> HIDE DEF n
<1>4. n \in Nat /\ off \in 0 .. n - 1
  BY DEF n
<1>5. BlockSize(i, off) \in 1 .. SectorSize /\ off + BlockSize(i, off) <= n
  BY <1>1, <1>4, Format
<1>6. BlockSize(i, off) = n - off => off + BlockSize(i, off) = n
  BY <1>4
<1>. QED BY <1>2, <1>3, <1>5, <1>6 DEF n

\* A block read through the page that its sector is on is the content of the file.
LEMMA BlockTells ==
    ASSUME Sound(disk), NEW b, NEW inr, NEW i \in Inodes(MaxSize), Tells(disk, b, inr, i),
           NEW off \in 0 .. i.size - 1, off % SectorSize = 0, b.page = PageOf(Place(disk, inr, off)),
           NEW k \in 1 .. BlockSize(i, off)
    PROVE  /\ b.data[Place(disk, inr, off)][k - 1] = Cell(disk, inr, off + k - 1)
           /\ off + k - 1 \in 0 .. i.size - 1 /\ off + k - 1 \in Positions(disk, inr)
           /\ Place(disk, inr, off) \in DOMAIN b.data
           /\ i.mode = "dir" => Shows(b, Cell(disk, inr, off + k - 1).inr)
<1>1. i.size \in Nat /\ inr \in Live(disk) /\ i.size <= disk.itab[inr].size
  BY Format DEF Inodes, Tells
<1>2. disk.itab[inr].size \in Nat
  BY <1>1, InodeInUse DEF Sound
<1>3. k - 1 \in 0 .. SectorSize - 1 /\ off + k - 1 \in 0 .. i.size - 1 /\ off \in Nat
  <2> DEFINE n == i.size
             m == BlockSize(i, off)
  <2>1. n \in Nat /\ m \in 1 .. SectorSize /\ off + m <= n /\ off \in 0 .. n - 1 /\ k \in 1 .. m
    BY <1>1, BlockEnds
  <2> HIDE DEF n, m
  <2>2. k - 1 \in 0 .. SectorSize - 1 /\ off + k - 1 \in 0 .. n - 1 /\ off \in Nat
    BY <2>1, Format
  <2>. QED BY <2>2 DEF n
<1>4. (off + (k - 1)) \div SectorSize = off \div SectorSize /\ (off + (k - 1)) % SectorSize = k - 1
  <2> DEFINE j == k - 1
  <2>1. SectorSize \in Nat \ {0} /\ j \in 0 .. SectorSize - 1 /\ off \in Nat
    BY <1>3, Format
  <2> HIDE DEF j
  <2>2. off % SectorSize = 0
    OBVIOUS
  <2>3. (off + j) \div SectorSize = off \div SectorSize /\ (off + j) % SectorSize = j
    BY <2>1, <2>2, InBlock
  <2>. QED BY <2>3 DEF j
<1>5. off + (k - 1) = off + k - 1
  BY <1>3
<1>6. Place(disk, inr, off + k - 1) = Place(disk, inr, off)
  BY <1>4, <1>5 DEF Place
<1>7. /\ Place(disk, inr, off + k - 1) \in DOMAIN b.data
      /\ b.data[Place(disk, inr, off + k - 1)][(off + k - 1) % SectorSize] = Cell(disk, inr, off + k - 1)
      /\ i.mode = "dir" => Shows(b, Cell(disk, inr, off + k - 1).inr)
  <2>1. PageOf(Place(disk, inr, off + k - 1)) = b.page
    BY <1>6
  <2>. QED BY <1>3, <2>1 DEF Tells
<1>8. off + k - 1 \in Positions(disk, inr)
  BY <1>1, <1>2, <1>3 DEF Positions
<1>. QED BY <1>3, <1>4, <1>5, <1>6, <1>7, <1>8

-----------------------------------------------------------------------------------
(* Writers take a step. *)

\* What is known of the request from its types.
LEMMA Requested ==
    ASSUME RequestTyped
    PROVE  /\ request.path \in Seq(Names) /\ request.rest \in Seq(Names)
           /\ request.inode \in Inodes(MaxSize) /\ request.inode.size \in Nat
           /\ request.off \in 0 .. request.inode.size
           /\ request.op \in {"getattr", "readdir", "read"}
           /\ request.pc \in {"idle", "inode", "block"}
           /\ \A path \in served : path \in Seq(Names)
           /\ \A q \in Requests : q.path \in Seq(Names) /\ q.op \in {"getattr", "readdir", "read"}
           /\ reply.out \in Seq(Cells) /\ Len(reply.out) \in Nat
<1>1. request.inode \in Inodes(MaxSize) /\ request.off \in Nat /\ request.off <= request.inode.size
  BY DEF RequestTyped
<1>2. request.inode.size \in Nat
  BY <1>1, Format DEF Inodes
<1>3. \A q \in Requests : q.path \in Seq(Names) /\ q.op \in {"getattr", "readdir", "read"}
  BY ServingAssumption
<1>4. request.path \in Seq(Names) /\ request.rest \in Seq(Names) /\ reply.out \in Seq(Cells)
      /\ served \subseteq {q.path : q \in Requests}
      /\ request.op \in {"getattr", "readdir", "read"} /\ request.pc \in {"idle", "inode", "block"}
  BY DEF RequestTyped
<1>. QED BY <1>1, <1>2, <1>3, <1>4

\* What the server has read and answered stays true of the disk when others write.
LEMMA WritersStep == ASSUME SInv, AInv', [Next]_vars, UNCHANGED svars PROVE SInv'
<1>1. Sound(disk) /\ Sound(disk') /\ Grown(disk, disk')
  <2>1. Sound(disk) /\ Sound(image) /\ Grown(disk, image) /\ disk' \in {disk, image}
    BY DiskStep DEF SInv, AInv
  <2>. QED BY <2>1, GrownSelf
<1>2. buffer' = buffer /\ request' = request /\ reply' = reply /\ due' = due /\ served' = served
  BY DEF svars
<1>3. /\ PageTyped(buffer) /\ RequestTyped /\ PageTells(disk, buffer)
      /\ Underway /\ InFile /\ Collected /\ AnswerTrue /\ ServedKnown /\ Found
  BY DEF SInv
<1> DEFINE path == request.path
           inode == request.inode
<1>4. /\ path \in Seq(Names) /\ inode \in Inodes(MaxSize) /\ inode.size \in Nat
      /\ request.off \in 0 .. inode.size /\ \A s \in served : s \in Seq(Names)
      /\ Len(reply.out) \in Nat /\ Len(path) \in Nat
  BY <1>3, Requested
<1> HIDE DEF path, inode
<1>5. PageTyped(buffer') /\ RequestTyped' /\ PageTells(disk', buffer')
  <2>1. RequestTyped'
    BY <1>2, <1>3 DEF RequestTyped
  <2>. QED BY <1>1, <1>2, <1>3, <2>1, PageLater
<1>6. ASSUME NEW s \in Seq(Names), NEW n \in 0 .. Len(s), At(disk, s, n) \in Live(disk)
      PROVE  /\ At(disk', s, n) = At(disk, s, n) /\ At(disk', s, n) \in Live(disk')
             /\ Knows(disk, buffer, s, n) => Knows(disk', buffer, s, n)
  BY <1>1, <1>6, AtLater, KnowsLater
<1>7. ASSUME NEW inr \in Live(disk)
      PROVE  /\ inr \in Live(disk') /\ disk.itab[inr].size \in Nat
             /\ disk'.itab[inr].size \in Nat
             /\ disk'.itab[inr].mode = disk.itab[inr].mode
             /\ disk'.itab[inr].size >= disk.itab[inr].size
             /\ \A p \in 0 .. disk.itab[inr].size - 1 : Cell(disk', inr, p) = Cell(disk, inr, p)
  <2>1. inr \in Live(disk')
    BY <1>1, GrownKeeps
  <2>2. disk.itab[inr].size \in Nat /\ disk'.itab[inr].size \in Nat
    BY <1>1, <2>1, InodeInUse DEF Sound
  <2>. QED BY <1>1, <2>1, <2>2 DEF Grown, Positions
<1>8. Underway'
  <2>1. SUFFICES ASSUME request.pc # "idle"
                 PROVE  \E n \in 0 .. Len(path) :
                           /\ request.rest = SubSeq(path, n + 1, Len(path))
                           /\ request.inr = At(disk', path, n) /\ request.inr \in Live(disk')
                           /\ Shows(buffer, request.inr) /\ Knows(disk', buffer, path, n)
                           /\ reply.ret = ERR_NONE
    BY <1>2 DEF Underway, path
  <2>2. PICK n \in 0 .. Len(path) :
            /\ request.rest = SubSeq(path, n + 1, Len(path))
            /\ request.inr = At(disk, path, n) /\ request.inr \in Live(disk)
            /\ Shows(buffer, request.inr) /\ Knows(disk, buffer, path, n)
            /\ reply.ret = ERR_NONE
    BY <1>3, <2>1 DEF Underway, path
  <2>3. At(disk', path, n) = request.inr /\ request.inr \in Live(disk') /\ Knows(disk', buffer, path, n)
    BY <1>4, <1>6, <2>2
  <2>. QED BY <2>2, <2>3
<1>9. InFile'
  <2>1. request.pc = "block" => Tells(disk', buffer, request.inr, inode)
    BY <1>1, <1>3, <1>4, TellsLater DEF InFile, inode
  <2>. QED BY <1>2, <1>3, <2>1 DEF InFile, inode
<1>10. Collected'
  <2>1. SUFFICES ASSUME request.pc # "idle", NEW k \in 1 .. Len(reply.out)
                 PROVE  reply.out[k] = Cell(disk', request.inr, k - 1)
    BY <1>2, <1>3 DEF Collected
  <2>2. /\ Len(reply.out) = IF request.pc = "block" /\ request.rest = << >> THEN request.off ELSE 0
        /\ reply.out[k] = Cell(disk, request.inr, k - 1)
    BY <1>3, <2>1 DEF Collected
  <2>3. request.pc = "block" /\ Len(reply.out) <= inode.size
    BY <1>4, <2>1, <2>2
  <2>4. request.inr \in Live(disk) /\ inode.size <= disk.itab[request.inr].size
    BY <1>3, <2>3 DEF InFile, Tells, inode
  <2>5. k - 1 \in 0 .. disk.itab[request.inr].size - 1
    BY <1>4, <1>7, <2>3, <2>4
  <2>. QED BY <1>7, <2>2, <2>4, <2>5
<1>11. AnswerTrue'
  <2> DEFINE inr == At(disk, path, Len(path))
  <2>1. SUFFICES ASSUME request.pc = "idle"
                 PROVE  LET now == At(disk', path, Len(path))
                        IN  /\ reply.ret = ERR_NONE /\ path \in served =>
                                 /\ now \in Live(disk')
                                 /\ request.op = "getattr" =>
                                      /\ reply.attr.mode = disk'.itab[now].mode
                                      /\ reply.attr.size <= disk'.itab[now].size
                                      /\ reply.attr.blocks * SectorSize >= reply.attr.size
                                 /\ request.op # "getattr" =>
                                      /\ Len(reply.out) <= disk'.itab[now].size
                                      /\ \A k \in 1 .. Len(reply.out) :
                                            reply.out[k] = Cell(disk', now, k - 1)
                            /\ reply.ret \in {ERR_NONE, ERR_NO_SUCH_FILE, ERR_INVALID_DIRECTORY_INODE,
                                              ERR_NOMEM}
                            /\ reply.ret = ERR_INVALID_DIRECTORY_INODE =>
                                  \E n \in 0 .. Len(path) :
                                      At(disk', path, n) \in Live(disk') \ Directories(disk')
                            /\ reply.ret = ERR_NO_SUCH_FILE => ~ due
    BY <1>2 DEF AnswerTrue, path
  <2>2. /\ reply.ret = ERR_NONE /\ path \in served =>
              /\ inr \in Live(disk)
              /\ request.op = "getattr" =>
                   /\ reply.attr.mode = disk.itab[inr].mode
                   /\ reply.attr.size <= disk.itab[inr].size
                   /\ reply.attr.blocks * SectorSize >= reply.attr.size
              /\ request.op # "getattr" =>
                   /\ Len(reply.out) <= disk.itab[inr].size
                   /\ \A k \in 1 .. Len(reply.out) : reply.out[k] = Cell(disk, inr, k - 1)
        /\ reply.ret \in {ERR_NONE, ERR_NO_SUCH_FILE, ERR_INVALID_DIRECTORY_INODE, ERR_NOMEM}
        /\ reply.ret = ERR_INVALID_DIRECTORY_INODE =>
              \E n \in 0 .. Len(path) : At(disk, path, n) \in Live(disk) \ Directories(disk)
        /\ reply.ret = ERR_NO_SUCH_FILE => ~ due
    BY <1>3, <2>1 DEF AnswerTrue, path
  <2>3. ASSUME inr \in Live(disk) PROVE At(disk', path, Len(path)) = inr
    BY <1>4, <1>6, <2>3
  <2>4. ASSUME reply.ret = ERR_INVALID_DIRECTORY_INODE
        PROVE  \E n \in 0 .. Len(path) : At(disk', path, n) \in Live(disk') \ Directories(disk')
    <3>1. PICK n \in 0 .. Len(path) : At(disk, path, n) \in Live(disk) \ Directories(disk)
      BY <2>2, <2>4
    <3>2. At(disk', path, n) = At(disk, path, n)
      BY <1>4, <1>6, <3>1
    <3>3. At(disk', path, n) \in Live(disk') \ Directories(disk')
      BY <1>7, <3>1, <3>2 DEF Directories
    <3>. QED BY <3>3
  <2> HIDE DEF inr
  <2>5. ASSUME inr \in Live(disk), request.op # "getattr", reply.ret = ERR_NONE, path \in served
        PROVE  /\ Len(reply.out) <= disk'.itab[inr].size
               /\ \A k \in 1 .. Len(reply.out) : reply.out[k] = Cell(disk', inr, k - 1)
    <3>1. /\ Len(reply.out) <= disk.itab[inr].size /\ disk.itab[inr].size \in Nat
          /\ disk'.itab[inr].size \in Nat /\ disk'.itab[inr].size >= disk.itab[inr].size
      BY <1>7, <2>2, <2>5
    <3>2. ASSUME NEW k \in 1 .. Len(reply.out) PROVE reply.out[k] = Cell(disk', inr, k - 1)
      <4>1. k - 1 \in 0 .. disk.itab[inr].size - 1 /\ reply.out[k] = Cell(disk, inr, k - 1)
        BY <1>4, <2>2, <2>5, <3>1, <3>2
      <4>. QED BY <1>7, <2>5, <4>1
    <3>. QED BY <1>4, <3>1, <3>2
  <2>6. ASSUME inr \in Live(disk), request.op = "getattr", reply.ret = ERR_NONE, path \in served
        PROVE  /\ reply.attr.mode = disk'.itab[inr].mode
               /\ reply.attr.size <= disk'.itab[inr].size
               /\ reply.attr.blocks * SectorSize >= reply.attr.size
    <3>1. reply.attr.size \in Nat
      BY <1>3, Format DEF RequestTyped
    <3>. QED BY <1>7, <2>2, <2>6, <3>1
  <2>. QED BY <1>7, <2>2, <2>3, <2>4, <2>5, <2>6
<1>12. ServedKnown'
  <2>1. ASSUME NEW s \in served
        PROVE  At(disk', s, Len(s)) \in Live(disk') /\ Knows(disk', buffer, s, Len(s))
    <3>1. At(disk, s, Len(s)) \in Live(disk) /\ Knows(disk, buffer, s, Len(s))
      BY <1>3 DEF ServedKnown
    <3>2. s \in Seq(Names) /\ Len(s) \in 0 .. Len(s)
      BY <1>4
    <3>. QED BY <1>6, <3>1, <3>2
  <2>. QED BY <1>2, <2>1 DEF ServedKnown
<1>13. Found'
  <2>1. SUFFICES ASSUME due, request.pc # "idle"
                 PROVE  /\ At(disk', path, Len(path)) \in Live(disk')
                        /\ \/ /\ request.pc = "inode" /\ request.inr = ROOT_INUMBER
                              /\ buffer.page # PageOf(InodeSector(ROOT_INUMBER))
                           \/ Knows(disk', buffer, path, Len(path))
                        /\ request.pc = "block" /\ request.rest # << >> =>
                              \E p \in request.off .. inode.size - 1 :
                                  Cell(disk', request.inr, p).name = Head(request.rest)
    BY <1>2 DEF Found, path, inode
  <2>2. /\ At(disk, path, Len(path)) \in Live(disk)
        /\ \/ /\ request.pc = "inode" /\ request.inr = ROOT_INUMBER
              /\ buffer.page # PageOf(InodeSector(ROOT_INUMBER))
           \/ Knows(disk, buffer, path, Len(path))
        /\ request.pc = "block" /\ request.rest # << >> =>
              \E p \in request.off .. inode.size - 1 :
                  Cell(disk, request.inr, p).name = Head(request.rest)
    BY <1>3, <2>1 DEF Found, path, inode
  <2>3. /\ At(disk', path, Len(path)) \in Live(disk')
        /\ Knows(disk, buffer, path, Len(path)) => Knows(disk', buffer, path, Len(path))
    BY <1>4, <1>6, <2>2
  <2>4. ASSUME request.pc = "block", request.rest # << >>
        PROVE  \E p \in request.off .. inode.size - 1 :
                  Cell(disk', request.inr, p).name = Head(request.rest)
    <3>1. PICK p \in request.off .. inode.size - 1 :
             Cell(disk, request.inr, p).name = Head(request.rest)
      BY <2>2, <2>4
    <3>2. request.inr \in Live(disk) /\ inode.size <= disk.itab[request.inr].size
      BY <1>3, <2>4 DEF InFile, Tells, inode
    <3>3. p \in 0 .. disk.itab[request.inr].size - 1
      BY <1>4, <1>7, <3>2
    <3>4. Cell(disk', request.inr, p) = Cell(disk, request.inr, p)
      BY <1>7, <3>2, <3>3
    <3>. QED BY <3>1, <3>4
  <2>. QED BY <2>2, <2>3, <2>4
<1>. QED BY <1>5, <1>8, <1>9, <1>10, <1>11, <1>12, <1>13 DEF SInv

-----------------------------------------------------------------------------------
(* The server is asked, and answers. *)

\* Inode numbers are words.
LEMMA InodesAreWords == ASSUME NEW inr \in InodeNumbers PROVE inr \in Word
<1>1. InodesPerSector * s_isize \in Nat /\ InodesPerSector * s_isize < WordValues
  BY Format, InodeTableAssumption, SMTT(30)
<1>. QED BY <1>1, Format DEF InodeNumbers, Word

\* A request begins at the root.
LEMMA AskStep ==
    ASSUME SInv, AInv', UNCHANGED vars, NEW q \in Requests, Ask(q) PROVE SInv'
<1>1. disk' = disk /\ buffer' = buffer /\ served' = served /\ acked' = acked
  BY DEF vars, history, Ask
<1>2. /\ request' = [op |-> q.op, path |-> q.path, pc |-> "inode", rest |-> q.path,
                     inr |-> ROOT_INUMBER, inode |-> NoFile.inode, off |-> 0]
      /\ reply' = [ret |-> ERR_NONE, out |-> << >>, attr |-> NoStat]
      /\ due' = (\/ q.path \in served
                 \/ /\ buffer.page # PageOf(InodeSector(ROOT_INUMBER))
                    /\ \E c \in acked \ ignored : c.path = q.path)
  BY DEF Ask, NoRequest
<1>3. /\ PageTyped(buffer) /\ RequestTyped /\ PageTells(disk, buffer) /\ ServedKnown /\ AInv
  BY DEF SInv
<1>4. Sound(disk) /\ Promised
  BY <1>3 DEF AInv, IInv
<1>5. q.path \in Seq(Names) /\ q.op \in {"getattr", "readdir", "read"} /\ Len(q.path) \in Nat
  BY ServingAssumption
<1>6. ROOT_INUMBER \in Live(disk) /\ ROOT_INUMBER \in Word
  <2>1. ROOT_INUMBER \in Live(disk)
    BY <1>4 DEF Sound, Rooted, Directories
  <2>. QED BY <2>1, LiveIsAnswer, InodesAreWords
<1>7. RequestTyped'
  <2>1. NoFile.inode \in Inodes(MaxSize) /\ 0 <= NoFile.inode.size
    <3>1. NoFile.inode \in Inodes(MaxSize)
      BY NoProcess DEF Files
    <3>. QED BY <3>1 DEF NoFile
  <2>2. NoStat \in [mode : Modes, size : 0 .. MaxSize, blocks : 0 .. MaxSize]
    BY Format DEF NoStat, Modes
  <2>3. due' \in BOOLEAN
    BY <1>2
  <2>4. request'.path \in {p.path : p \in Requests} /\ served' \subseteq {p.path : p \in Requests}
    BY <1>1, <1>2, <1>3 DEF RequestTyped
  <2>5. request' \in [op : {"getattr", "readdir", "read"}, path : Seq(Names),
                      pc : {"idle", "inode", "block"}, rest : Seq(Names), inr : Word,
                      inode : Inodes(MaxSize), off : Nat]
    BY <1>2, <1>5, <1>6, <2>1
  <2>6. << >> \in Seq(Cells)
    OBVIOUS
  <2>. QED BY <1>2, <2>1, <2>2, <2>3, <2>4, <2>5, <2>6 DEF RequestTyped
<1>8. At(disk, q.path, 0) = ROOT_INUMBER
  <2>1. SubSeq(q.path, 1, 0) = << >>
    BY <1>5
  <2>. QED BY <2>1, LookupNothing DEF At
<1>9. Underway'
  <2>1. SubSeq(q.path, 0 + 1, Len(q.path)) = q.path
    BY <1>5, Beginning
  <2>2. Shows(buffer, ROOT_INUMBER)
    BY <1>3 DEF PageTells
  <2>3. Knows(disk, buffer, q.path, 0)
    BY DEF Knows
  <2>4. 0 \in 0 .. Len(q.path)
    BY <1>5
  <2>. QED BY <1>1, <1>2, <1>6, <1>8, <2>1, <2>2, <2>3, <2>4 DEF Underway
<1>10. InFile' /\ AnswerTrue'
  BY <1>2 DEF InFile, AnswerTrue
<1>11. Collected'
  BY <1>2 DEF Collected
<1>12. ServedKnown'
  BY <1>1, <1>3 DEF ServedKnown
<1>13. Found'
  <2>1. SUFFICES ASSUME due'
                 PROVE  /\ At(disk, q.path, Len(q.path)) \in Live(disk)
                        /\ \/ buffer.page # PageOf(InodeSector(ROOT_INUMBER))
                           \/ Knows(disk, buffer, q.path, Len(q.path))
    BY <1>1, <1>2 DEF Found
  <2>2. CASE q.path \in served
    BY <1>3, <2>2 DEF ServedKnown
  <2>3. CASE buffer.page # PageOf(InodeSector(ROOT_INUMBER)) /\ \E c \in acked \ ignored : c.path = q.path
    <3>1. PICK c \in acked \ ignored : c.path = q.path
      BY <2>3
    <3>2. direntv6_dirlookup(disk, ROOT_INUMBER, q.path) \in Live(disk)
      BY <1>4, <3>1 DEF Promised, KeptIn
    <3>3. SubSeq(q.path, 1, Len(q.path)) = q.path
      BY <1>5, Beginning
    <3>. QED BY <2>3, <3>2, <3>3 DEF At
  <2>. QED BY <1>2, <2>1, <2>2, <2>3
<1>14. PageTyped(buffer') /\ PageTells(disk', buffer')
  BY <1>1, <1>3
<1>. QED BY <1>7, <1>9, <1>10, <1>11, <1>12, <1>13, <1>14 DEF SInv

\* The page in the buffer, whether it is kept or read anew, knows what was known.
LEMMA BufferStep ==
    ASSUME SInv, NEW s \in Nat, NEW b \in {buffer, Fetch(buffer, s)}
    PROVE  /\ Sound(disk) /\ PageTyped(b) /\ PageTells(disk, b)
           /\ \A inr \in Live(disk) : Shows(buffer, inr) => Shows(b, inr)
           /\ \A path \in Seq(Names) : \A n \in 0 .. Len(path) :
                 At(disk, path, n) \in Live(disk) /\ Knows(disk, buffer, path, n) => Knows(disk, b, path, n)
           /\ \A path \in served : Knows(disk, b, path, Len(path))
<1>1. Sound(disk) /\ PageTyped(buffer) /\ PageTells(disk, buffer) /\ ServedKnown /\ RequestTyped
  BY DEF SInv, AInv, IInv
<1>2. PageTyped(b) /\ PageTells(disk, b)
  BY <1>1, FetchIsPage
<1>3. ASSUME NEW inr \in Live(disk), Shows(buffer, inr) PROVE Shows(b, inr)
  BY <1>3, FetchShows
<1>4. ASSUME NEW path \in Seq(Names), NEW n \in 0 .. Len(path),
             At(disk, path, n) \in Live(disk), Knows(disk, buffer, path, n)
      PROVE  Knows(disk, b, path, n)
  BY <1>1, <1>4, FetchKnows
<1>5. ASSUME NEW path \in served PROVE Knows(disk, b, path, Len(path))
  <2>1. path \in Seq(Names) /\ Len(path) \in 0 .. Len(path)
    BY <1>1, Requested
  <2>2. At(disk, path, Len(path)) \in Live(disk) /\ Knows(disk, buffer, path, Len(path))
    BY <1>1 DEF ServedKnown
  <2>. QED BY <1>4, <2>1, <2>2
<1>. QED BY <1>1, <1>2, <1>3, <1>4, <1>5

\* The four answers a request may get.
Replies == {ERR_NONE, ERR_NO_SUCH_FILE, ERR_INVALID_DIRECTORY_INODE, ERR_NOMEM}

\* Of what has been read, r is a true answer.
TrueReply(r) ==
    LET inr == At(disk, request.path, Len(request.path))
    IN  /\ r \in [ret : Replies, out : Seq(Cells),
                  attr : [mode : Modes, size : 0 .. MaxSize, blocks : 0 .. MaxSize]]
        /\ r.ret = ERR_NONE =>
             /\ inr \in Live(disk)
             /\ request.op = "getattr" =>
                  /\ r.attr.mode = disk.itab[inr].mode
                  /\ r.attr.size <= disk.itab[inr].size
                  /\ r.attr.blocks * SectorSize >= r.attr.size
             /\ request.op # "getattr" =>
                  /\ Len(r.out) <= disk.itab[inr].size
                  /\ \A k \in 1 .. Len(r.out) : r.out[k] = Cell(disk, inr, k - 1)
        /\ r.ret = ERR_INVALID_DIRECTORY_INODE =>
             \E n \in 0 .. Len(request.path) :
                 At(disk, request.path, n) \in Live(disk) \ Directories(disk)
        /\ r.ret = ERR_NO_SUCH_FILE => ~ due

\* A true answer ends the request.
LEMMA AnswerStep ==
    ASSUME SInv, AInv', UNCHANGED vars, request.pc # "idle", NEW s \in Nat,
           buffer' \in {buffer, Fetch(buffer, s)}, NEW r, Answer(r), TrueReply(r),
           r.ret = ERR_NONE => Knows(disk, buffer', request.path, Len(request.path))
    PROVE  SInv'
<1>1. /\ disk' = disk /\ due' = due /\ reply' = r
      /\ served' = IF r.ret = ERR_NONE THEN served \union {request.path} ELSE served
  BY DEF vars, history, Answer
<1>2. request' = [op |-> request.op, path |-> request.path, pc |-> "idle", rest |-> << >>,
                  inr |-> 0, inode |-> NoFile.inode, off |-> 0]
  BY DEF Answer, NoRequest
<1>3. RequestTyped /\ ServedKnown
  BY DEF SInv
<1>4. PageTyped(buffer') /\ PageTells(disk', buffer')
  BY <1>1, BufferStep
<1>5. RequestTyped'
  <2>1. NoFile.inode \in Inodes(MaxSize) /\ 0 <= NoFile.inode.size
    <3>1. NoFile.inode \in Inodes(MaxSize)
      BY NoProcess DEF Files
    <3>. QED BY <3>1 DEF NoFile
  <2>2. 0 \in Word /\ << >> \in Seq(Names)
    BY Format DEF Word
  <2>3. request.op \in {"getattr", "readdir", "read"} /\ request.path \in Seq(Names)
    BY <1>3, Requested
  <2>4. request' \in [op : {"getattr", "readdir", "read"}, path : Seq(Names),
                      pc : {"idle", "inode", "block"}, rest : Seq(Names), inr : Word,
                      inode : Inodes(MaxSize), off : Nat]
    BY <1>2, <2>1, <2>2, <2>3
  <2>5. request.path \in {q.path : q \in Requests} /\ due \in BOOLEAN
        /\ served \subseteq {q.path : q \in Requests}
    BY <1>3 DEF RequestTyped
  <2>6. served' \subseteq {q.path : q \in Requests}
    BY <1>1, <2>5
  <2>7. r \in [ret : error_codes \union {ERR_NONE}, out : Seq(Cells),
               attr : [mode : Modes, size : 0 .. MaxSize, blocks : 0 .. MaxSize]]
    <3>1. Replies \subseteq error_codes \union {ERR_NONE}
      BY Errors DEF Replies, error_codes, ERR_NOMEM
    <3>2. r \in [ret : Replies, out : Seq(Cells),
                 attr : [mode : Modes, size : 0 .. MaxSize, blocks : 0 .. MaxSize]]
      BY DEF TrueReply
    <3>. QED BY <3>1, <3>2
  <2>. QED BY <1>1, <1>2, <2>1, <2>4, <2>5, <2>6, <2>7 DEF RequestTyped
<1>6. Underway' /\ InFile' /\ Collected' /\ Found'
  BY <1>2 DEF Underway, InFile, Collected, Found
<1>7. AnswerTrue'
  BY <1>1, <1>2 DEF AnswerTrue, TrueReply, Replies
<1>8. ServedKnown'
  <2>1. ASSUME NEW path \in served
        PROVE  At(disk, path, Len(path)) \in Live(disk) /\ Knows(disk, buffer', path, Len(path))
    BY <1>3, BufferStep DEF ServedKnown
  <2>2. r.ret = ERR_NONE =>
           /\ At(disk, request.path, Len(request.path)) \in Live(disk)
           /\ Knows(disk, buffer', request.path, Len(request.path))
    BY DEF TrueReply
  <2>. QED BY <1>1, <2>1, <2>2 DEF ServedKnown
<1>. QED BY <1>4, <1>5, <1>6, <1>7, <1>8 DEF SInv

\* An inode that a path leads to has its sector read, and is a file that there is.
LEMMA InodeFetched ==
    ASSUME SInv, request.pc = "inode"
    PROVE  LET b == Fetch(buffer, InodeSector(request.inr))
           IN  /\ request.inr \in InodeNumbers \ {0} /\ InodeSector(request.inr) \in Nat
               /\ request.inr \in DOMAIN b.itab /\ b.itab[request.inr].mode # "free"
               /\ b.itab[request.inr] \in Inodes(MaxSize)
               /\ Tells(disk, b, request.inr, b.itab[request.inr])
               /\ inode_read(b, request.inr) = ERR_NONE
               /\ opendir(b, request.inr) = IF b.itab[request.inr].mode = "dir" THEN ERR_NONE
                                            ELSE ERR_INVALID_DIRECTORY_INODE
<1> DEFINE inr == request.inr
           s == InodeSector(inr)
           b == Fetch(buffer, s)
<1>1. inr \in Live(disk) /\ Shows(buffer, inr)
  BY DEF SInv, Underway
<1>2. inr \in InodeNumbers \ {0} /\ s \in Nat
  BY <1>1, InodeSectors DEF Live
<1>3. PageTyped(b) /\ PageTells(disk, b) /\ Shows(b, inr) /\ b.page = PageOf(s)
  BY <1>1, <1>2, BufferStep, FetchCases
<1> HIDE DEF b
<1>4. inr \in DOMAIN b.itab /\ b.itab[inr] \in Inodes(MaxSize)
  BY <1>2, <1>3 DEF PageTyped
<1>5. b.itab[inr].mode # "free"
  BY <1>3, <1>4 DEF Shows
<1>6. Tells(disk, b, inr, b.itab[inr])
  BY <1>2, <1>3, <1>4, <1>5 DEF PageTells
<1>7. inode_read(b, inr) = ERR_NONE
  BY <1>2, <1>5 DEF inode_read
<1>8. opendir(b, inr) = IF b.itab[inr].mode = "dir" THEN ERR_NONE ELSE ERR_INVALID_DIRECTORY_INODE
  BY <1>7 DEF opendir
<1>. QED BY <1>2, <1>4, <1>5, <1>6, <1>7, <1>8 DEF b

\* The blocks that fs_getattr reports hold the size.
LEMMA BlocksHold ==
    ASSUME NEW n \in 0 .. MaxSize
    PROVE  st_blocks(n) \in 0 .. MaxSize /\ st_blocks(n) * SectorSize >= n
<1>1. n \in Nat /\ MaxSize \in Nat /\ MAX_SIZE <= MaxSize /\ SectorSize \in Nat /\ SectorSize >= 2
  BY Format
<1>2. CASE n = 0
  <2>1. 1 <= MaxSize
    <3>1. AddrSmall * SectorSize >= 1
      BY Format, SMTT(30)
    <3>. QED BY <1>1, <3>1, Format
  <2>. QED BY <1>1, <1>2, <2>1 DEF st_blocks
<1>3. CASE n # 0
  <2> DEFINE k == (n - 1) \div SectorSize
  <2>1. n - 1 \in Nat /\ SectorSize \in Nat \ {0}
    BY <1>1, <1>3
  <2>2. /\ k \in Int /\ (n - 1) % SectorSize \in 0 .. SectorSize - 1
        /\ n - 1 = SectorSize * k + ((n - 1) % SectorSize)
    BY <2>1, Division
  <2>3. k \in Nat
    BY <2>1, Quotient
  <2>4. st_blocks(n) = k + 1
    BY <1>3 DEF st_blocks
  <2> HIDE DEF k
  <2>5. SectorSize * k \in Nat /\ SectorSize * k >= k
    BY <1>1, <2>3, SMTT(30)
  <2>6. (k + 1) * SectorSize = SectorSize * k + SectorSize
    BY <1>1, <2>3, SMTT(30)
  <2>7. n <= SectorSize * k + SectorSize /\ k + 1 <= n
    BY <1>1, <2>2, <2>3, <2>5
  <2>. QED BY <1>1, <2>3, <2>4, <2>6, <2>7
<1>. QED BY <1>2, <1>3

\* What is left of a path.
LEMMA RestOfPath ==
    ASSUME NEW path \in Seq(Names), NEW n \in 0 .. Len(path), NEW rest,
           rest = SubSeq(path, n + 1, Len(path))
    PROVE  /\ (rest = << >>) <=> n = Len(path)
           /\ rest # << >> => /\ n \in 0 .. Len(path) - 1 /\ Head(rest) = path[n + 1]
                              /\ Tail(rest) = SubSeq(path, n + 2, Len(path))
                              /\ Tail(rest) \in Seq(Names)
<1>1. Len(path) \in Nat /\ \A k \in 1 .. Len(path) : path[k] \in Names
  OBVIOUS
<1>2. rest \in Seq(Names) /\ Len(rest) = Len(path) - n /\ \A k \in 1 .. Len(rest) : rest[k] = path[n + k]
  BY <1>1
<1>3. (rest = << >>) <=> Len(rest) = 0
  <2>1. rest \in Seq(Names)
    BY <1>2
  <2>. QED BY <2>1, EmptySeq
<1>4. ASSUME rest # << >>
      PROVE  /\ n \in 0 .. Len(path) - 1 /\ Head(rest) = path[n + 1]
             /\ Tail(rest) = SubSeq(path, n + 2, Len(path)) /\ Tail(rest) \in Seq(Names)
  <2>1. n \in 0 .. Len(path) - 1 /\ Len(rest) >= 1
    BY <1>1, <1>2, <1>3, <1>4
  <2>2. Head(rest) = path[n + 1]
    BY <1>2, <2>1
  <2>3. Tail(rest) \in Seq(Names) /\ Len(Tail(rest)) = Len(rest) - 1
        /\ \A k \in 1 .. Len(rest) - 1 : Tail(rest)[k] = rest[k + 1]
    BY <1>2, <1>4
  <2>4. SubSeq(path, n + 2, Len(path)) \in Seq(Names)
        /\ Len(SubSeq(path, n + 2, Len(path))) = Len(rest) - 1
        /\ \A k \in 1 .. Len(rest) - 1 : SubSeq(path, n + 2, Len(path))[k] = path[n + 1 + k]
    BY <1>1, <1>2, <2>1
  <2>5. Tail(rest) = SubSeq(path, n + 2, Len(path))
    <3>1. \A k \in 1 .. Len(rest) - 1 : Tail(rest)[k] = SubSeq(path, n + 2, Len(path))[k]
      <4>1. ASSUME NEW k \in 1 .. Len(rest) - 1 PROVE rest[k + 1] = path[n + 1 + k]
        <5>1. k + 1 \in 1 .. Len(rest) /\ n + (k + 1) = n + 1 + k
          BY <1>2, <2>1
        <5>. QED BY <1>2, <5>1
      <4>. QED BY <2>3, <2>4, <4>1
    <3>. QED BY <2>3, <2>4, <3>1
  <2>. QED BY <2>1, <2>2, <2>3, <2>5
<1>. QED BY <1>1, <1>2, <1>3, <1>4

\* An inode is read: the request is answered, or goes on with the blocks of the file.
LEMMA ReadInodeStep ==
    ASSUME SInv, AInv', UNCHANGED vars, ReadInode PROVE SInv'
<1> DEFINE inr == request.inr
           path == request.path
           s == InodeSector(inr)
           b == Fetch(buffer, s)
           isdir == request.rest # << >> \/ request.op = "readdir"
           i == b.itab[inr]
<1>1. request.pc = "inode"
  BY DEF ReadInode
<1>2. /\ inr \in InodeNumbers \ {0} /\ s \in Nat /\ inr \in DOMAIN b.itab
      /\ i \in Inodes(MaxSize) /\ Tells(disk, b, inr, i)
      /\ inode_read(b, inr) = ERR_NONE
      /\ opendir(b, inr) = IF i.mode = "dir" THEN ERR_NONE ELSE ERR_INVALID_DIRECTORY_INODE
  BY <1>1, InodeFetched
<1>3. /\ disk' = disk /\ acked' = acked
      /\ RequestTyped /\ Underway /\ Collected /\ Found /\ ServedKnown
  BY DEF vars, history, SInv
<1>4. path \in Seq(Names) /\ Len(path) \in Nat /\ request.op \in {"getattr", "readdir", "read"}
  BY <1>3, Requested
<1> HIDE DEF path
<1>5. PICK n \in 0 .. Len(path) :
          /\ request.rest = SubSeq(path, n + 1, Len(path))
          /\ inr = At(disk, path, n) /\ inr \in Live(disk)
          /\ Shows(buffer, inr) /\ Knows(disk, buffer, path, n)
          /\ reply.ret = ERR_NONE
  BY <1>1, <1>3 DEF Underway, path
<1>6. /\ (request.rest = << >>) <=> n = Len(path)
      /\ request.rest # << >> => n \in 0 .. Len(path) - 1 /\ Head(request.rest) = path[n + 1]
  BY <1>4, <1>5, RestOfPath
<1>7. /\ Sound(disk) /\ PageTyped(b) /\ PageTells(disk, b) /\ Shows(b, inr)
      /\ Knows(disk, b, path, n)
      /\ \A m \in 0 .. Len(path) :
            At(disk, path, m) \in Live(disk) /\ Knows(disk, buffer, path, m) => Knows(disk, b, path, m)
      /\ \A q \in served : Knows(disk, b, q, Len(q))
  BY <1>2, <1>4, <1>5, BufferStep
<1>8. i.mode = disk.itab[inr].mode /\ i.size <= disk.itab[inr].size /\ i.size \in Nat
      /\ i.size \in 0 .. MaxSize /\ i.mode \in Modes
  <2>1. i.mode = disk.itab[inr].mode /\ i.size <= disk.itab[inr].size
    BY <1>2 DEF Tells
  <2>2. i.size \in 0 .. MaxSize /\ i.mode \in Modes
    BY <1>2 DEF Inodes
  <2>. QED BY <2>1, <2>2, Format
<1> DEFINE err == IF isdir /\ i.mode # "dir" THEN ERR_INVALID_DIRECTORY_INODE ELSE ERR_NONE
<1>9. /\ buffer' = b
      /\ IF err # ERR_NONE THEN AnswerError(err)
         ELSE IF request.rest = << >> /\ request.op = "getattr" THEN Answer([reply EXCEPT !.attr = Stat(i)])
         ELSE /\ request' = [request EXCEPT !.pc = "block", !.off = 0, !.inode = i]
              /\ UNCHANGED <<reply, due, served>>
  BY <1>2 DEF ReadInode
<1>10. Errors /\ ERR_INVALID_DIRECTORY_INODE # ERR_NONE
  BY Errors
<1>11. /\ reply = [ret |-> reply.ret, out |-> << >>, attr |-> reply.attr]
       /\ reply.attr \in [mode : Modes, size : 0 .. MaxSize, blocks : 0 .. MaxSize]
  <2>1. Len(reply.out) = 0 /\ reply.out \in Seq(Cells)
    BY <1>1, <1>3, Requested DEF Collected
  <2>. QED BY <1>3, <2>1 DEF RequestTyped
<1>12. CASE isdir /\ i.mode # "dir"
  <2> DEFINE r == [ret |-> ERR_INVALID_DIRECTORY_INODE, out |-> << >>, attr |-> reply.attr]
  <2>1. Answer(r)
    BY <1>9, <1>10, <1>11, <1>12 DEF AnswerError
  <2>2. At(disk, path, n) \in Live(disk) \ Directories(disk)
    BY <1>5, <1>8, <1>12 DEF Directories
  <2>3. r \in [ret : Replies, out : Seq(Cells),
               attr : [mode : Modes, size : 0 .. MaxSize, blocks : 0 .. MaxSize]]
    <3>1. << >> \in Seq(Cells)
      OBVIOUS
    <3>. QED BY <1>11, <3>1 DEF Replies
  <2>4. r.ret = ERR_INVALID_DIRECTORY_INODE
    OBVIOUS
  <2> HIDE DEF r
  <2>5. TrueReply(r)
    BY <1>10, <2>2, <2>3, <2>4 DEF TrueReply, path
  <2>. QED BY <1>1, <1>2, <1>9, <1>10, <2>1, <2>4, <2>5, AnswerStep
<1>13. CASE ~ (isdir /\ i.mode # "dir") /\ request.rest = << >> /\ request.op = "getattr"
  <2> DEFINE r == [ret |-> ERR_NONE, out |-> << >>, attr |-> Stat(i)]
  <2>1. Answer(r)
    BY <1>5, <1>9, <1>11, <1>13
  <2>2. /\ At(disk, path, Len(path)) = inr /\ inr \in Live(disk)
        /\ Knows(disk, b, path, Len(path))
    BY <1>5, <1>6, <1>7, <1>13
  <2>3. /\ Stat(i) \in [mode : Modes, size : 0 .. MaxSize, blocks : 0 .. MaxSize]
        /\ Stat(i).mode = disk.itab[inr].mode /\ Stat(i).size <= disk.itab[inr].size
        /\ Stat(i).blocks * SectorSize >= Stat(i).size
    <3>1. st_blocks(i.size) \in 0 .. MaxSize /\ st_blocks(i.size) * SectorSize >= i.size
      BY <1>8, BlocksHold
    <3>. QED BY <1>8, <3>1 DEF Stat
  <2>4. r \in [ret : Replies, out : Seq(Cells),
               attr : [mode : Modes, size : 0 .. MaxSize, blocks : 0 .. MaxSize]]
    <3>1. << >> \in Seq(Cells)
      OBVIOUS
    <3>. QED BY <2>3, <3>1 DEF Replies
  <2>5. r.ret = ERR_NONE /\ r.attr = Stat(i)
    OBVIOUS
  <2> HIDE DEF r
  <2>6. TrueReply(r)
    BY <1>10, <1>13, <2>2, <2>3, <2>4, <2>5 DEF TrueReply, path
  <2>. QED BY <1>1, <1>2, <1>9, <2>1, <2>2, <2>6, AnswerStep DEF path
<1>14. CASE ~ (isdir /\ i.mode # "dir") /\ ~ (request.rest = << >> /\ request.op = "getattr")
  <2>1. /\ request' = [op |-> request.op, path |-> path, pc |-> "block", rest |-> request.rest,
                       inr |-> inr, inode |-> i, off |-> 0]
        /\ buffer' = b /\ reply' = reply /\ due' = due /\ served' = served
    <3>1. request = [op |-> request.op, path |-> request.path, pc |-> request.pc,
                     rest |-> request.rest, inr |-> request.inr, inode |-> request.inode,
                     off |-> request.off]
      BY <1>3 DEF RequestTyped
    <3>. QED BY <1>9, <1>14, <3>1 DEF path
  <2>2. /\ request.rest # << >> \/ request.op = "readdir" => i.mode = "dir"
        /\ request.rest = << >> => request.op # "getattr"
        /\ inr \in DOMAIN b.itab => i.size <= b.itab[inr].size
        /\ inr \in Word
    BY <1>2, <1>8, <1>14, InodesAreWords
  <2> HIDE DEF b, i, isdir, inr, s, err
  <2>3. RequestTyped'
    <3>1. request' \in [op : {"getattr", "readdir", "read"}, path : Seq(Names),
                        pc : {"idle", "inode", "block"}, rest : Seq(Names), inr : Word,
                        inode : Inodes(MaxSize), off : Nat]
      BY <1>2, <1>3, <1>4, <2>1, <2>2, Requested
    <3>2. path \in {q.path : q \in Requests}
      BY <1>1, <1>3 DEF RequestTyped, path
    <3>3. reply' = reply /\ due' = due /\ served' = served /\ request'.path = path
          /\ request'.pc = "block" /\ request'.off <= request'.inode.size
      BY <1>8, <2>1
    <3>. QED BY <1>3, <3>1, <3>2, <3>3 DEF RequestTyped
  <2>4. Underway'
    <3>1. request'.pc = "block" /\ request'.path = path /\ request'.rest = request.rest
          /\ request'.inr = inr /\ buffer' = b /\ reply' = reply
      BY <2>1
    <3>. QED BY <1>3, <1>5, <1>7, <3>1 DEF Underway
  <2>5. InFile'
    <3>1. /\ request'.pc = "block" /\ request'.rest = request.rest /\ request'.op = request.op
          /\ request'.inr = inr /\ request'.inode = i /\ request'.off = 0 /\ buffer' = b
      BY <2>1
    <3>2. 0 % SectorSize = 0
      BY Format
    <3>. QED BY <1>2, <1>3, <2>2, <3>1, <3>2 DEF InFile
  <2>6. Collected'
    <3>1. reply'.out = << >> /\ request'.off = 0
      BY <1>11, <2>1
    <3>. QED BY <3>1 DEF Collected
  <2>7. AnswerTrue'
    BY <2>1 DEF AnswerTrue
  <2>8. ServedKnown'
    BY <1>3, <1>7, <2>1 DEF ServedKnown
  <2>9. Found'
    <3>1. SUFFICES ASSUME due
                   PROVE  /\ At(disk, path, Len(path)) \in Live(disk)
                          /\ Knows(disk, b, path, Len(path))
                          /\ request.rest # << >> =>
                                \E p \in 0 .. i.size - 1 : Cell(disk, inr, p).name = Head(request.rest)
      <4>1. /\ request'.pc = "block" /\ request'.path = path /\ request'.rest = request.rest
            /\ request'.inr = inr /\ request'.inode = i /\ request'.off = 0 /\ buffer' = b
            /\ due' = due /\ disk' = disk
        BY <1>3, <2>1
      <4>. QED BY <4>1 DEF Found
    <3>2. /\ At(disk, path, Len(path)) \in Live(disk)
          /\ \/ inr = ROOT_INUMBER /\ buffer.page # PageOf(InodeSector(ROOT_INUMBER))
             \/ Knows(disk, buffer, path, Len(path))
      BY <1>1, <1>3, <3>1 DEF Found, path, inr
    <3>3. Len(path) \in 0 .. Len(path)
      BY <1>4
    <3>4. Knows(disk, b, path, Len(path))
      <4>1. CASE Knows(disk, buffer, path, Len(path))
        BY <1>7, <3>2, <3>3, <4>1
      <4>2. CASE inr = ROOT_INUMBER /\ buffer.page # PageOf(InodeSector(ROOT_INUMBER))
        <5>1. b = PageNow(PageOf(InodeSector(ROOT_INUMBER)))
          BY <4>2 DEF Fetch, b, s
        <5>. QED BY <1>4, <1>7, <3>2, <3>3, <5>1, NowKnows
      <4>. QED BY <3>2, <4>1, <4>2
    <3>5. ASSUME request.rest # << >>
          PROVE  \E p \in 0 .. i.size - 1 : Cell(disk, inr, p).name = Head(request.rest)
      <4>1. n \in 0 .. Len(path) - 1 /\ Head(request.rest) = path[n + 1]
        BY <1>6, <3>5
      <4>2. PICK p \in Positions(disk, inr) :
               /\ Cell(disk, inr, p) = [inr |-> At(disk, path, n + 1), name |-> path[n + 1]]
               /\ inr \in DOMAIN b.itab => b.itab[inr].mode # "free" /\ p < b.itab[inr].size
        BY <1>5, <3>4, <4>1 DEF Knows
      <4>3. p \in 0 .. i.size - 1
        <5>1. p < i.size
          BY <1>2, <4>2 DEF i
        <5>2. p \in Nat
          BY <1>5, <1>7, InodeInUse DEF Sound
        <5>. QED BY <1>8, <5>1, <5>2
      <4>. QED BY <4>1, <4>2, <4>3
    <3>. QED BY <3>2, <3>4, <3>5
  <2>10. PageTyped(buffer') /\ PageTells(disk', buffer')
    BY <1>3, <1>7, <2>1
  <2>. QED BY <2>3, <2>4, <2>5, <2>6, <2>7, <2>8, <2>9, <2>10 DEF SInv
<1>. QED BY <1>12, <1>13, <1>14

\* The request when a block is next: how far along the path, and the file it is in.
LEMMA AtBlock ==
    ASSUME SInv, request.pc = "block"
    PROVE  /\ request.path \in Seq(Names)
           /\ \E n \in 0 .. Len(request.path) :
                 /\ request.rest = SubSeq(request.path, n + 1, Len(request.path))
                 /\ request.inr = At(disk, request.path, n)
                 /\ Knows(disk, buffer, request.path, n)
                 /\ (request.rest = << >>) <=> n = Len(request.path)
                 /\ request.rest # << >> => n \in 0 .. Len(request.path) - 1
                                            /\ Head(request.rest) = request.path[n + 1]
           /\ request.inr \in Live(disk) /\ Shows(buffer, request.inr) /\ reply.ret = ERR_NONE
           /\ Tells(disk, buffer, request.inr, request.inode)
           /\ request.inode \in Inodes(MaxSize) /\ request.inode.size \in Nat
           /\ request.off \in 0 .. request.inode.size
           /\ disk.itab[request.inr].size \in Nat
           /\ reply = [ret |-> ERR_NONE, out |-> reply.out, attr |-> reply.attr]
           /\ reply.out \in Seq(Cells)
           /\ reply.attr \in [mode : Modes, size : 0 .. MaxSize, blocks : 0 .. MaxSize]
<1>1. Sound(disk) /\ RequestTyped /\ Underway /\ InFile
  BY DEF SInv, AInv, IInv
<1>2. request.path \in Seq(Names) /\ request.inode \in Inodes(MaxSize) /\ request.inode.size \in Nat
      /\ request.off \in 0 .. request.inode.size
  BY <1>1, Requested
<1>3. PICK n \in 0 .. Len(request.path) :
          /\ request.rest = SubSeq(request.path, n + 1, Len(request.path))
          /\ request.inr = At(disk, request.path, n) /\ request.inr \in Live(disk)
          /\ Shows(buffer, request.inr) /\ Knows(disk, buffer, request.path, n)
          /\ reply.ret = ERR_NONE
  BY <1>1 DEF Underway
<1>4. /\ (request.rest = << >>) <=> n = Len(request.path)
      /\ request.rest # << >> => n \in 0 .. Len(request.path) - 1
                                 /\ Head(request.rest) = request.path[n + 1]
  <2> DEFINE path == request.path
             rest == request.rest
  <2>1. /\ path \in Seq(Names) /\ Len(path) \in Nat /\ n \in 0 .. Len(path)
        /\ rest = SubSeq(path, n + 1, Len(path))
    BY <1>2, <1>3
  <2> HIDE DEF path, rest
  <2>2. /\ (rest = << >>) <=> n = Len(path)
        /\ rest # << >> => n \in 0 .. Len(path) - 1 /\ Head(rest) = path[n + 1]
    BY <2>1, RestOfPath
  <2>. QED BY <2>2 DEF path, rest
<1>5. disk.itab[request.inr].size \in Nat
  BY <1>1, <1>3, InodeInUse DEF Sound
<1>6. /\ reply = [ret |-> reply.ret, out |-> reply.out, attr |-> reply.attr]
      /\ reply.out \in Seq(Cells)
      /\ reply.attr \in [mode : Modes, size : 0 .. MaxSize, blocks : 0 .. MaxSize]
  BY <1>1 DEF RequestTyped
<1>. QED BY <1>1, <1>2, <1>3, <1>4, <1>5, <1>6 DEF InFile

\* The end of the file: the name is not there, or all of the file has been read.
LEMMA ReadEndStep ==
    ASSUME SInv, AInv', UNCHANGED vars, ReadEnd PROVE SInv'
<1> DEFINE path == request.path
           inr == request.inr
<1>1. request.pc = "block" /\ request.off = request.inode.size /\ buffer' = buffer
  BY DEF ReadEnd
<1>2. Found /\ InFile /\ Collected
  BY DEF SInv
<1>3. /\ path \in Seq(Names) /\ inr \in Live(disk) /\ Tells(disk, buffer, inr, request.inode)
      /\ request.inode.size \in Nat /\ disk.itab[inr].size \in Nat
      /\ reply = [ret |-> ERR_NONE, out |-> reply.out, attr |-> reply.attr]
      /\ reply.out \in Seq(Cells)
      /\ reply.attr \in [mode : Modes, size : 0 .. MaxSize, blocks : 0 .. MaxSize]
  BY <1>1, AtBlock
<1>4. Errors /\ ERR_NO_SUCH_FILE # ERR_NONE /\ ERR_NO_SUCH_FILE # ERR_INVALID_DIRECTORY_INODE
  BY Errors
<1>5. CASE request.rest # << >>
  <2> DEFINE r == [ret |-> ERR_NO_SUCH_FILE, out |-> reply.out, attr |-> reply.attr]
  <2>1. Answer(r)
    <3>1. [reply EXCEPT !.ret = ERR_NO_SUCH_FILE] = r
      BY <1>3
    <3>. QED BY <1>5, <3>1 DEF ReadEnd, AnswerError
  <2>2. ~ due
    BY <1>1, <1>2, <1>3, <1>5 DEF Found
  <2>3. r \in [ret : Replies, out : Seq(Cells),
               attr : [mode : Modes, size : 0 .. MaxSize, blocks : 0 .. MaxSize]]
    BY <1>3 DEF Replies
  <2>4. r.ret = ERR_NO_SUCH_FILE
    OBVIOUS
  <2> HIDE DEF r
  <2>5. TrueReply(r)
    BY <1>4, <2>2, <2>3, <2>4 DEF TrueReply
  <2>. QED BY <1>1, <1>4, <2>1, <2>4, <2>5, AnswerStep
<1>6. CASE request.rest = << >>
  <2>1. Answer(reply)
    BY <1>6 DEF ReadEnd
  <2>2. inr = At(disk, path, Len(path)) /\ Knows(disk, buffer, path, Len(path))
    BY <1>1, <1>6, AtBlock
  <2>3. Len(reply.out) = request.inode.size /\ request.inode.size <= disk.itab[inr].size
        /\ \A k \in 1 .. Len(reply.out) : reply.out[k] = Cell(disk, inr, k - 1)
    BY <1>1, <1>2, <1>3, <1>6 DEF Collected, Tells
  <2>4. request.op # "getattr"
    BY <1>1, <1>2, <1>6 DEF InFile
  <2>5. reply.ret = ERR_NONE
    BY <1>3
  <2>6. reply \in [ret : Replies, out : Seq(Cells),
                   attr : [mode : Modes, size : 0 .. MaxSize, blocks : 0 .. MaxSize]]
    BY <1>3 DEF Replies
  <2>7. TrueReply(reply)
    BY <1>3, <1>4, <2>2, <2>3, <2>4, <2>5, <2>6 DEF TrueReply
  <2>. QED BY <1>1, <2>1, <2>2, <2>7, AnswerStep
<1>. QED BY <1>5, <1>6

\* The caller's buffer is full.
LEMMA FillerStep ==
    ASSUME SInv, AInv', UNCHANGED vars, FillerRefuses PROVE SInv'
<1>1. request.pc = "block" /\ buffer' = buffer
  BY DEF FillerRefuses
<1>2. /\ reply = [ret |-> ERR_NONE, out |-> reply.out, attr |-> reply.attr]
      /\ reply.out \in Seq(Cells)
      /\ reply.attr \in [mode : Modes, size : 0 .. MaxSize, blocks : 0 .. MaxSize]
  BY <1>1, AtBlock
<1>3. ERR_NOMEM \notin {ERR_NONE, ERR_NO_SUCH_FILE, ERR_INVALID_DIRECTORY_INODE}
  BY DEF ERR_NOMEM, ERR_NONE, ERR_NO_SUCH_FILE, ERR_INVALID_DIRECTORY_INODE
<1> DEFINE r == [ret |-> ERR_NOMEM, out |-> reply.out, attr |-> reply.attr]
<1>4. Answer(r)
  <2>1. [reply EXCEPT !.ret = ERR_NOMEM] = r
    BY <1>2
  <2>. QED BY <2>1 DEF FillerRefuses, AnswerError
<1>5. r \in [ret : Replies, out : Seq(Cells),
             attr : [mode : Modes, size : 0 .. MaxSize, blocks : 0 .. MaxSize]]
  BY <1>2 DEF Replies
<1>6. r.ret = ERR_NOMEM
  OBVIOUS
<1> HIDE DEF r
<1>7. TrueReply(r)
  BY <1>3, <1>5, <1>6 DEF TrueReply
<1>. QED BY <1>1, <1>3, <1>4, <1>6, <1>7, AnswerStep

\* A block is read: it is collected, or has the name, or the scan goes on.
LEMMA ReadBlockOutcome ==
    ASSUME SInv, ReadBlock
    PROVE  LET inr   == request.inr
               off   == request.off
               size  == BlockSize(request.inode, off)
               cells == [k \in 1 .. size |-> Cell(disk, inr, off + k - 1)]
               s     == Place(disk, inr, off)
           IN  /\ request.pc = "block" /\ off \in 0 .. request.inode.size - 1
               /\ off % SectorSize = 0 /\ s \in Nat
               /\ buffer' = Fetch(buffer, s)
               /\ \A k \in 1 .. size :
                     /\ off + k - 1 \in 0 .. request.inode.size - 1
                     /\ off + k - 1 \in Positions(disk, inr)
                     /\ request.inode.mode = "dir" => Shows(buffer', Cell(disk, inr, off + k - 1).inr)
               /\ size \in 1 .. SectorSize /\ off + size <= request.inode.size
               /\ (off + size) % SectorSize = 0 \/ off + size = request.inode.size
               /\ \/ /\ request.rest = << >>
                     /\ reply' = [reply EXCEPT !.out = @ \o cells]
                     /\ request' = [request EXCEPT !.off = off + size]
                     /\ UNCHANGED <<due, served>>
                  \/ /\ request.rest # << >>
                     /\ \E k \in 1 .. size : cells[k].name = Head(request.rest)
                     /\ Descend(cells)
                  \/ /\ request.rest # << >>
                     /\ \A k \in 1 .. size : cells[k].name # Head(request.rest)
                     /\ request' = [request EXCEPT !.off = off + size]
                     /\ UNCHANGED <<reply, due, served>>
<1> DEFINE inr   == request.inr
           i     == request.inode
           off   == request.off
           size  == BlockSize(i, off)
           cells == [k \in 1 .. size |-> Cell(disk, inr, off + k - 1)]
           s     == Place(disk, inr, off)
           b     == Fetch(buffer, s)
<1>1. request.pc = "block" /\ off < i.size
  BY DEF ReadBlock
<1>2. /\ inr \in Live(disk) /\ Tells(disk, buffer, inr, i) /\ i \in Inodes(MaxSize)
      /\ i.size \in Nat /\ off \in 0 .. i.size
  BY <1>1, AtBlock
<1>3. Sound(disk) /\ InFile
  BY DEF SInv, AInv, IInv
<1>4. off \in 0 .. i.size - 1 /\ off % SectorSize = 0
  <2>1. off % SectorSize = 0 \/ off = i.size
    BY <1>1, <1>3 DEF InFile
  <2>. QED BY <1>1, <1>2, <2>1
<1>5. /\ WithTable(buffer, i, off) = buffer
      /\ inode_findsector(Words(buffer), i, off \div SectorSize) = s
      /\ s \in DOMAIN disk.data /\ s \in Nat
  <2> HIDE DEF i, off
  <2>. QED BY <1>2, <1>3, <1>4, BlockSector
<1>6. /\ size \in 1 .. SectorSize /\ off + size <= i.size
      /\ (off + size) % SectorSize = 0 \/ off + size = i.size
  <2> HIDE DEF i, off
  <2>. QED BY <1>2, <1>4, BlockEnds
<1>7. ASSUME NEW k \in 1 .. size
      PROVE  /\ b.data[s][k - 1] = Cell(disk, inr, off + k - 1)
             /\ off + k - 1 \in 0 .. i.size - 1 /\ off + k - 1 \in Positions(disk, inr)
             /\ i.mode = "dir" => Shows(b, Cell(disk, inr, off + k - 1).inr)
  <2>1. Tells(disk, b, inr, i) /\ b.page = PageOf(s)
    BY <1>2, <1>3, FetchTells, FetchCases
  <2> HIDE DEF b, i, off
  <2>. QED BY <1>2, <1>3, <1>4, <2>1, BlockTells
<1>8. [k \in 1 .. size |-> b.data[s][k - 1]] = cells
  BY <1>7
<1>9. /\ buffer' = b
      /\ IF request.rest = << >>
           THEN /\ reply' = [reply EXCEPT !.out = @ \o cells]
                /\ request' = Advanced(Len(cells))
                /\ UNCHANGED <<due, served>>
         ELSE IF \E k \in 1 .. Len(cells) : cells[k].name = Head(request.rest)
           THEN Descend(cells)
         ELSE request' = Advanced(Len(cells)) /\ UNCHANGED <<reply, due, served>>
  <2> DEFINE Read(t, v) ==
               IF t < 0 THEN buffer' = v /\ AnswerError(t)
               ELSE IF t \notin DOMAIN disk.data THEN buffer' = v /\ AnswerError(ERR_IO)
               ELSE /\ buffer' = Fetch(v, t)
                    /\ \E c \in {[k \in 1 .. size |-> buffer'.data[t][k - 1]]} :
                          IF request.rest = << >>
                            THEN /\ reply' = [reply EXCEPT !.out = @ \o c]
                                 /\ request' = Advanced(Len(c))
                                 /\ UNCHANGED <<due, served>>
                          ELSE IF \E k \in 1 .. Len(c) : c[k].name = Head(request.rest)
                            THEN Descend(c)
                          ELSE request' = Advanced(Len(c)) /\ UNCHANGED <<reply, due, served>>
  <2>1. \E v \in {WithTable(buffer, i, off)} :
           \E t \in {inode_findsector(Words(v), i, off \div SectorSize)} : Read(t, v)
    BY DEF ReadBlock
  <2>2. Read(s, buffer)
    <3> HIDE DEF Read, i, off, s
    <3>. QED BY <1>5, <2>1
  <2>3. ~ (s < 0)
    BY <1>5
  <2>4. buffer' = b
    BY <1>5, <2>2, <2>3
  <2> HIDE DEF b, s, cells
  <2>5. [k \in 1 .. size |-> buffer'.data[s][k - 1]] = cells
    BY <1>8, <2>4
  <2>. QED BY <1>5, <2>2, <2>3, <2>4, <2>5
<1>10. Len(cells) = size
  <2>1. size \in Nat
    BY <1>6, Format
  <2> HIDE DEF size
  <2>. QED BY <2>1
<1>11. Advanced(Len(cells)) = [request EXCEPT !.off = off + size]
  BY <1>10 DEF Advanced
<1> HIDE DEF cells, size, s
<1>. QED BY <1>1, <1>4, <1>5, <1>6, <1>7, <1>9, <1>10, <1>11 DEF b, cells, size, s

\* What is known of the page that the block was read through.
LEMMA BlockBuffer ==
    ASSUME SInv, request.pc = "block", NEW s \in Nat
    PROVE  LET b == Fetch(buffer, s)
           IN  /\ Sound(disk) /\ PageTyped(b) /\ PageTells(disk, b) /\ Shows(b, request.inr)
               /\ Tells(disk, b, request.inr, request.inode)
               /\ request.inr \in DOMAIN b.itab => request.inode.size <= b.itab[request.inr].size
               /\ \A n \in 0 .. Len(request.path) :
                     At(disk, request.path, n) \in Live(disk) /\ Knows(disk, buffer, request.path, n)
                        => Knows(disk, b, request.path, n)
               /\ \A path \in served : Knows(disk, b, path, Len(path))
<1> DEFINE b == Fetch(buffer, s)
<1>1. /\ request.path \in Seq(Names) /\ request.inr \in Live(disk) /\ Shows(buffer, request.inr)
      /\ Tells(disk, buffer, request.inr, request.inode) /\ request.inode.size \in Nat
  BY AtBlock
<1>2. /\ Sound(disk) /\ PageTyped(b) /\ PageTells(disk, b) /\ Shows(b, request.inr)
      /\ \A n \in 0 .. Len(request.path) :
            At(disk, request.path, n) \in Live(disk) /\ Knows(disk, buffer, request.path, n)
               => Knows(disk, b, request.path, n)
      /\ \A path \in served : Knows(disk, b, path, Len(path))
  BY <1>1, BufferStep
<1>3. Tells(disk, b, request.inr, request.inode)
  BY <1>1, <1>2, FetchTells
<1>4. request.inr \in DOMAIN b.itab => request.inode.size <= b.itab[request.inr].size
  <2>1. request.inr \in DOMAIN buffer.itab => request.inode.size <= buffer.itab[request.inr].size
    BY DEF SInv, InFile
  <2>. QED BY <1>1, <2>1, FetchSize
<1>. QED BY <1>2, <1>3, <1>4

\* The scan of a file goes on: all of it but what has to do with the block itself.
LEMMA ScanGoesOn ==
    ASSUME SInv, AInv', UNCHANGED vars, request.pc = "block", NEW s \in Nat,
           buffer' = Fetch(buffer, s), UNCHANGED <<due, served>>, NEW next \in Nat,
           request' = [request EXCEPT !.off = next], next <= request.inode.size,
           next % SectorSize = 0 \/ next = request.inode.size,
           NEW out \in Seq(Cells), reply' = [reply EXCEPT !.out = out], Collected',
           due /\ request.rest # << >> =>
              \E p \in next .. request.inode.size - 1 :
                  Cell(disk, request.inr, p).name = Head(request.rest)
    PROVE  SInv'
<1> DEFINE path == request.path
           b == Fetch(buffer, s)
<1>1. disk' = disk /\ due' = due /\ served' = served /\ buffer' = b
  BY DEF vars, history
<1>2. RequestTyped /\ InFile /\ ServedKnown /\ Found
  BY DEF SInv
<1>3. /\ path \in Seq(Names) /\ request.inr \in Live(disk) /\ reply.ret = ERR_NONE
      /\ reply = [ret |-> ERR_NONE, out |-> reply.out, attr |-> reply.attr]
      /\ reply.attr \in [mode : Modes, size : 0 .. MaxSize, blocks : 0 .. MaxSize]
  BY AtBlock
<1>4. PICK n \in 0 .. Len(path) :
         /\ request.rest = SubSeq(path, n + 1, Len(path))
         /\ request.inr = At(disk, path, n) /\ Knows(disk, buffer, path, n)
  BY AtBlock
<1>5. /\ Sound(disk) /\ PageTyped(b) /\ PageTells(disk, b) /\ Shows(b, request.inr)
      /\ Tells(disk, b, request.inr, request.inode)
      /\ request.inr \in DOMAIN b.itab => request.inode.size <= b.itab[request.inr].size
      /\ \A m \in 0 .. Len(path) :
            At(disk, path, m) \in Live(disk) /\ Knows(disk, buffer, path, m) => Knows(disk, b, path, m)
      /\ \A q \in served : Knows(disk, b, q, Len(q))
  BY BlockBuffer
<1>6. /\ request' = [op |-> request.op, path |-> path, pc |-> "block", rest |-> request.rest,
                     inr |-> request.inr, inode |-> request.inode, off |-> next]
      /\ reply' = [ret |-> ERR_NONE, out |-> out, attr |-> reply.attr]
  <2>1. request = [op |-> request.op, path |-> request.path, pc |-> request.pc,
                   rest |-> request.rest, inr |-> request.inr, inode |-> request.inode,
                   off |-> request.off]
    BY <1>2 DEF RequestTyped
  <2>2. request' = [op |-> request.op, path |-> path, pc |-> "block", rest |-> request.rest,
                    inr |-> request.inr, inode |-> request.inode, off |-> next]
    BY <2>1
  <2>. QED BY <1>3, <2>2
<1> HIDE DEF path, b
<1>7. RequestTyped'
  <2>1. request' \in [op : {"getattr", "readdir", "read"}, path : Seq(Names),
                      pc : {"idle", "inode", "block"}, rest : Seq(Names), inr : Word,
                      inode : Inodes(MaxSize), off : Nat]
    BY <1>2, <1>6 DEF RequestTyped, path
  <2>2. path \in {q.path : q \in Requests}
    BY <1>2 DEF RequestTyped, path
  <2>3. reply' \in [ret : error_codes \union {ERR_NONE}, out : Seq(Cells),
                    attr : [mode : Modes, size : 0 .. MaxSize, blocks : 0 .. MaxSize]]
    BY <1>3, <1>6
  <2>4. request'.pc = "block" /\ request'.path = path /\ request'.off <= request'.inode.size
    BY <1>6
  <2>. QED BY <1>1, <1>2, <2>1, <2>2, <2>3, <2>4 DEF RequestTyped
<1>8. Underway'
  <2>1. /\ request'.pc = "block" /\ request'.path = path /\ request'.rest = request.rest
        /\ request'.inr = request.inr /\ reply'.ret = ERR_NONE
    BY <1>6
  <2>2. Knows(disk, b, path, n)
    BY <1>3, <1>4, <1>5
  <2>. QED BY <1>1, <1>3, <1>4, <1>5, <2>1, <2>2 DEF Underway
<1>9. InFile'
  <2>1. /\ request'.pc = "block" /\ request'.rest = request.rest /\ request'.op = request.op
        /\ request'.inr = request.inr /\ request'.inode = request.inode /\ request'.off = next
    BY <1>6
  <2>. QED BY <1>1, <1>2, <1>5, <2>1 DEF InFile
<1>10. AnswerTrue'
  BY <1>6 DEF AnswerTrue
<1>11. ServedKnown'
  BY <1>1, <1>2, <1>5 DEF ServedKnown
<1>12. Found'
  <2>1. /\ request'.pc = "block" /\ request'.path = path /\ request'.rest = request.rest
        /\ request'.inr = request.inr /\ request'.inode = request.inode /\ request'.off = next
    BY <1>6
  <2>2. due => /\ At(disk, path, Len(path)) \in Live(disk)
               /\ Knows(disk, buffer, path, Len(path))
    BY <1>2 DEF Found, path
  <2>3. Len(path) \in 0 .. Len(path)
    BY <1>3
  <2>4. due => Knows(disk, b, path, Len(path))
    BY <1>5, <2>2, <2>3
  <2>. QED BY <1>1, <2>1, <2>2, <2>4 DEF Found
<1>13. PageTyped(buffer') /\ PageTells(disk', buffer')
  BY <1>1, <1>5
<1>. QED BY <1>7, <1>8, <1>9, <1>10, <1>11, <1>12, <1>13 DEF SInv

\* The entry found leads on along the path.
LEMMA DescendStep ==
    ASSUME SInv, AInv', UNCHANGED vars, request.pc = "block", request.rest # << >>,
           NEW s \in Nat, buffer' = Fetch(buffer, s), NEW size \in Nat, NEW cells, Descend(cells),
           Len(cells) = size, \E k \in 1 .. size : cells[k].name = Head(request.rest),
           \A k \in 1 .. size : \E p \in 0 .. request.inode.size - 1 :
              /\ p \in Positions(disk, request.inr) /\ cells[k] = Cell(disk, request.inr, p)
              /\ request.inode.mode = "dir" => Shows(buffer', Cell(disk, request.inr, p).inr)
    PROVE  SInv'
<1> DEFINE path == request.path
           inr == request.inr
           b == Fetch(buffer, s)
           name == Head(request.rest)
<1>1. disk' = disk /\ buffer' = b /\ UNCHANGED <<reply, due, served>>
  BY DEF vars, history, Descend
<1>2. RequestTyped /\ InFile /\ Collected /\ ServedKnown /\ Found
  BY DEF SInv
<1>3. path \in Seq(Names) /\ inr \in Live(disk) /\ reply.ret = ERR_NONE /\ Len(path) \in Nat
  BY AtBlock
<1>4. PICK n \in 0 .. Len(path) :
         /\ request.rest = SubSeq(path, n + 1, Len(path))
         /\ inr = At(disk, path, n) /\ Knows(disk, buffer, path, n)
         /\ n \in 0 .. Len(path) - 1 /\ name = path[n + 1]
  BY AtBlock
<1>5. /\ Sound(disk) /\ PageTyped(b) /\ PageTells(disk, b) /\ Shows(b, inr)
      /\ Tells(disk, b, inr, request.inode)
      /\ inr \in DOMAIN b.itab => request.inode.size <= b.itab[inr].size
      /\ \A m \in 0 .. Len(path) :
            At(disk, path, m) \in Live(disk) /\ Knows(disk, buffer, path, m) => Knows(disk, b, path, m)
      /\ \A q \in served : Knows(disk, b, q, Len(q))
  BY BlockBuffer
<1> DEFINE ks == {m \in 1 .. size : cells[m].name = name}
           k == Min(ks)
<1>6. k \in 1 .. size /\ cells[k].name = name
  <2>1. ks \in SUBSET Nat /\ ks # {}
    OBVIOUS
  <2> HIDE DEF ks
  <2>2. k \in ks
    BY <2>1, MinOfNat
  <2>. QED BY <2>2 DEF ks
<1>7. /\ request' = [request EXCEPT !.pc = "inode", !.rest = Tail(@), !.inr = cells[k].inr]
  BY DEF Descend
<1> HIDE DEF k, name, ks
<1>8. PICK p \in 0 .. request.inode.size - 1 :
         /\ p \in Positions(disk, inr) /\ cells[k] = Cell(disk, inr, p)
         /\ request.inode.mode = "dir" => Shows(b, Cell(disk, inr, p).inr)
  BY <1>1, <1>6
<1> DEFINE next == Cell(disk, inr, p).inr
<1>9. request.inode.mode = "dir" /\ inr \in Directories(disk)
  BY <1>2, <1>3, <1>5 DEF InFile, Tells, Directories
<1>10. next \in Live(disk) /\ Shows(b, next) /\ next \in Word
  <2>1. next \in Live(disk)
    BY <1>5, <1>8, <1>9 DEF Sound, Named
  <2>. QED BY <1>8, <1>9, <2>1, InodesAreWords DEF Live
<1>11. At(disk, path, n + 1) = next
  <2>1. LookupEntry(disk, inr, name) = next
    BY <1>5, <1>6, <1>8, <1>9, EntryFound
  <2>2. At(disk, path, n + 1) = IF inr < 0 THEN inr ELSE LookupEntry(disk, inr, path[n + 1])
    <3>1. inr = direntv6_dirlookup(disk, ROOT_INUMBER, SubSeq(path, 1, n))
      BY <1>4 DEF At
    <3> HIDE DEF inr, path
    <3>2. direntv6_dirlookup(disk, ROOT_INUMBER, SubSeq(path, 1, n + 1)) =
             IF inr < 0 THEN inr ELSE LookupEntry(disk, inr, path[n + 1])
      <4>1. path \in Seq(Names) /\ n \in 0 .. Len(path) - 1
        BY <1>3, <1>4
      <4>2. LET dir == direntv6_dirlookup(disk, ROOT_INUMBER, SubSeq(path, 1, n))
            IN  direntv6_dirlookup(disk, ROOT_INUMBER, SubSeq(path, 1, n + 1)) =
                   IF dir < 0 THEN dir ELSE LookupEntry(disk, dir, path[n + 1])
        BY <4>1, LookupNext
      <4>. QED BY <3>1, <4>2
    <3>. QED BY <3>2 DEF At
  <2>3. inr \in Nat
    BY <1>3, LiveIsAnswer
  <2>. QED BY <1>4, <2>1, <2>2, <2>3
<1>12. /\ request' = [op |-> request.op, path |-> path, pc |-> "inode", rest |-> Tail(request.rest),
                     inr |-> next, inode |-> request.inode, off |-> request.off]
  <2>1. request = [op |-> request.op, path |-> request.path, pc |-> request.pc,
                   rest |-> request.rest, inr |-> request.inr, inode |-> request.inode,
                   off |-> request.off]
    BY <1>2 DEF RequestTyped
  <2>. QED BY <1>7, <1>8, <2>1
<1>13. Tail(request.rest) = SubSeq(path, (n + 1) + 1, Len(path)) /\ Tail(request.rest) \in Seq(Names)
  <2> DEFINE rest == request.rest
  <2>1. rest # << >> /\ rest = SubSeq(path, n + 1, Len(path))
    BY <1>4
  <2> HIDE DEF rest, path
  <2>2. Tail(rest) = SubSeq(path, n + 2, Len(path)) /\ Tail(rest) \in Seq(Names)
    BY <1>3, <1>4, <2>1, RestOfPath
  <2>3. n + 2 = (n + 1) + 1
    BY <1>4
  <2>. QED BY <2>2, <2>3 DEF rest
<1> HIDE DEF path, inr, b, next
<1>14. RequestTyped'
  <2>1. request' \in [op : {"getattr", "readdir", "read"}, path : Seq(Names),
                      pc : {"idle", "inode", "block"}, rest : Seq(Names), inr : Word,
                      inode : Inodes(MaxSize), off : Nat]
    BY <1>2, <1>10, <1>12, <1>13 DEF RequestTyped, path
  <2>2. path \in {q.path : q \in Requests}
    BY <1>2 DEF RequestTyped, path
  <2>3. /\ request'.pc = "inode" /\ request'.path = path /\ request'.inode = request.inode
        /\ request'.off = request.off
    BY <1>12
  <2>. QED BY <1>1, <1>2, <2>1, <2>2, <2>3 DEF RequestTyped
<1>15. Knows(disk, b, path, n + 1)
  <2>1. Knows(disk, b, path, n)
    BY <1>3, <1>4, <1>5
  <2>2. SUFFICES ASSUME NEW m \in 0 .. (n + 1) - 1
                 PROVE  LET dir == At(disk, path, m)
                        IN  /\ dir \in Directories(disk)
                            /\ \E q \in Positions(disk, dir) :
                                  /\ Cell(disk, dir, q) = [inr |-> At(disk, path, m + 1), name |-> path[m + 1]]
                                  /\ dir \in DOMAIN b.itab =>
                                        b.itab[dir].mode # "free" /\ q < b.itab[dir].size
    BY DEF Knows
  <2>3. CASE m \in 0 .. n - 1
    BY <2>1, <2>3 DEF Knows
  <2>4. CASE m = n
    <3>1. Cell(disk, inr, p) = [inr |-> At(disk, path, n + 1), name |-> path[n + 1]]
      <4>1. Cell(disk, inr, p) \in Cells
        BY <1>3, <1>5, <1>8, Readable
      <4>. QED BY <1>4, <1>6, <1>8, <1>11, <4>1 DEF Cells, next
    <3>2. inr \in DOMAIN b.itab => b.itab[inr].mode # "free" /\ p < b.itab[inr].size
      <4>1. ASSUME inr \in DOMAIN b.itab PROVE p < b.itab[inr].size
        <5>1. b.itab[inr] \in Inodes(MaxSize)
          BY <1>5, <4>1 DEF PageTyped
        <5>2. b.itab[inr].size \in Nat
          BY <5>1, Format DEF Inodes
        <5>3. request.inode.size \in Nat
          BY AtBlock
        <5>4. request.inode.size <= b.itab[inr].size
          BY <1>5, <4>1
        <5>5. p < request.inode.size
          BY <5>3
        <5>. QED BY <5>2, <5>3, <5>4, <5>5
      <4>. QED BY <1>5, <4>1 DEF Shows
    <3>. QED BY <1>4, <1>8, <1>9, <2>4, <3>1, <3>2
  <2>. QED BY <1>4, <2>3, <2>4
<1>16. Underway'
  <2>1. /\ request'.pc = "inode" /\ request'.path = path /\ request'.rest = Tail(request.rest)
        /\ request'.inr = next /\ reply'.ret = ERR_NONE
    BY <1>1, <1>3, <1>12
  <2>2. n + 1 \in 0 .. Len(path)
    <3>1. n \in 0 .. Len(path) - 1
      BY <1>4
    <3>. QED BY <1>3, <3>1
  <2> DEFINE Come(m) ==
               /\ request'.rest = SubSeq(path, m + 1, Len(path))
               /\ request'.inr = At(disk, path, m) /\ request'.inr \in Live(disk)
               /\ Shows(b, request'.inr) /\ Knows(disk, b, path, m)
               /\ reply'.ret = ERR_NONE
  <2>3. Come(n + 1)
    BY <1>10, <1>11, <1>13, <1>15, <2>1
  <2>4. \E m \in 0 .. Len(path) : Come(m)
    <3> HIDE DEF Come
    <3>. QED BY <2>2, <2>3
  <2>. QED BY <1>1, <2>1, <2>4 DEF Underway
<1>17. InFile' /\ AnswerTrue'
  BY <1>12 DEF InFile, AnswerTrue
<1>18. Collected'
  <2>1. Len(reply.out) = 0 /\ reply' = reply
    BY <1>1, <1>2 DEF Collected
  <2>2. request'.pc = "inode"
    BY <1>12
  <2>. QED BY <2>1, <2>2 DEF Collected
<1>19. ServedKnown'
  BY <1>1, <1>2, <1>5 DEF ServedKnown
<1>20. Found'
  <2>1. request'.pc = "inode" /\ request'.path = path
    BY <1>12
  <2>2. due => /\ At(disk, path, Len(path)) \in Live(disk)
               /\ Knows(disk, buffer, path, Len(path))
    BY <1>2 DEF Found, path
  <2>3. Len(path) \in 0 .. Len(path)
    BY <1>3
  <2>4. due => Knows(disk, b, path, Len(path))
    BY <1>5, <2>2, <2>3
  <2>. QED BY <1>1, <2>1, <2>2, <2>4 DEF Found
<1>21. PageTyped(buffer') /\ PageTells(disk', buffer')
  BY <1>1, <1>5
<1>. QED BY <1>14, <1>16, <1>17, <1>18, <1>19, <1>20, <1>21 DEF SInv

\* A block is read.
LEMMA ReadBlockStep ==
    ASSUME SInv, AInv', UNCHANGED vars, ReadBlock PROVE SInv'
<1> DEFINE inr   == request.inr
           off   == request.off
           size  == BlockSize(request.inode, off)
           cells == [k \in 1 .. size |-> Cell(disk, inr, off + k - 1)]
           s     == Place(disk, inr, off)
<1>1. /\ request.pc = "block" /\ off \in 0 .. request.inode.size - 1 /\ s \in Nat
      /\ buffer' = Fetch(buffer, s)
      /\ \A k \in 1 .. size :
            /\ off + k - 1 \in 0 .. request.inode.size - 1
            /\ off + k - 1 \in Positions(disk, inr)
            /\ request.inode.mode = "dir" => Shows(buffer', Cell(disk, inr, off + k - 1).inr)
      /\ size \in 1 .. SectorSize /\ off + size <= request.inode.size
      /\ (off + size) % SectorSize = 0 \/ off + size = request.inode.size
  BY ReadBlockOutcome
<1>2. \/ /\ request.rest = << >>
         /\ reply' = [reply EXCEPT !.out = @ \o cells]
         /\ request' = [request EXCEPT !.off = off + size]
         /\ UNCHANGED <<due, served>>
      \/ /\ request.rest # << >>
         /\ \E k \in 1 .. size : cells[k].name = Head(request.rest)
         /\ Descend(cells)
      \/ /\ request.rest # << >>
         /\ \A k \in 1 .. size : cells[k].name # Head(request.rest)
         /\ request' = [request EXCEPT !.off = off + size]
         /\ UNCHANGED <<reply, due, served>>
  BY ReadBlockOutcome
<1>3. /\ inr \in Live(disk) /\ request.inode.size \in Nat /\ reply.out \in Seq(Cells)
      /\ reply = [ret |-> ERR_NONE, out |-> reply.out, attr |-> reply.attr]
  BY <1>1, AtBlock
<1>4. /\ disk' = disk /\ Sound(disk) /\ Collected /\ Found
      /\ request = [op |-> request.op, path |-> request.path, pc |-> request.pc,
                    rest |-> request.rest, inr |-> request.inr, inode |-> request.inode,
                    off |-> request.off]
  BY DEF vars, history, SInv, AInv, IInv, RequestTyped
<1> HIDE DEF size, off, s, inr
<1>5. size \in Nat /\ off \in Nat /\ off + size \in Nat
  <2>1. off \in Nat
    BY <1>1, <1>3
  <2>2. size \in Nat
    BY <1>1, Format
  <2>. QED BY <2>1, <2>2
<1>6. /\ cells \in Seq(Cells) /\ Len(cells) = size
      /\ \A k \in 1 .. size : cells[k] = Cell(disk, inr, off + k - 1)
  <2>1. \A k \in 1 .. size : Cell(disk, inr, off + k - 1) \in Cells
    BY <1>1, <1>3, <1>4, Readable
  <2>. QED BY <1>5, <2>1
<1> HIDE DEF cells
<1>7. CASE /\ request.rest = << >>
           /\ reply' = [reply EXCEPT !.out = @ \o cells]
           /\ request' = [request EXCEPT !.off = off + size]
           /\ UNCHANGED <<due, served>>
  <2> DEFINE out == reply.out \o cells
  <2>1. /\ out \in Seq(Cells) /\ Len(reply.out) = off /\ Len(out) = off + size
        /\ \A k \in 1 .. off : out[k] = reply.out[k]
        /\ \A k \in off + 1 .. off + size : out[k] = cells[k - off]
    <3>1. Len(reply.out) = off
      BY <1>1, <1>4, <1>7 DEF Collected, off
    <3>. QED BY <1>3, <1>5, <1>6, <3>1
  <2>2. ASSUME NEW k \in 1 .. off + size PROVE out[k] = Cell(disk, inr, k - 1)
    <3>1. CASE k \in 1 .. off
      <4>1. reply.out[k] = Cell(disk, inr, k - 1)
        BY <1>1, <1>4, <2>1, <3>1 DEF Collected, inr
      <4>. QED BY <2>1, <3>1, <4>1
    <3>2. CASE k \in off + 1 .. off + size
      <4>1. k - off \in 1 .. size /\ off + (k - off) - 1 = k - 1
        BY <1>5, <3>2
      <4>. QED BY <1>6, <2>1, <3>2, <4>1
    <3>3. k \in 1 .. off \/ k \in off + 1 .. off + size
      BY <1>5
    <3>. QED BY <3>1, <3>2, <3>3
  <2>3. reply' = [reply EXCEPT !.out = out] /\ reply'.out = out
    <3>1. reply' = [reply EXCEPT !.out = out]
      BY <1>7
    <3> HIDE DEF out
    <3>2. [reply EXCEPT !.out = out].out = out
      BY <1>3
    <3>. QED BY <3>1, <3>2
  <2>4. /\ request'.pc = "block" /\ request'.rest = << >> /\ request'.inr = inr
        /\ request'.off = off + size
    BY <1>1, <1>4, <1>7 DEF inr
  <2> HIDE DEF out
  <2>5. Collected'
    BY <1>4, <2>1, <2>2, <2>3, <2>4 DEF Collected
  <2>6. out \in Seq(Cells)
    BY <2>1
  <2>. QED BY <1>1, <1>5, <1>7, <2>3, <2>5, <2>6, ScanGoesOn
<1>8. CASE /\ request.rest # << >>
           /\ \E k \in 1 .. size : cells[k].name = Head(request.rest)
           /\ Descend(cells)
  <2>1. ASSUME NEW k \in 1 .. size
        PROVE  \E p \in 0 .. request.inode.size - 1 :
                  /\ p \in Positions(disk, request.inr) /\ cells[k] = Cell(disk, request.inr, p)
                  /\ request.inode.mode = "dir" => Shows(buffer', Cell(disk, request.inr, p).inr)
    BY <1>1, <1>6 DEF inr
  <2>. QED BY <1>1, <1>5, <1>6, <1>8, <2>1, DescendStep
<1>9. CASE /\ request.rest # << >>
           /\ \A k \in 1 .. size : cells[k].name # Head(request.rest)
           /\ request' = [request EXCEPT !.off = off + size]
           /\ UNCHANGED <<reply, due, served>>
  <2>1. /\ request'.pc = "block" /\ request'.rest = request.rest /\ request'.inr = inr
    BY <1>1, <1>4, <1>9 DEF inr
  <2>2. Len(reply.out) = 0 /\ reply' = reply /\ reply' = [reply EXCEPT !.out = reply.out]
    BY <1>1, <1>3, <1>4, <1>9 DEF Collected
  <2>3. Collected'
    BY <1>9, <2>1, <2>2 DEF Collected
  <2>4. ASSUME due
        PROVE  \E p \in off + size .. request.inode.size - 1 :
                  Cell(disk, request.inr, p).name = Head(request.rest)
    <3>1. PICK p \in off .. request.inode.size - 1 :
                  Cell(disk, inr, p).name = Head(request.rest)
      BY <1>1, <1>4, <1>9, <2>4 DEF Found, inr, off
    <3>2. ASSUME p < off + size PROVE FALSE
      <4>1. p - off + 1 \in 1 .. size /\ off + (p - off + 1) - 1 = p
        BY <1>3, <1>5, <3>1, <3>2
      <4>. QED BY <1>6, <1>9, <3>1, <4>1
    <3>3. p \in off + size .. request.inode.size - 1
      BY <1>3, <1>5, <3>1, <3>2
    <3>. QED BY <3>1, <3>3 DEF inr
  <2>. QED BY <1>1, <1>3, <1>5, <1>9, <2>2, <2>3, <2>4, ScanGoesOn
<1>. QED BY <1>2, <1>7, <1>8, <1>9

-----------------------------------------------------------------------------------
(* The invariant of the server. *)

\* The server starts with a page of a sound disk, and nothing asked.
LEMMA ServingStart == ASSUME SoundImages, Init, SInit, WithinLimits PROVE SInv
<1>1. AInv
  BY AnswersStart
<1>2. Sound(disk)
  BY <1>1 DEF AInv, IInv
<1>3. PageTyped(buffer) /\ PageTells(disk, buffer)
  <2>1. PICK s \in Volume : buffer = PageNow(PageOf(s))
    BY DEF SInit
  <2>2. s \in Nat
    BY <2>1 DEF Volume
  <2>. QED BY <1>2, <2>1, <2>2, Pages, NowIsPage
<1>4. request = NoRequest /\ due = FALSE /\ served = {}
      /\ reply = [ret |-> ERR_NONE, out |-> << >>, attr |-> NoStat]
  BY DEF SInit
<1>5. RequestTyped
  <2>1. NoFile.inode \in Inodes(MaxSize) /\ 0 <= NoFile.inode.size
    <3>1. NoFile.inode \in Inodes(MaxSize)
      BY NoProcess DEF Files
    <3>. QED BY <3>1 DEF NoFile
  <2>2. NoStat \in [mode : Modes, size : 0 .. MaxSize, blocks : 0 .. MaxSize]
    BY Format DEF NoStat, Modes
  <2>3. 0 \in Word
    BY Format DEF Word
  <2>4. << >> \in Seq(Cells) /\ << >> \in Seq(Names)
    OBVIOUS
  <2>. QED BY <1>4, <2>1, <2>2, <2>3, <2>4 DEF RequestTyped, NoRequest
<1>6. Underway /\ InFile /\ Collected /\ Found /\ ServedKnown
  BY <1>4 DEF NoRequest, Underway, InFile, Collected, Found, ServedKnown
<1>7. AnswerTrue
  <2>1. ERR_NONE # ERR_INVALID_DIRECTORY_INODE /\ ERR_NONE # ERR_NO_SUCH_FILE
    BY DEF ERR_NONE, ERR_INVALID_DIRECTORY_INODE, ERR_NO_SUCH_FILE
  <2>. QED BY <1>4, <2>1 DEF AnswerTrue, NoRequest
<1>. QED BY <1>1, <1>3, <1>5, <1>6, <1>7 DEF SInv

\* A writer, a request or a sector access of the server.
LEMMA ServingStep == ASSUME SInv, WithinLimits', [SNext]_allvars PROVE SInv'
<1>1. AInv'
  <2>1. [Next]_vars
    BY DEF SNext, allvars
  <2>. QED BY <2>1, AnswersStep DEF SInv
<1>2. CASE [Next]_vars /\ UNCHANGED svars
  BY <1>1, <1>2, WritersStep
<1>3. CASE (\E q \in Requests : Ask(q)) /\ UNCHANGED vars
  BY <1>1, <1>3, AskStep
<1>4. CASE Server /\ UNCHANGED vars
  BY <1>1, <1>4, ReadInodeStep, ReadBlockStep, ReadEndStep, FillerStep DEF Server
<1>5. CASE UNCHANGED allvars
  BY <1>2, <1>5 DEF allvars
<1>. QED BY <1>2, <1>3, <1>4, <1>5 DEF SNext

\* Beside whatever writers do, a page in the buffer and all the server has read are of
\* some earlier moment and true of the disk as it is (u6fs_fuse.c:31-154).
THEOREM ServingInvariantHolds == SoundImages => (SSpec /\ []WithinLimits => []SInv)
<1>1. SoundImages /\ Init /\ SInit /\ WithinLimits => SInv
  BY ServingStart
<1>2. SInv /\ WithinLimits' /\ [SNext]_allvars => SInv'
  BY ServingStep
<1>. QED BY <1>1, <1>2, PTL DEF SSpec

\* What the server holds has its type.
THEOREM ServerTypes == SoundImages => (SSpec /\ []WithinLimits => []ServerTypeOK)
<1>1. SInv => ServerTypeOK
  <2>1. SUFFICES ASSUME SInv PROVE ServerTypeOK
    OBVIOUS
  <2>2. RequestTyped /\ Underway /\ PageTyped(buffer)
    BY <2>1 DEF SInv
  <2>3. /\ request.path \in Seq(Names) /\ request.inode \in Inodes(MaxSize)
        /\ request.inode.size \in Nat /\ request.off \in 0 .. request.inode.size
        /\ request.pc \in {"idle", "inode", "block"} /\ reply.out \in Seq(Cells)
    BY <2>2, Requested
  <2>4. \E n \in 0 .. Len(request.path) :
           request.rest = SubSeq(request.path, n + 1, Len(request.path))
    <3>1. CASE request.pc = "idle"
      <4>1. request.rest = << >> /\ Len(request.path) \in 0 .. Len(request.path)
        BY <2>2, <2>3, <3>1 DEF RequestTyped
      <4>2. SubSeq(request.path, Len(request.path) + 1, Len(request.path)) = << >>
        BY <2>3
      <4>. QED BY <4>1, <4>2
    <3>. QED BY <2>2, <3>1 DEF Underway
  <2>5. /\ request.path \in {<<>>} \union {q.path : q \in Requests} /\ request.inr \in Word
        /\ reply.ret \in error_codes \union {ERR_NONE}
        /\ reply.attr \in [mode : Modes, size : 0 .. MaxSize, blocks : 0 .. MaxSize]
        /\ due \in BOOLEAN /\ served \subseteq {q.path : q \in Requests}
    BY <2>2 DEF RequestTyped
  <2>. QED BY <2>2, <2>3, <2>4, <2>5 DEF ServerTypeOK, PageTyped
<1>. QED BY <1>1, ServingInvariantHolds, PTL

\* What has been answered is on the disk and stays there, whatever writers do later.
THEOREM AnswersStayTrue == SoundImages => (SSpec /\ []WithinLimits => []ServedIsStored)
<1>1. SInv => ServedIsStored
  <2> DEFINE path == request.path
             inr  == At(disk, path, Len(path))
  <2>1. SUFFICES ASSUME SInv, request.pc = "idle", reply.ret = ERR_NONE, path \in served
                 PROVE  /\ InumberOf(path) \in Allocated
                        /\ request.op = "getattr" =>
                              /\ reply.attr.mode = FileAt(path).mode
                              /\ reply.attr.size <= FileAt(path).size
                              /\ reply.attr.blocks * SectorSize >= reply.attr.size
                        /\ request.op # "getattr" =>
                              /\ Len(reply.out) <= FileAt(path).size
                              /\ \A k \in 1 .. Len(reply.out) :
                                    reply.out[k] = CellAt(disk, FileAt(path), k - 1)
    BY DEF ServedIsStored
  <2>2. Sound(disk) /\ RequestTyped /\ AnswerTrue
    BY <2>1 DEF SInv, AInv, IInv
  <2>3. path \in Seq(Names) /\ Len(reply.out) \in Nat
    BY <2>2, Requested
  <2>4. inr = InumberOf(path)
    <3>1. SubSeq(path, 1, Len(path)) = path
      BY <2>3, Beginning
    <3>. QED BY <3>1 DEF At, InumberOf
  <2>5. /\ inr \in Live(disk)
        /\ request.op = "getattr" =>
             /\ reply.attr.mode = disk.itab[inr].mode
             /\ reply.attr.size <= disk.itab[inr].size
             /\ reply.attr.blocks * SectorSize >= reply.attr.size
        /\ request.op # "getattr" =>
             /\ Len(reply.out) <= disk.itab[inr].size
             /\ \A k \in 1 .. Len(reply.out) : reply.out[k] = Cell(disk, inr, k - 1)
    BY <2>1, <2>2 DEF AnswerTrue
  <2> HIDE DEF path, inr
  <2>6. ASSUME request.op # "getattr", NEW k \in 1 .. Len(reply.out)
        PROVE  reply.out[k] = CellAt(disk, disk.itab[inr], k - 1)
    <3>1. k - 1 \in Positions(disk, inr)
      <4>1. disk.itab[inr].size \in Nat
        BY <2>2, <2>5, InodeInUse DEF Sound
      <4>. QED BY <2>3, <2>5, <2>6, <4>1 DEF Positions
    <3>2. CellAt(disk, disk.itab[inr], k - 1) = Cell(disk, inr, k - 1)
      BY <2>2, <2>5, <3>1, Readable
    <3>. QED BY <2>5, <2>6, <3>2
  <2>7. Allocated = Live(disk) /\ FileAt(path) = disk.itab[inr]
    BY <2>4 DEF Allocated, Live, FileAt
  <2>. QED BY <2>4, <2>5, <2>6, <2>7
<1>. QED BY <1>1, ServingInvariantHolds, PTL

\* A reader never falls between two writes of a writer: a request fails only where there
\* is nothing of that name, or a file is on the way, or the buffer of filler is full.
THEOREM NoHalfStateIsSeen == SoundImages => (SSpec /\ []WithinLimits => []NoHalfState)
<1>1. SInv => NoHalfState
  <2>1. SUFFICES ASSUME SInv, request.pc = "idle" PROVE NoHalfState
    BY DEF NoHalfState
  <2>2. AnswerTrue /\ Allocated = Live(disk) /\ Dirs = Directories(disk)
    BY <2>1 DEF SInv, Allocated, Dirs, Live, Directories
  <2>3. \A n : At(disk, request.path, n) = InumberOf(SubSeq(request.path, 1, n))
    BY DEF At, InumberOf
  <2>. QED BY <2>1, <2>2, <2>3 DEF NoHalfState, AnswerTrue
<1>. QED BY <1>1, ServingInvariantHolds, PTL

\* What was served once, or reported as written before the request began and with a page
\* other than the root's in the buffer, is found.
THEOREM NamesAreFound == SoundImages => (SSpec /\ []WithinLimits => []NoNameIsMissed)
<1>1. SInv => NoNameIsMissed
  BY DEF SInv, AnswerTrue, NoNameIsMissed
<1>. QED BY <1>1, ServingInvariantHolds, PTL

===================================================================================
