--------------------------------- MODULE U6Image_proofs ---------------------------------
(***********************************************************************************)
(* Sound images: what the code reads from one, where a path leads on it, what one  *)
(* write may do to it, and that a mount finds all that is in use.  Scans and walks *)
(* are recursive functions; facts about every step of one are proved of the least  *)
(* step at which they would fail.                                                  *)
(***********************************************************************************)
EXTENDS U6fsInvariant, Format_proofs, SequenceTheorems, FiniteSetTheorems

-----------------------------------------------------------------------------------
(* Small files. *)

\* The constants of the format.
LEMMA Format ==
    /\ SectorSize \in Nat /\ SectorSize >= 2 /\ AddrSmall \in Nat /\ AddrSmall >= 2
    /\ WordValues \in Nat \ {0} /\ MAX_SIZE \in Nat /\ MAX_SIZE = AddrSmall * SectorSize
    /\ MediumSize \in Nat /\ AddrSmall <= MediumSize /\ MaxSize \in Nat /\ MAX_SIZE <= MaxSize
    /\ s_block_start \in Nat \ {0} /\ s_fsize \in Nat /\ s_block_start <= s_fsize
    /\ s_fsize < WordValues /\ InodesPerSector \in Nat \ {0, 1} /\ s_isize \in Nat \ {0}
<1>1. /\ SectorSize \in Nat /\ SectorSize >= 2 /\ AddrSmall \in Nat /\ AddrSmall >= 2
      /\ WordValues \in Nat \ {0}
      /\ s_block_start \in Nat \ {0} /\ s_fsize \in Nat /\ s_block_start <= s_fsize
      /\ s_fsize < WordValues /\ InodesPerSector \in Nat \ {0, 1} /\ s_isize \in Nat \ {0}
  BY GeometryAssumption, VolumeAssumption, InodeTableAssumption
<1>2. MAX_SIZE \in Nat /\ MAX_SIZE = AddrSmall * SectorSize
  <2>1. AddrSmall * SectorSize \in Nat
    BY <1>1, SMTT(30)
  <2>. QED BY <2>1 DEF MAX_SIZE
<1>3. MediumSize \in Nat /\ AddrSmall <= MediumSize
  <2>1. AddrSmall - 1 \in Nat /\ (AddrSmall - 1) * SectorSize \in Nat
    BY <1>1, SMTT(30)
  <2>2. (AddrSmall - 1) * 2 <= (AddrSmall - 1) * SectorSize
    BY <1>1, SMTT(30)
  <2>. QED BY <1>1, <2>1, <2>2 DEF MediumSize, AddressesPerSector
<1>4. MaxSize \in Nat /\ MAX_SIZE <= MaxSize
  <2>1. MediumSize * SectorSize \in Nat
    BY <1>1, <1>3, SMTT(30)
  <2>. QED BY <1>2, <2>1 DEF MaxSize
<1>. QED BY <1>1, <1>2, <1>3, <1>4

\* Every position of a file with fewer than AddrSmall sectors has a slot of its own.
LEMMA Slot ==
    ASSUME NEW n \in Nat, n < MAX_SIZE, NEW p \in 0 .. n
    PROVE  /\ SizeTot(n) \in Nat /\ SizeTot(n) <= AddrSmall
           /\ p \div SectorSize \in 0 .. AddrSmall - 1
           /\ p \div SectorSize \in 0 .. SizeTot(n) - 1
           /\ p % SectorSize \in 0 .. SectorSize - 1
<1>1. SizeTot(n) \in Nat /\ SizeTot(n) <= AddrSmall
  BY Format, Quotient DEF SizeTot
<1>2. p \in Nat /\ p <= n /\ SectorSize \in Nat \ {0}
  BY Format
<1>3. p \div SectorSize \in 0 .. n \div SectorSize
  BY <1>2, DivMonotone
<1>4. p % SectorSize \in 0 .. SectorSize - 1
  BY <1>2, Division
<1>5. n \div SectorSize \in Int /\ SizeTot(n) = n \div SectorSize + 1
  BY <1>2, Division DEF SizeTot
<1>. QED BY <1>1, <1>3, <1>4, <1>5, Format

\* What is known of the inode of a file in use, on a sound image.
LEMMA InodeInUse ==
    ASSUME NEW d, Typed(d), Small(d), NEW inr \in Live(d)
    PROVE  /\ inr \in InodeNumbers \ {0} /\ d.itab[inr].mode \in {"file", "dir"}
           /\ d.itab[inr].size \in Nat /\ d.itab[inr].size < MAX_SIZE
           /\ d.itab[inr].addr \in [0 .. AddrSmall - 1 -> Word]
           /\ inr \in ScannedInodes
           /\ \A p \in Positions(d, inr) : p \in Nat /\ p \in 0 .. d.itab[inr].size
<1>1. inr \in InodeNumbers \ {0} /\ d.itab[inr].mode # "free" /\ d.itab[inr] \in Inodes(MaxSize)
  BY DEF Live, Typed
<1>2. d.itab[inr].size < MAX_SIZE /\ inr \in ScannedInodes
  BY DEF Small
<1>3. d.itab[inr].size \in 0 .. MaxSize /\ d.itab[inr].mode \in Modes
      /\ d.itab[inr].addr \in [0 .. AddrSmall - 1 -> Word]
  BY <1>1 DEF Inodes
<1>. QED BY <1>1, <1>2, <1>3, Format DEF Modes, Positions

\* In a small file the sector of a cell is the one in its slot.
LEMMA SmallFile ==
    ASSUME NEW d, Typed(d), Small(d), NEW inr \in Live(d), NEW p \in Positions(d, inr)
    PROVE  /\ inode_findsector(Words(d), d.itab[inr], p \div SectorSize) = Place(d, inr, p)
           /\ Place(d, inr, p) \in Word
           /\ CellSector(d, d.itab[inr], p) =
                 IF Place(d, inr, p) \in DOMAIN d.data THEN Place(d, inr, p) ELSE ERR_IO
<1> DEFINE i == d.itab[inr]
           off == p \div SectorSize
<1>1. /\ i.size \in Nat /\ i.size < MAX_SIZE /\ i.mode # "free"
      /\ i.addr \in [0 .. AddrSmall - 1 -> Word] /\ p \in 0 .. i.size
  BY InodeInUse
<1>2. SizeTot(i.size) <= AddrSmall /\ off \in 0 .. AddrSmall - 1 /\ off \in 0 .. SizeTot(i.size) - 1
  <2> HIDE DEF i
  <2>. QED BY <1>1, Slot
<1>3. inode_findsector(Words(d), i, off) = i.addr[off]
  <2> HIDE DEF i, off
  <2>. QED BY <1>1, <1>2 DEF inode_findsector
<1>4. i.addr[off] \in Word
  <2> HIDE DEF i, off
  <2>. QED BY <1>1, <1>2
<1>5. Place(d, inr, p) = i.addr[off]
  BY DEF Place
<1>6. Place(d, inr, p) >= 0
  BY <1>4, <1>5, Format DEF Word
<1>. QED BY <1>3, <1>4, <1>5, <1>6 DEF CellSector

\* On a sound image every cell of a file can be read.
LEMMA Readable ==
    ASSUME NEW d, Sound(d), NEW inr \in Live(d), NEW p \in Positions(d, inr)
    PROVE  /\ Place(d, inr, p) \in Numbered /\ Place(d, inr, p) \in DOMAIN d.data
           /\ CellSector(d, d.itab[inr], p) = Place(d, inr, p)
           /\ CellAt(d, d.itab[inr], p) = Cell(d, inr, p)
           /\ Cell(d, inr, p) \in Cells
<1>1. Typed(d) /\ Small(d) /\ Stored(d)
  BY DEF Sound
<1>2. Place(d, inr, p) \in Numbered /\ Place(d, inr, p) \in DOMAIN d.data
  BY <1>1 DEF Stored
<1>3. CellSector(d, d.itab[inr], p) = Place(d, inr, p)
  BY <1>1, <1>2, SmallFile
<1>4. CellAt(d, d.itab[inr], p) = Cell(d, inr, p)
  BY <1>3 DEF CellAt, Cell
<1>5. p % SectorSize \in 0 .. SectorSize - 1
  <2>1. p \in Int /\ SectorSize \in Nat \ {0}
    BY <1>1, InodeInUse, Format
  <2>. QED BY <2>1, Division
<1>6. d.data[Place(d, inr, p)] \in Sectors
  BY <1>1, <1>2 DEF Typed
<1>7. Cell(d, inr, p) \in Cells
  BY <1>5, <1>6 DEF Cell, Sectors
<1>. QED BY <1>2, <1>3, <1>4, <1>7

\* The sector of a cell of a file is in use.
LEMMA SectorInUse ==
    ASSUME NEW d, NEW i \in Live(d), NEW p \in Positions(d, i)
    PROVE  Place(d, i, p) \in SectorsInUse(d)
<1>1. Place(d, i, p) \in {Place(d, i, q) : q \in Positions(d, i)}
  OBVIOUS
<1>. QED BY <1>1 DEF SectorsInUse

\* The last sector of a file that ends within a sector: where the place behind the
\* last cell is, which no cell of the file has.
LEMMA LastSector ==
    ASSUME NEW d, Sound(d), NEW inr \in Live(d), NEW size \in Nat, size = d.itab[inr].size,
           size % SectorSize # 0
    PROVE  /\ size - 1 \in Positions(d, inr)
           /\ (size - 1) \div SectorSize = size \div SectorSize
           /\ Place(d, inr, size - 1) = d.itab[inr].addr[size \div SectorSize]
           /\ CellSector(d, d.itab[inr], size) = Place(d, inr, size - 1)
           /\ Place(d, inr, size - 1) \in Numbered \intersect DOMAIN d.data
           /\ \A i \in Live(d) : \A p \in Positions(d, i) :
                 Place(d, i, p) = Place(d, inr, size - 1) => p % SectorSize # size % SectorSize
<1> DEFINE last == size - 1
<1>1. last \in Nat /\ last \div SectorSize = size \div SectorSize
  BY Format, BeforeInBlock
<1>2. last \in Positions(d, inr)
  BY <1>1 DEF Positions
<1>3. Place(d, inr, last) = d.itab[inr].addr[size \div SectorSize]
  <2> HIDE DEF last
  <2>. QED BY <1>1 DEF Place
<1>4. CellSector(d, d.itab[inr], size) = Place(d, inr, last)
  <2>1. CellSector(d, d.itab[inr], last) = Place(d, inr, last)
    BY <1>2, Readable
  <2> HIDE DEF last
  <2>. QED BY <1>1, <2>1 DEF CellSector
<1>5. Place(d, inr, last) \in Numbered \intersect DOMAIN d.data
  BY <1>2, Readable
<1>6. ASSUME NEW i \in Live(d), NEW p \in Positions(d, i), Place(d, i, p) = Place(d, inr, last)
      PROVE  p % SectorSize # size % SectorSize
  <2>1. i = inr /\ p \div SectorSize = last \div SectorSize
    BY <1>2, <1>6 DEF Sound, Apart
  <2>2. p \in Nat /\ p # size
    BY <2>1 DEF Positions
  <2>. QED BY <1>1, <2>1, <2>2, Format, OnePlace
<1>. QED BY <1>1, <1>2, <1>3, <1>4, <1>5, <1>6

-----------------------------------------------------------------------------------
(* What one write does to a sound image. *)

\* A new inode, of size 0, in place of one that was free.
LEMMA NewInode ==
    ASSUME NEW d, Sound(d), NEW e, Typed(e), Small(e), NEW inr \in InodeNumbers, inr # 0,
           inr \notin Live(d), e.data = d.data,
           \A i \in InodeNumbers \ {inr} : e.itab[i] = d.itab[i],
           e.itab[inr].mode # "free", e.itab[inr].size = 0
    PROVE  /\ Sound(e) /\ Grown(d, e)
           /\ Live(e) = Live(d) \union {inr}
           /\ Directories(d) \subseteq Directories(e)
           /\ SectorsInUse(e) = SectorsInUse(d)
           /\ ~ Linked(e, inr)
           /\ \A dir \in Directories(d) : \A name : Holds(e, dir, name) => Holds(d, dir, name)
<1>1. Live(e) = Live(d) \union {inr}
  BY DEF Live
<1>2. \A i \in Live(d) : i # inr /\ e.itab[i] = d.itab[i]
  BY DEF Live
<1>3. /\ Directories(d) \subseteq Directories(e)
      /\ Directories(e) \subseteq Directories(d) \union {inr}
  BY <1>1, <1>2 DEF Directories
<1>4. Positions(e, inr) = {}
  BY DEF Positions
<1>5. \A i \in Live(d) : Positions(e, i) = Positions(d, i)
  BY <1>2 DEF Positions
<1>6. \A i \in Live(d) : \A p \in Positions(d, i) :
         Place(e, i, p) = Place(d, i, p) /\ Cell(e, i, p) = Cell(d, i, p)
  BY <1>2 DEF Place, Cell
<1>7. \A i \in Live(e) : \A p \in Positions(e, i) :
         /\ i \in Live(d) /\ p \in Positions(d, i)
         /\ i \in Directories(e) => i \in Directories(d)
         /\ Place(e, i, p) = Place(d, i, p) /\ Cell(e, i, p) = Cell(d, i, p)
  BY <1>1, <1>2, <1>3, <1>4, <1>5, <1>6
<1>8. Directories(e) \subseteq Live(e)
  BY DEF Directories
<1> USE DEF Sound
<1>9. Rooted(e)
  BY <1>3 DEF Rooted
<1>10. Stored(e)
  BY <1>7 DEF Stored
<1>11. Apart(e)
  BY <1>7 DEF Apart
<1>12. Named(e)
  BY <1>1, <1>7, <1>8 DEF Named
<1>13. Once(e)
  BY <1>7, <1>8 DEF Once
<1>14. Unique(e)
  BY <1>7, <1>8 DEF Unique
<1>15. Grown(d, e)
  <2>1. \A i \in Live(d) : d.itab[i].size \in Nat
    BY InodeInUse
  <2>. QED BY <1>2, <1>6, <2>1 DEF Grown
<1>16. SectorsInUse(e) = SectorsInUse(d)
  BY <1>1, <1>4, <1>5, <1>6 DEF SectorsInUse
<1>17. ~ Linked(e, inr)
  <2>1. \A i \in Directories(d) : \A p \in Positions(d, i) : Cell(d, i, p).inr # inr
    BY DEF Named
  <2>. QED BY <1>7, <1>8, <2>1 DEF Linked
<1>18. \A dir \in Directories(d) : \A name : Holds(e, dir, name) => Holds(d, dir, name)
  BY <1>3, <1>7, <1>8 DEF Holds
<1>. QED BY <1>1, <1>3, <1>9, <1>10, <1>11, <1>12, <1>13, <1>14, <1>15, <1>16, <1>17, <1>18

\* A sector written, in which every cell of a file keeps its content.
LEMMA NewData ==
    ASSUME NEW d, Sound(d), NEW e, Typed(e), e.itab = d.itab,
           NEW s \in Numbered, DOMAIN e.data = DOMAIN d.data \union {s},
           \A t \in DOMAIN d.data \ {s} : e.data[t] = d.data[t],
           \A i \in Live(d) : \A p \in Positions(d, i) :
              Place(d, i, p) = s => e.data[s][p % SectorSize] = d.data[s][p % SectorSize]
    PROVE  /\ Sound(e) /\ Grown(d, e)
           /\ Live(e) = Live(d) /\ Directories(e) = Directories(d)
           /\ SectorsInUse(e) = SectorsInUse(d)
           /\ \A i : Linked(e, i) <=> Linked(d, i)
           /\ \A dir \in Directories(d) : \A name : Holds(e, dir, name) <=> Holds(d, dir, name)
<1> USE DEF Sound
<1>1. Live(e) = Live(d) /\ Directories(e) = Directories(d)
  BY DEF Live, Directories
<1>2. \A i : Positions(e, i) = Positions(d, i)
  BY DEF Positions
<1>3. \A i, p : Place(e, i, p) = Place(d, i, p)
  BY DEF Place
<1>4. \A i \in Live(d) : \A p \in Positions(d, i) : Cell(e, i, p) = Cell(d, i, p)
  <2>1. SUFFICES ASSUME NEW i \in Live(d), NEW p \in Positions(d, i)
                 PROVE  Cell(e, i, p) = Cell(d, i, p)
    OBVIOUS
  <2>2. Place(d, i, p) \in DOMAIN d.data
    BY DEF Stored
  <2>3. CASE Place(d, i, p) = s
    BY <1>3, <2>3 DEF Cell
  <2>4. CASE Place(d, i, p) # s
    BY <1>3, <2>2, <2>4 DEF Cell
  <2>. QED BY <2>3, <2>4
<1>5. Directories(d) \subseteq Live(d)
  BY DEF Directories
<1>6. Rooted(e) /\ Small(e)
  BY <1>1 DEF Rooted, Small
<1>7. Stored(e)
  BY <1>1, <1>2, <1>3 DEF Stored
<1>8. Apart(e)
  BY <1>1, <1>2, <1>3 DEF Apart
<1>9. Named(e)
  BY <1>1, <1>2, <1>4, <1>5 DEF Named
<1>10. Once(e)
  BY <1>1, <1>2, <1>4, <1>5 DEF Once
<1>11. Unique(e)
  BY <1>1, <1>2, <1>4, <1>5 DEF Unique
<1>12. Grown(d, e)
  <2>1. \A i \in Live(d) : d.itab[i].size \in Nat
    BY InodeInUse
  <2>. QED BY <1>3, <1>4, <2>1 DEF Grown
<1>13. SectorsInUse(e) = SectorsInUse(d)
  BY <1>1, <1>2, <1>3 DEF SectorsInUse
<1>14. \A i : Linked(e, i) <=> Linked(d, i)
  BY <1>1, <1>2, <1>4, <1>5 DEF Linked
<1>15. \A dir \in Directories(d) : \A name : Holds(e, dir, name) <=> Holds(d, dir, name)
  BY <1>2, <1>4, <1>5 DEF Holds
<1>. QED BY <1>1, <1>6, <1>7, <1>8, <1>9, <1>10, <1>11, <1>12, <1>13, <1>14, <1>15

\* An inode with a larger size, the new cells in the sector of the last one or in
\* sectors that nothing used.
LEMMA Longer ==
    ASSUME NEW d, Sound(d), NEW e, Typed(e), Small(e), NEW inr \in Live(d),
           e.data = d.data, \A i \in InodeNumbers \ {inr} : e.itab[i] = d.itab[i],
           e.itab[inr].mode = d.itab[inr].mode,
           Positions(d, inr) \subseteq Positions(e, inr),
           \A p \in Positions(d, inr) : Place(e, inr, p) = Place(d, inr, p),
           \A p \in Positions(e, inr) \ Positions(d, inr) :
              /\ Place(e, inr, p) \in Numbered \intersect DOMAIN d.data
              /\ \/ Place(e, inr, p) \notin SectorsInUse(d)
                 \/ \E q \in Positions(d, inr) :
                       /\ p \div SectorSize = q \div SectorSize
                       /\ Place(e, inr, p) = Place(d, inr, q),
           \A p, q \in Positions(e, inr) \ Positions(d, inr) :
              p \div SectorSize = q \div SectorSize,
           inr \in Directories(d) =>
              \A p, q \in Positions(e, inr) \ Positions(d, inr) :
                 /\ p = q
                 /\ Cell(e, inr, p).inr \in Live(d) \ {ROOT_INUMBER}
                 /\ ~ Linked(d, Cell(e, inr, p).inr)
                 /\ ~ Holds(d, inr, Cell(e, inr, p).name)
    PROVE  /\ Sound(e) /\ Grown(d, e)
           /\ Live(e) = Live(d) /\ Directories(e) = Directories(d)
           /\ SectorsInUse(e) \subseteq SectorsInUse(d) \union
                 {Place(e, inr, p) : p \in Positions(e, inr) \ Positions(d, inr)}
<1> DEFINE New == Positions(e, inr) \ Positions(d, inr)
<1> USE DEF Sound
<1>1. Live(e) = Live(d) /\ Directories(e) = Directories(d)
  <2>1. \A i \in InodeNumbers : e.itab[i].mode = d.itab[i].mode
    BY DEF Live
  <2>. QED BY <2>1 DEF Live, Directories
<1>2. \A i \in Live(d) : i # inr => e.itab[i] = d.itab[i] /\ Positions(e, i) = Positions(d, i)
  BY DEF Live, Positions
<1>3. \A i \in Live(d) : \A p \in Positions(d, i) :
         Place(e, i, p) = Place(d, i, p) /\ Cell(e, i, p) = Cell(d, i, p)
  BY <1>2 DEF Place, Cell
<1>4. ASSUME NEW i \in Live(d), NEW p \in Positions(e, i)
      PROVE  p \in Positions(d, i) \/ (i = inr /\ p \in New)
  <2>1. CASE i = inr
    BY <2>1
  <2>2. CASE i # inr
    BY <1>2, <2>2
  <2>. QED BY <2>1, <2>2
<1>5. ASSUME NEW i \in Live(d), NEW p \in Positions(d, i)
      PROVE  Place(d, i, p) \in SectorsInUse(d)
  BY SectorInUse
<1>6. Directories(d) \subseteq Live(d)
  BY DEF Directories
<1>7. Rooted(e)
  BY <1>1 DEF Rooted
<1>8. Stored(e)
  BY <1>1, <1>3, <1>4 DEF Stored
<1>9. ASSUME NEW p \in New, NEW j \in Live(d), NEW q \in Positions(d, j),
             Place(e, inr, p) = Place(d, j, q)
      PROVE  inr = j /\ p \div SectorSize = q \div SectorSize
  <2>1. Place(e, inr, p) \in SectorsInUse(d)
    BY <1>5, <1>9
  <2>2. PICK r \in Positions(d, inr) : /\ p \div SectorSize = r \div SectorSize
                                       /\ Place(e, inr, p) = Place(d, inr, r)
    BY <2>1
  <2>3. Place(d, inr, r) = Place(d, j, q)
    BY <1>9, <2>2
  <2>4. inr = j /\ r \div SectorSize = q \div SectorSize
    BY <2>3 DEF Apart
  <2>. QED BY <2>2, <2>4
<1>10. Apart(e)
  <2>1. SUFFICES ASSUME NEW i \in Live(d), NEW j \in Live(d),
                        NEW p \in Positions(e, i), NEW q \in Positions(e, j),
                        Place(e, i, p) = Place(e, j, q)
                 PROVE  i = j /\ p \div SectorSize = q \div SectorSize
    BY <1>1 DEF Apart
  <2>2. CASE p \in Positions(d, i) /\ q \in Positions(d, j)
    BY <1>3, <2>1, <2>2 DEF Apart
  <2>3. CASE i = inr /\ p \in New /\ q \in Positions(d, j)
    BY <1>3, <1>9, <2>1, <2>3
  <2>4. CASE p \in Positions(d, i) /\ j = inr /\ q \in New
    BY <1>3, <1>9, <2>1, <2>4
  <2>5. CASE i = inr /\ p \in New /\ j = inr /\ q \in New
    BY <2>5
  <2>. QED BY <1>4, <2>2, <2>3, <2>4, <2>5
<1>11. Named(e)
  <2>1. SUFFICES ASSUME NEW i \in Directories(d), NEW p \in Positions(e, i)
                 PROVE  Cell(e, i, p).inr \in Live(d) \ {ROOT_INUMBER}
    BY <1>1 DEF Named
  <2>2. CASE p \in Positions(d, i)
    <3>1. Cell(e, i, p) = Cell(d, i, p)
      BY <1>3, <1>6, <2>2
    <3>. QED BY <2>2, <3>1 DEF Named
  <2>3. CASE i = inr /\ p \in New
    BY <2>3
  <2>. QED BY <1>4, <1>6, <2>2, <2>3
<1>12. ASSUME inr \in Directories(d), NEW p \in New, NEW j \in Directories(d),
              NEW q \in Positions(d, j)
       PROVE  /\ Cell(e, inr, p).inr # Cell(e, j, q).inr
              /\ j = inr => Cell(e, inr, p).name # Cell(e, j, q).name
  <2>1. ~ Linked(d, Cell(e, inr, p).inr) /\ ~ Holds(d, inr, Cell(e, inr, p).name)
    BY <1>12
  <2>2. Cell(e, j, q) = Cell(d, j, q)
    BY <1>3, <1>6
  <2>. QED BY <2>1, <2>2 DEF Linked, Holds
<1>13. Once(e)
  <2>1. SUFFICES ASSUME NEW i \in Directories(d), NEW j \in Directories(d),
                        NEW p \in Positions(e, i), NEW q \in Positions(e, j),
                        Cell(e, i, p).inr = Cell(e, j, q).inr
                 PROVE  i = j /\ p = q
    BY <1>1 DEF Once
  <2>2. CASE p \in Positions(d, i) /\ q \in Positions(d, j)
    <3>1. Cell(e, i, p) = Cell(d, i, p) /\ Cell(e, j, q) = Cell(d, j, q)
      BY <1>3, <1>6, <2>2
    <3>. QED BY <2>1, <2>2, <3>1 DEF Once
  <2>3. CASE i = inr /\ p \in New /\ q \in Positions(d, j)
    BY <1>12, <2>1, <2>3
  <2>4. CASE p \in Positions(d, i) /\ j = inr /\ q \in New
    BY <1>12, <2>1, <2>4
  <2>5. CASE i = inr /\ p \in New /\ j = inr /\ q \in New
    BY <2>5
  <2>. QED BY <1>4, <1>6, <2>2, <2>3, <2>4, <2>5
<1>14. Unique(e)
  <2>1. SUFFICES ASSUME NEW i \in Directories(d),
                        NEW p \in Positions(e, i), NEW q \in Positions(e, i),
                        Cell(e, i, p).name = Cell(e, i, q).name
                 PROVE  p = q
    BY <1>1 DEF Unique
  <2>2. CASE p \in Positions(d, i) /\ q \in Positions(d, i)
    <3>1. Cell(e, i, p) = Cell(d, i, p) /\ Cell(e, i, q) = Cell(d, i, q)
      BY <1>3, <1>6, <2>2
    <3>. QED BY <2>1, <2>2, <3>1 DEF Unique
  <2>3. CASE i = inr /\ p \in New /\ q \in Positions(d, i)
    BY <1>12, <2>1, <2>3
  <2>4. CASE p \in Positions(d, i) /\ i = inr /\ q \in New
    BY <1>12, <2>1, <2>4
  <2>5. CASE i = inr /\ p \in New /\ q \in New
    BY <2>5
  <2>. QED BY <1>4, <1>6, <2>2, <2>3, <2>4, <2>5
<1>15. Grown(d, e)
  <2>1. \A i \in Live(d) : d.itab[i].size \in Nat /\ e.itab[i].size \in Nat
    BY <1>1, InodeInUse
  <2>2. e.itab[inr].size >= d.itab[inr].size
    <3> DEFINE m == d.itab[inr].size
               n == e.itab[inr].size
    <3>1. m \in Nat /\ n \in Nat /\ 0 .. m - 1 \subseteq 0 .. n - 1
      BY <2>1 DEF Positions
    <3> HIDE DEF m, n
    <3>2. n >= m
      BY <3>1
    <3>. QED BY <3>2 DEF m, n
  <2>3. \A i \in Live(d) : e.itab[i].mode = d.itab[i].mode /\ e.itab[i].size >= d.itab[i].size
    BY <1>2, <2>1, <2>2
  <2>. QED BY <1>3, <2>3 DEF Grown
<1>16. SectorsInUse(e) \subseteq SectorsInUse(d) \union {Place(e, inr, p) : p \in New}
  <2>1. SUFFICES ASSUME NEW i \in Live(d), NEW p \in Positions(e, i)
                 PROVE  Place(e, i, p) \in SectorsInUse(d) \union {Place(e, inr, x) : x \in New}
    BY <1>1 DEF SectorsInUse
  <2>2. CASE p \in Positions(d, i)
    BY <1>3, <1>5, <2>2
  <2>3. CASE i = inr /\ p \in New
    BY <2>3
  <2>. QED BY <1>4, <2>2, <2>3
<1>. QED BY <1>1, <1>7, <1>8, <1>10, <1>11, <1>13, <1>14, <1>15, <1>16

\* An image has all that it has.
LEMMA GrownSelf ==
    ASSUME NEW d, Sound(d) PROVE Grown(d, d)
<1>1. \A i \in Live(d) : d.itab[i].size \in Nat
  BY InodeInUse DEF Sound
<1>. QED BY <1>1 DEF Grown

\* What has grown has all the sectors in use of what it was.
LEMMA GrownKeeps ==
    ASSUME NEW d, Sound(d), NEW e, Sound(e), Grown(d, e)
    PROVE  /\ Live(d) \subseteq Live(e) /\ Directories(d) \subseteq Directories(e)
           /\ \A i \in Live(d) : Positions(d, i) \subseteq Positions(e, i)
           /\ SectorsInUse(d) \subseteq SectorsInUse(e)
<1>1. \A i \in Live(d) : d.itab[i].size \in Nat
  BY InodeInUse DEF Sound
<1>2. Live(d) \subseteq Live(e) /\ Directories(d) \subseteq Directories(e)
  BY DEF Grown, Live, Directories
<1>3. \A i \in Live(d) : Positions(d, i) \subseteq Positions(e, i)
  <2>1. SUFFICES ASSUME NEW i \in Live(d) PROVE Positions(d, i) \subseteq Positions(e, i)
    OBVIOUS
  <2>2. /\ d.itab[i].size \in Nat /\ e.itab[i].size \in Nat
        /\ e.itab[i].size >= d.itab[i].size
    BY <1>1, <1>2, InodeInUse DEF Grown, Sound
  <2>. QED BY <2>2 DEF Positions
<1>4. SectorsInUse(d) \subseteq SectorsInUse(e)
  <2>1. SUFFICES ASSUME NEW i \in Live(d), NEW p \in Positions(d, i)
                 PROVE  Place(d, i, p) \in SectorsInUse(e)
    BY DEF SectorsInUse
  <2>2. Place(d, i, p) = Place(e, i, p)
    BY DEF Grown
  <2>. QED BY <1>2, <1>3, <2>2 DEF SectorsInUse
<1>. QED BY <1>2, <1>3, <1>4

\* The image with inode i written back.
WithInode(d, inr, i) == [d EXCEPT !.itab = inode_write(d.itab, inr, i)]

\* Nothing else has changed then.
LEMMA InodeWritten ==
    ASSUME NEW d, Sound(d), NEW inr \in Live(d), NEW i \in Inodes(MaxSize),
           NEW e, e = WithInode(d, inr, i)
    PROVE  /\ Typed(e) /\ e.data = d.data /\ e.itab[inr] = i
           /\ \A j \in InodeNumbers \ {inr} : e.itab[j] = d.itab[j]
<1>1. /\ d = [itab |-> d.itab, data |-> d.data]
      /\ d.itab \in [InodeNumbers -> Inodes(MaxSize)]
      /\ d.data \in [DOMAIN d.data -> Sectors]
      /\ DOMAIN d.data \subseteq Volume \union {s_fsize}
      /\ inr \in InodeNumbers
  BY DEF Sound, Typed, Live
<1> DEFINE itab == [d.itab EXCEPT ![inr] = i]
<1>2. e = [itab |-> itab, data |-> d.data]
  BY <1>1 DEF inode_write, WithInode
<1>3. /\ itab \in [InodeNumbers -> Inodes(MaxSize)] /\ itab[inr] = i
      /\ \A j \in InodeNumbers \ {inr} : itab[j] = d.itab[j]
  BY <1>1
<1> HIDE DEF itab
<1>. QED BY <1>1, <1>2, <1>3 DEF Typed

\* Cells put into a sector, and the others as they were.
LEMMA Overwritten ==
    ASSUME NEW sector \in Sectors, NEW p \in Nat, NEW cells \in Seq(Cells),
           p + Len(cells) <= SectorSize
    PROVE  /\ Overwrite(sector, p, cells) \in Sectors
           /\ \A k \in 0 .. SectorSize - 1 :
                 k \notin p .. p + Len(cells) - 1 => Overwrite(sector, p, cells)[k] = sector[k]
           /\ \A k \in 1 .. Len(cells) : Overwrite(sector, p, cells)[p + k - 1] = cells[k]
<1> DEFINE n == Len(cells)
           new == Overwrite(sector, p, cells)
<1>1. n \in Nat /\ \A k \in 1 .. n : cells[k] \in Cells
  OBVIOUS
<1>2. sector \in [0 .. SectorSize - 1 -> Cells]
  BY DEF Sectors
<1> HIDE DEF n
<1>3. \A k \in p .. p + n - 1 : k - p + 1 \in 1 .. n
  BY <1>1
<1>4. new = [k \in 0 .. SectorSize - 1 |-> IF k \in p .. p + n - 1 THEN cells[k - p + 1] ELSE sector[k]]
  BY DEF Overwrite, n
<1> HIDE DEF new
<1>5. \A k \in 0 .. SectorSize - 1 :
         new[k] = IF k \in p .. p + n - 1 THEN cells[k - p + 1] ELSE sector[k]
  BY <1>4
<1>6. new \in [0 .. SectorSize - 1 -> Cells]
  <2>1. \A k \in 0 .. SectorSize - 1 :
           (IF k \in p .. p + n - 1 THEN cells[k - p + 1] ELSE sector[k]) \in Cells
    BY <1>1, <1>2, <1>3
  <2>. QED BY <1>4, <2>1
<1>7. ASSUME NEW k \in 1 .. n PROVE new[p + k - 1] = cells[k]
  <2>1. /\ p + k - 1 \in 0 .. SectorSize - 1 /\ p + k - 1 \in p .. p + n - 1
        /\ (p + k - 1) - p + 1 = k
    BY <1>1, Format DEF n
  <2>. QED BY <1>5, <2>1
<1>. QED BY <1>5, <1>6, <1>7 DEF new, Sectors, n

-----------------------------------------------------------------------------------
(* Lookups. *)

\* What direntv6_dirlookup_core finds in a directory of a sound image: the entry of
\* that name, or nothing.
LEMMA EntryFound ==
    ASSUME NEW d, Sound(d), NEW inr \in Directories(d), NEW name
    PROVE  /\ \A p \in Positions(d, inr) :
                 Cell(d, inr, p).name = name => LookupEntry(d, inr, name) = Cell(d, inr, p).inr
           /\ ~ Holds(d, inr, name) => LookupEntry(d, inr, name) = ERR_NO_SUCH_FILE
<1> DEFINE i == d.itab[inr]
           n == i.size
           Later(p, f) == IF p \notin Entries(i) THEN ERR_NO_SUCH_FILE
                          ELSE IF CellSector(d, i, p) < 0 THEN CellSector(d, i, p)
                          ELSE IF CellAt(d, i, p).name = name THEN CellAt(d, i, p).inr
                          ELSE f[p + 1]
           Scan(f) == f = [p \in 0 .. n |-> Later(p, f)]
           scan == CHOOSE f : Scan(f)
<1>1. LookupEntry(d, inr, name) = scan[0]
  <2>1. opendir(d, inr) = ERR_NONE
    BY DEF Directories, Live, opendir, inode_read
  <2>. QED BY <2>1 DEF LookupEntry
<1>2. /\ n \in Nat /\ Entries(i) = Positions(d, inr) /\ inr \in Live(d)
      /\ \A p \in Positions(d, inr) : /\ CellSector(d, i, p) >= 0
                                      /\ CellAt(d, i, p) = Cell(d, inr, p)
  <2>1. inr \in Live(d)
    BY DEF Directories
  <2>2. n \in Nat
    BY <2>1, InodeInUse DEF Sound
  <2>3. \A p \in Positions(d, inr) : CellSector(d, i, p) \in Numbered /\ CellAt(d, i, p) = Cell(d, inr, p)
    BY <2>1, Readable
  <2>. QED BY <2>1, <2>2, <2>3, Format DEF Entries, Positions, Numbered
<1> DEFINE Match(q) == q \in Positions(d, inr) /\ Cell(d, inr, q).name = name
           w == CHOOSE q : Match(q)
           first == [p \in 0 .. n |-> IF \E q \in p .. n - 1 : Match(q)
                                        THEN Cell(d, inr, w).inr ELSE ERR_NO_SUCH_FILE]
<1>3. ASSUME NEW q, Match(q) PROVE q = w
  <2>1. Match(w)
    BY <1>3
  <2>2. \A x, y \in Positions(d, inr) : Cell(d, inr, x).name = Cell(d, inr, y).name => x = y
    BY DEF Unique, Sound
  <2> HIDE DEF w
  <2>. QED BY <1>3, <2>1, <2>2
<1>4. ASSUME NEW p \in 0 .. n, NEW f
      PROVE  Later(p, f) = IF p = n THEN ERR_NO_SUCH_FILE
                           ELSE IF Cell(d, inr, p).name = name THEN Cell(d, inr, p).inr ELSE f[p + 1]
  <2>1. p \in Positions(d, inr) <=> p # n
    BY <1>2 DEF Positions
  <2>2. Entries(i) = Positions(d, inr)
    BY <1>2
  <2>3. CASE p = n
    <3>1. p \notin Entries(i)
      BY <2>1, <2>2, <2>3
    <3>. QED BY <2>3, <3>1
  <2>4. CASE p # n
    <3>1. /\ p \in Entries(i) /\ ~ (CellSector(d, i, p) < 0)
          /\ CellAt(d, i, p) = Cell(d, inr, p)
      <4>1. p \in Positions(d, inr)
        BY <2>1, <2>4
      <4>2. CellSector(d, i, p) \in Numbered
        BY <1>2, <4>1, Readable
      <4>. QED BY <1>2, <2>2, <4>1, <4>2, Format DEF Numbered
    <3> HIDE DEF n, i
    <3>. QED BY <2>4, <3>1
  <2>. QED BY <2>3, <2>4
<1> HIDE DEF Later, n, i, w
<1>5. ASSUME NEW p \in 0 .. n
      PROVE  first[p] = IF p = n THEN ERR_NO_SUCH_FILE
                        ELSE IF Cell(d, inr, p).name = name THEN Cell(d, inr, p).inr ELSE first[p + 1]
  <2>1. CASE p = n
    <3>1. p .. n - 1 = {}
      BY <1>2, <2>1
    <3>. QED BY <2>1, <3>1
  <2>2. CASE p # n /\ Cell(d, inr, p).name = name
    <3>1. Match(p)
      BY <1>2, <2>2 DEF Positions, i, n
    <3>2. p \in p .. n - 1
      BY <1>2, <2>2
    <3>. QED BY <1>3, <2>2, <3>1, <3>2
  <2>3. CASE p # n /\ Cell(d, inr, p).name # name
    <3>1. p + 1 \in 0 .. n
      BY <1>2, <2>3
    <3>2. ASSUME NEW q \in Int PROVE q \in p .. n - 1 /\ Match(q) <=> q \in p + 1 .. n - 1 /\ Match(q)
      BY <1>2, <2>3
    <3>3. (\E q \in p .. n - 1 : Match(q)) <=> (\E q \in p + 1 .. n - 1 : Match(q))
      BY <3>2
    <3>. QED BY <2>3, <3>1, <3>3
  <2>. QED BY <2>1, <2>2, <2>3
<1>6. Scan(first)
  <2>1. \A p \in 0 .. n : first[p] = Later(p, first)
    BY <1>4, <1>5
  <2>2. first = [p \in 0 .. n |-> first[p]]
    OBVIOUS
  <2> HIDE DEF first
  <2>. QED BY <2>1, <2>2
<1> HIDE DEF first
<1>7. scan = [p \in 0 .. n |-> Later(p, scan)]
  BY <1>6
<1> HIDE DEF scan
<1>8. scan[0] = first[0]
  <2> DEFINE Bad == {k \in 0 .. n : scan[n - k] # first[n - k]}
  <2>1. SUFFICES ASSUME Bad # {} PROVE FALSE
    <3>1. n \in 0 .. n /\ n - n = 0
      BY <1>2
    <3>. QED BY <3>1
  <2>2. Bad \in SUBSET Nat
    BY <1>2
  <2>3. PICK m \in Bad : \A y \in Bad : m <= y
    BY <2>1, <2>2, MinOfNat
  <2> DEFINE p == n - m
  <2>4. p \in 0 .. n /\ scan[p] # first[p]
    BY <1>2, <2>3
  <2>5. p # n => p + 1 \in 0 .. n /\ scan[p + 1] = first[p + 1]
    <3>1. SUFFICES ASSUME p # n PROVE p + 1 \in 0 .. n /\ scan[p + 1] = first[p + 1]
      OBVIOUS
    <3>2. m - 1 \in 0 .. n /\ n - (m - 1) = p + 1 /\ ~ (m <= m - 1) /\ p + 1 \in 0 .. n
      BY <1>2, <2>3, <3>1
    <3>3. m - 1 \notin Bad
      BY <2>3, <3>2
    <3>. QED BY <3>2, <3>3
  <2>6. scan[p] = Later(p, scan)
    BY <1>7, <2>4
  <2> HIDE DEF p
  <2>. QED BY <1>4, <1>5, <2>4, <2>5, <2>6
<1>9. ASSUME NEW p \in Positions(d, inr), Cell(d, inr, p).name = name
      PROVE  LookupEntry(d, inr, name) = Cell(d, inr, p).inr
  <2>1. Match(p) /\ p \in 0 .. n - 1 /\ 0 \in 0 .. n
    BY <1>2, <1>9 DEF Positions, i, n
  <2>2. p = w
    BY <1>3, <2>1
  <2>. QED BY <1>1, <1>8, <2>1, <2>2 DEF first
<1>10. ASSUME ~ Holds(d, inr, name) PROVE LookupEntry(d, inr, name) = ERR_NO_SUCH_FILE
  <2>1. \A q : ~ Match(q)
    BY <1>10 DEF Holds
  <2>2. 0 \in 0 .. n
    BY <1>2
  <2>. QED BY <1>1, <1>8, <2>1, <2>2 DEF first
<1>. QED BY <1>9, <1>10

\* The recursion of direntv6_dirlookup, as a condition on the function it defines.
WalkStep(d, inr, path, f, k) ==
    IF k = 0 THEN inr
    ELSE IF f[k - 1] < 0 THEN f[k - 1]
    ELSE LookupEntry(d, f[k - 1], path[k])

IsWalk(d, inr, path, f) ==
    f = [k \in 0 .. Len(path) |-> WalkStep(d, inr, path, f, k)]

\* There is such a function, since each value needs only the one before it.
LEMMA WalkExists ==
    ASSUME NEW d, NEW inr, NEW T, NEW path \in Seq(T)
    PROVE  \E f : IsWalk(d, inr, path, f)
<1> DEFINE Fits(n, f) == f = [k \in 0 .. n |-> WalkStep(d, inr, path, f, k)]
           Bad == {n \in 0 .. Len(path) : ~ \E f : Fits(n, f)}
<1>1. Len(path) \in Nat
  OBVIOUS
<1>2. SUFFICES ASSUME Bad # {} PROVE FALSE
  BY <1>1 DEF IsWalk
<1>3. Bad \in SUBSET Nat
  BY <1>1
<1>4. PICK m \in Bad : \A y \in Bad : m <= y
  BY <1>2, <1>3, MinOfNat
<1>5. m # 0
  <2>1. SUFFICES ASSUME m = 0 PROVE FALSE
    OBVIOUS
  <2> DEFINE g == [k \in 0 .. 0 |-> inr]
  <2>2. \A k \in 0 .. 0 : WalkStep(d, inr, path, g, k) = inr
    BY DEF WalkStep
  <2>3. Fits(0, g)
    BY <2>2
  <2>. QED BY <1>4, <2>1, <2>3
<1>6. PICK f : Fits(m - 1, f)
  <2>1. m - 1 \in 0 .. Len(path) /\ ~ (m <= m - 1)
    BY <1>1, <1>4, <1>5
  <2>. QED BY <1>4, <2>1
<1> DEFINE g == [k \in 0 .. m |-> IF k < m THEN f[k] ELSE WalkStep(d, inr, path, f, m)]
<1>7. ASSUME NEW k \in 0 .. m PROVE g[k] = WalkStep(d, inr, path, g, k)
  <2>1. m \in Nat
    BY <1>3, <1>4
  <2>2. k # 0 => k - 1 \in 0 .. m /\ k - 1 < m
    BY <2>1
  <2>3. k # 0 => g[k - 1] = f[k - 1]
    BY <2>2
  <2> HIDE DEF g
  <2>4. WalkStep(d, inr, path, g, k) = WalkStep(d, inr, path, f, k)
    BY <2>3 DEF WalkStep
  <2>5. CASE k < m
    <3>1. k \in 0 .. m - 1
      BY <2>1, <2>5
    <3>2. f[k] = WalkStep(d, inr, path, f, k)
      BY <1>6, <3>1
    <3>. QED BY <2>4, <2>5, <3>2 DEF g
  <2>6. CASE k = m
    BY <2>4, <2>6 DEF g
  <2>. QED BY <2>1, <2>5, <2>6
<1>8. Fits(m, g)
  <2>1. g = [k \in 0 .. m |-> g[k]]
    OBVIOUS
  <2> HIDE DEF g
  <2>. QED BY <1>7, <2>1
<1>. QED BY <1>4, <1>8

\* ... and only one, also over paths one of which begins with the other.
LEMMA WalkUnique ==
    ASSUME NEW d, NEW inr, NEW T, NEW path \in Seq(T), NEW other \in Seq(T),
           Len(path) <= Len(other), \A k \in 1 .. Len(path) : other[k] = path[k],
           NEW f, IsWalk(d, inr, path, f), NEW g, IsWalk(d, inr, other, g)
    PROVE  \A k \in 0 .. Len(path) : g[k] = f[k]
<1> DEFINE Bad == {k \in 0 .. Len(path) : g[k] # f[k]}
<1>1. Len(path) \in Nat /\ Len(other) \in Nat
  OBVIOUS
<1>2. SUFFICES ASSUME Bad # {} PROVE FALSE
  OBVIOUS
<1>3. Bad \in SUBSET Nat
  BY <1>1
<1>4. PICK m \in Bad : \A y \in Bad : m <= y
  BY <1>2, <1>3, MinOfNat
<1>5. m # 0 => m - 1 \in 0 .. Len(path) /\ ~ (m <= m - 1) /\ m \in 1 .. Len(path)
  BY <1>1, <1>4
<1>6. m # 0 => g[m - 1] = f[m - 1] /\ other[m] = path[m]
  BY <1>4, <1>5
<1>7. m \in 0 .. Len(path) /\ m \in 0 .. Len(other)
  BY <1>1, <1>4
<1>8. f[m] = WalkStep(d, inr, path, f, m) /\ g[m] = WalkStep(d, inr, other, g, m)
  BY <1>7 DEF IsWalk
<1>9. WalkStep(d, inr, path, f, m) = WalkStep(d, inr, other, g, m)
  BY <1>6 DEF WalkStep
<1>. QED BY <1>4, <1>8, <1>9

\* So a lookup is the last value of it.
LEMMA LookupIsWalk ==
    ASSUME NEW d, NEW inr, NEW T, NEW path \in Seq(T)
    PROVE  \E f : /\ IsWalk(d, inr, path, f)
                  /\ direntv6_dirlookup(d, inr, path) = f[Len(path)]
<1> DEFINE walk == CHOOSE f : IsWalk(d, inr, path, f)
<1>1. IsWalk(d, inr, path, walk)
  BY WalkExists
<1>2. direntv6_dirlookup(d, inr, path) = walk[Len(path)]
  BY DEF direntv6_dirlookup, IsWalk, WalkStep
<1>. QED BY <1>1, <1>2

\* The empty path leads to where one is.
LEMMA LookupNothing ==
    ASSUME NEW d, NEW inr
    PROVE  direntv6_dirlookup(d, inr, << >>) = inr
<1>1. << >> \in Seq({}) /\ Len(<< >>) = 0
  OBVIOUS
<1>2. PICK f : IsWalk(d, inr, << >>, f) /\ direntv6_dirlookup(d, inr, << >>) = f[0]
  BY <1>1, LookupIsWalk
<1>3. f[0] = WalkStep(d, inr, << >>, f, 0)
  BY <1>1, <1>2 DEF IsWalk
<1>. QED BY <1>2, <1>3 DEF WalkStep

\* One component more is one LookupEntry more, unless there is an error already.
LEMMA LookupNext ==
    ASSUME NEW d, NEW inr, NEW T, NEW path \in Seq(T), NEW k \in 0 .. Len(path) - 1
    PROVE  LET dir == direntv6_dirlookup(d, inr, SubSeq(path, 1, k))
           IN  direntv6_dirlookup(d, inr, SubSeq(path, 1, k + 1)) =
                  IF dir < 0 THEN dir ELSE LookupEntry(d, dir, path[k + 1])
<1> DEFINE short == SubSeq(path, 1, k)
           long == SubSeq(path, 1, k + 1)
<1>1. Len(path) \in Nat /\ k \in Nat /\ k + 1 \in Nat
  OBVIOUS
<1>2. /\ short \in Seq(T) /\ Len(short) = k /\ \A j \in 1 .. k : short[j] = path[j]
      /\ long \in Seq(T) /\ Len(long) = k + 1 /\ \A j \in 1 .. k + 1 : long[j] = path[j]
  <2>1. \A m \in 0 .. Len(path) :
           /\ SubSeq(path, 1, m) \in Seq(T) /\ Len(SubSeq(path, 1, m)) = m
           /\ \A j \in 1 .. m : SubSeq(path, 1, m)[j] = path[j]
    OBVIOUS
  <2>2. k \in 0 .. Len(path) /\ k + 1 \in 0 .. Len(path)
    BY <1>1
  <2>. QED BY <2>1, <2>2
<1> HIDE DEF short, long
<1>3. PICK f : IsWalk(d, inr, short, f) /\ direntv6_dirlookup(d, inr, short) = f[k]
  BY <1>2, LookupIsWalk
<1>4. PICK g : IsWalk(d, inr, long, g) /\ direntv6_dirlookup(d, inr, long) = g[k + 1]
  BY <1>2, LookupIsWalk
<1>5. g[k] = f[k]
  <2>1. Len(short) <= Len(long) /\ k \in 0 .. Len(short) /\ \A j \in 1 .. Len(short) : long[j] = short[j]
    BY <1>1, <1>2
  <2>. QED BY <1>2, <1>3, <1>4, <2>1, WalkUnique
<1>6. g[k + 1] = WalkStep(d, inr, long, g, k + 1)
  <2>1. k + 1 \in 0 .. Len(long)
    BY <1>1, <1>2
  <2>. QED BY <1>4, <2>1 DEF IsWalk
<1>7. k + 1 # 0 /\ (k + 1) - 1 = k /\ long[k + 1] = path[k + 1]
  BY <1>1, <1>2
<1>8. direntv6_dirlookup(d, inr, long) = IF f[k] < 0 THEN f[k] ELSE LookupEntry(d, f[k], path[k + 1])
  BY <1>4, <1>5, <1>6, <1>7 DEF WalkStep
<1>. QED BY <1>3, <1>8 DEF short, long

\* The errors a lookup can meet are errors, and not success.
LEMMA Errors ==
    /\ \A r \in {ERR_NO_SUCH_FILE, ERR_INVALID_DIRECTORY_INODE, ERR_FILENAME_ALREADY_EXISTS,
                 ERR_FILENAME_TOO_LONG, ERR_BAD_PARAMETER, ERR_IO, ERR_BITMAP_FULL,
                 ERR_INODE_OUT_OF_RANGE} : r \in error_codes /\ r # ERR_NONE /\ r < 0
    /\ ERR_INVALID_DIRECTORY_INODE # ERR_NO_SUCH_FILE
    /\ ERR_FILENAME_ALREADY_EXISTS \notin {ERR_NO_SUCH_FILE, ERR_INVALID_DIRECTORY_INODE}
BY DEF ERR_NO_SUCH_FILE, ERR_INVALID_DIRECTORY_INODE, ERR_FILENAME_ALREADY_EXISTS,
       ERR_FILENAME_TOO_LONG, ERR_BAD_PARAMETER, ERR_IO, ERR_BITMAP_FULL,
       ERR_INODE_OUT_OF_RANGE, error_codes, ERR_NONE

\* What one level of a lookup answers on a sound image: what opendir refuses, nothing
\* of that name, or an inode in use.
LEMMA EntryAnswer ==
    ASSUME NEW d, Sound(d), NEW inr, NEW name
    PROVE  /\ inr \in Live(d) \ Directories(d) => LookupEntry(d, inr, name) = ERR_INVALID_DIRECTORY_INODE
           /\ inr \notin Live(d) =>
                 LookupEntry(d, inr, name) \in {ERR_INODE_OUT_OF_RANGE, ERR_UNALLOCATED_INODE}
           /\ inr \in Directories(d) /\ Holds(d, inr, name) =>
                 \E p \in Positions(d, inr) :
                    /\ Cell(d, inr, p).name = name
                    /\ LookupEntry(d, inr, name) = Cell(d, inr, p).inr
                    /\ LookupEntry(d, inr, name) \in Live(d) \ {ROOT_INUMBER}
           /\ inr \in Directories(d) /\ ~ Holds(d, inr, name) =>
                 LookupEntry(d, inr, name) = ERR_NO_SUCH_FILE
<1>1. inr \in Live(d) \ Directories(d) => LookupEntry(d, inr, name) = ERR_INVALID_DIRECTORY_INODE
  BY DEF Live, Directories, LookupEntry, opendir, inode_read, ERR_NONE, ERR_INVALID_DIRECTORY_INODE
<1>2. inr \notin Live(d) =>
         LookupEntry(d, inr, name) \in {ERR_INODE_OUT_OF_RANGE, ERR_UNALLOCATED_INODE}
  BY DEF Live, LookupEntry, opendir, inode_read, ERR_NONE, ERR_INODE_OUT_OF_RANGE,
         ERR_UNALLOCATED_INODE
<1>3. ASSUME inr \in Directories(d), Holds(d, inr, name)
      PROVE  \E p \in Positions(d, inr) :
                    /\ Cell(d, inr, p).name = name
                    /\ LookupEntry(d, inr, name) = Cell(d, inr, p).inr
                    /\ LookupEntry(d, inr, name) \in Live(d) \ {ROOT_INUMBER}
  <2>1. PICK p \in Positions(d, inr) : Cell(d, inr, p).name = name
    BY <1>3 DEF Holds
  <2>2. LookupEntry(d, inr, name) = Cell(d, inr, p).inr
    BY <1>3, <2>1, EntryFound
  <2>3. Cell(d, inr, p).inr \in Live(d) \ {ROOT_INUMBER}
    BY <1>3 DEF Sound, Named
  <2>. QED BY <2>1, <2>2, <2>3
<1>4. inr \in Directories(d) /\ ~ Holds(d, inr, name) =>
         LookupEntry(d, inr, name) = ERR_NO_SUCH_FILE
  BY EntryFound
<1>. QED BY <1>1, <1>2, <1>3, <1>4

\* Numbers of inodes in use are answers, not errors.
LEMMA LiveIsAnswer ==
    ASSUME NEW d, NEW inr \in Live(d)
    PROVE  /\ inr \in InodeNumbers /\ inr \in Nat /\ inr # 0
           /\ inr \notin error_codes
<1>1. InodesPerSector * s_isize \in Int
  BY Format, SMTT(30)
<1>. QED BY <1>1 DEF Live, InodeNumbers, error_codes

\* A path leads to an inode in use, or nowhere, or through a file.
LEMMA PathAnswer ==
    ASSUME NEW d, Sound(d), NEW T, NEW path \in Seq(T), NEW n \in 0 .. Len(path)
    PROVE  LET r(k) == direntv6_dirlookup(d, ROOT_INUMBER, SubSeq(path, 1, k))
           IN  \/ r(n) \in Live(d)
               \/ r(n) = ERR_NO_SUCH_FILE
               \/ /\ r(n) = ERR_INVALID_DIRECTORY_INODE
                  /\ \E k \in 0 .. n : r(k) \in Live(d) \ Directories(d)
<1> DEFINE r(k) == direntv6_dirlookup(d, ROOT_INUMBER, SubSeq(path, 1, k))
           Fine(m) == \/ r(m) \in Live(d)
                      \/ r(m) = ERR_NO_SUCH_FILE
                      \/ /\ r(m) = ERR_INVALID_DIRECTORY_INODE
                         /\ \E k \in 0 .. m : r(k) \in Live(d) \ Directories(d)
           Bad == {m \in 0 .. Len(path) : ~ Fine(m)}
<1>1. Len(path) \in Nat
  OBVIOUS
<1>2. ROOT_INUMBER \in Live(d) /\ r(0) = ROOT_INUMBER
  <2>1. SubSeq(path, 1, 0) = << >>
    OBVIOUS
  <2>. QED BY <2>1, LookupNothing DEF Sound, Rooted, Directories
<1>3. \A k \in 0 .. Len(path) - 1 :
         r(k + 1) = IF r(k) < 0 THEN r(k) ELSE LookupEntry(d, r(k), path[k + 1])
  BY LookupNext
<1> HIDE DEF r
<1>4. SUFFICES ASSUME Bad # {} PROVE FALSE
  BY DEF r
<1>5. Bad \in SUBSET Nat
  BY <1>1
<1>6. PICK m \in Bad : \A y \in Bad : m <= y
  BY <1>4, <1>5, MinOfNat
<1>7. m # 0
  BY <1>2, <1>6
<1> DEFINE k == m - 1
<1>8. k \in 0 .. Len(path) - 1 /\ k + 1 = m /\ Fine(k)
  <2>1. k \in 0 .. Len(path) /\ ~ (m <= k) /\ k \in 0 .. Len(path) - 1 /\ k + 1 = m
    BY <1>1, <1>6, <1>7
  <2>2. k \notin Bad
    BY <1>6, <2>1
  <2>. QED BY <2>1, <2>2
<1>9. 0 .. k \subseteq 0 .. m
  BY <1>8
<1> HIDE DEF k
<1>10. r(m) = IF r(k) < 0 THEN r(k) ELSE LookupEntry(d, r(k), path[m])
  BY <1>3, <1>8
<1>11. CASE r(k) \in Live(d)
  <2>1. r(m) = LookupEntry(d, r(k), path[m])
    BY <1>10, <1>11, LiveIsAnswer
  <2>2. CASE r(k) \in Directories(d)
    <3>1. r(m) \in Live(d) \/ r(m) = ERR_NO_SUCH_FILE
      BY <2>1, <2>2, EntryAnswer
    <3>. QED BY <1>6, <3>1
  <2>3. CASE r(k) \notin Directories(d)
    <3>1. r(m) = ERR_INVALID_DIRECTORY_INODE
      BY <1>11, <2>1, <2>3, EntryAnswer
    <3>2. k \in 0 .. m
      BY <1>8
    <3>. QED BY <1>6, <1>11, <2>3, <3>1, <3>2
  <2>. QED BY <2>2, <2>3
<1>12. CASE r(k) = ERR_NO_SUCH_FILE
  BY <1>6, <1>10, <1>12 DEF ERR_NO_SUCH_FILE
<1>13. CASE r(k) = ERR_INVALID_DIRECTORY_INODE /\ \E j \in 0 .. k : r(j) \in Live(d) \ Directories(d)
  <2>1. r(m) = ERR_INVALID_DIRECTORY_INODE
    BY <1>10, <1>13 DEF ERR_INVALID_DIRECTORY_INODE
  <2>. QED BY <1>6, <1>9, <1>13, <2>1
<1>. QED BY <1>8, <1>11, <1>12, <1>13

\* A path leads to an inode in use, or to an error.
LEMMA PathEnds ==
    ASSUME NEW d, Sound(d), NEW T, NEW path \in Seq(T)
    PROVE  LET inr == direntv6_dirlookup(d, ROOT_INUMBER, path)
           IN  (inr \in Live(d) /\ inr \notin error_codes) \/ inr \in error_codes
<1>1. Len(path) \in 0 .. Len(path) /\ SubSeq(path, 1, Len(path)) = path
  OBVIOUS
<1> DEFINE inr == direntv6_dirlookup(d, ROOT_INUMBER, path)
<1>2. inr \in Live(d) \/ inr = ERR_NO_SUCH_FILE \/ inr = ERR_INVALID_DIRECTORY_INODE
  BY <1>1, PathAnswer
<1>. QED BY <1>2, LiveIsAnswer DEF error_codes, ERR_NO_SUCH_FILE, ERR_INVALID_DIRECTORY_INODE

\* Where a path goes on to an inode, it is in a directory that has the entry.
LEMMA EntryBehind ==
    ASSUME NEW d, Sound(d), NEW T, NEW path \in Seq(T), NEW k \in 0 .. Len(path) - 1,
           NEW next, next = direntv6_dirlookup(d, ROOT_INUMBER, SubSeq(path, 1, k + 1)),
           next \in Live(d),
           NEW dir, dir = direntv6_dirlookup(d, ROOT_INUMBER, SubSeq(path, 1, k))
    PROVE  /\ dir \in Directories(d) /\ next # ROOT_INUMBER
           /\ next = LookupEntry(d, dir, path[k + 1])
           /\ \E p \in Positions(d, dir) : Cell(d, dir, p).name = path[k + 1] /\ Cell(d, dir, p).inr = next
<1>1. next = IF dir < 0 THEN dir ELSE LookupEntry(d, dir, path[k + 1])
  BY LookupNext
<1>2. ~ (next < 0)
  BY LiveIsAnswer
<1>3. next = LookupEntry(d, dir, path[k + 1])
  BY <1>1, <1>2
<1>4. dir \in Directories(d) /\ Holds(d, dir, path[k + 1])
  <2>1. LookupEntry(d, dir, path[k + 1]) \notin {ERR_INVALID_DIRECTORY_INODE, ERR_INODE_OUT_OF_RANGE,
                                                 ERR_UNALLOCATED_INODE, ERR_NO_SUCH_FILE}
    BY <1>3, LiveIsAnswer
    DEF error_codes, ERR_INVALID_DIRECTORY_INODE, ERR_INODE_OUT_OF_RANGE,
        ERR_UNALLOCATED_INODE, ERR_NO_SUCH_FILE
  <2>. QED BY <2>1, EntryAnswer
<1>. QED BY <1>3, <1>4, EntryAnswer

\* A path that leads to an inode still does when the image has grown.
LEMMA PathStays ==
    ASSUME NEW d, Sound(d), NEW e, Sound(e), Grown(d, e), NEW T, NEW path \in Seq(T),
           direntv6_dirlookup(d, ROOT_INUMBER, path) \in Live(d)
    PROVE  direntv6_dirlookup(e, ROOT_INUMBER, path) = direntv6_dirlookup(d, ROOT_INUMBER, path)
<1> DEFINE r(k) == direntv6_dirlookup(d, ROOT_INUMBER, SubSeq(path, 1, k))
           s(k) == direntv6_dirlookup(e, ROOT_INUMBER, SubSeq(path, 1, k))
           Bad == {m \in 0 .. Len(path) : r(m) \in Live(d) /\ s(m) # r(m)}
<1>1. Len(path) \in Nat /\ SubSeq(path, 1, Len(path)) = path /\ SubSeq(path, 1, 0) = << >>
  OBVIOUS
<1>2. r(0) = ROOT_INUMBER /\ s(0) = ROOT_INUMBER
  BY <1>1, LookupNothing
<1>3. \A k \in 0 .. Len(path) - 1 :
         /\ r(k + 1) = IF r(k) < 0 THEN r(k) ELSE LookupEntry(d, r(k), path[k + 1])
         /\ s(k + 1) = IF s(k) < 0 THEN s(k) ELSE LookupEntry(e, s(k), path[k + 1])
  BY LookupNext
<1>4. r(Len(path)) \in Live(d)
  BY <1>1
<1>5. SUFFICES ASSUME Bad # {} PROVE FALSE
  <2>1. Len(path) \in 0 .. Len(path)
    BY <1>1
  <2>2. s(Len(path)) = r(Len(path))
    BY <1>4, <2>1
  <2>. QED BY <1>1, <2>2
<1> HIDE DEF r, s
<1>6. Bad \in SUBSET Nat
  BY <1>1
<1>7. PICK m \in Bad : \A y \in Bad : m <= y
  BY <1>5, <1>6, MinOfNat
<1> DEFINE k == m - 1
<1>8. m # 0 /\ r(m) \in Live(d)
  BY <1>2, <1>7
<1>9. k \in 0 .. Len(path) - 1 /\ k + 1 = m /\ (r(k) \in Live(d) => s(k) = r(k))
  <2>1. k \in 0 .. Len(path) /\ ~ (m <= k) /\ k \in 0 .. Len(path) - 1 /\ k + 1 = m
    BY <1>1, <1>7, <1>8
  <2>2. k \notin Bad
    BY <1>7, <2>1
  <2>. QED BY <2>1, <2>2
<1> HIDE DEF k
<1>10. /\ r(m) = IF r(k) < 0 THEN r(k) ELSE LookupEntry(d, r(k), path[m])
       /\ s(m) = IF s(k) < 0 THEN s(k) ELSE LookupEntry(e, s(k), path[m])
  BY <1>3, <1>9
<1>11. PICK p \in Positions(d, r(k)) :
          /\ r(k) \in Directories(d) /\ Cell(d, r(k), p).name = path[m] /\ Cell(d, r(k), p).inr = r(m)
  <2>1. r(k + 1) \in Live(d) => /\ r(k) \in Directories(d)
                                /\ \E p \in Positions(d, r(k)) :
                                     Cell(d, r(k), p).name = path[k + 1] /\ Cell(d, r(k), p).inr = r(k + 1)
    BY <1>9, EntryBehind DEF r
  <2>. QED BY <1>8, <1>9, <2>1
<1>12. r(k) \in Live(d) /\ s(k) = r(k) /\ r(k) \in Directories(e) /\ ~ (r(k) < 0)
  <2>1. r(k) \in Live(d)
    BY <1>11 DEF Directories
  <2>. QED BY <1>9, <1>11, <2>1, GrownKeeps, LiveIsAnswer
<1>13. p \in Positions(e, r(k)) /\ Cell(e, r(k), p) = Cell(d, r(k), p)
  BY <1>11, <1>12, GrownKeeps DEF Grown
<1>14. LookupEntry(e, r(k), path[m]) = r(m)
  BY <1>11, <1>12, <1>13, EntryFound
<1>. QED BY <1>7, <1>8, <1>10, <1>12, <1>14

\* A promise that holds still does when the image has grown, but not the file.
LEMMA KeptStays ==
    ASSUME NEW d, Sound(d), NEW e, Sound(e), Grown(d, e), NEW c \in Commands, KeptIn(d, c),
           NEW inr, inr = direntv6_dirlookup(d, ROOT_INUMBER, c.path),
           c.op = "add" => e.itab[inr].size = d.itab[inr].size
    PROVE  KeptIn(e, c) /\ direntv6_dirlookup(e, ROOT_INUMBER, c.path) = inr
<1> DEFINE T == Names \union LongNames
<1>1. c.path \in Seq(T) /\ c.buf \in Seq(Cells)
  BY CommandsAssumption DEF CommandSet
<1> HIDE DEF T
<1>2. inr \in Live(d) /\ d.itab[inr].mode = (IF c.op = "mkdir" THEN "dir" ELSE "file")
  BY DEF KeptIn
<1>3. direntv6_dirlookup(e, ROOT_INUMBER, c.path) = inr
  BY <1>1, <1>2, PathStays
<1>4. inr \in Live(e) /\ e.itab[inr].mode = d.itab[inr].mode
  BY <1>2, GrownKeeps DEF Grown
<1>5. ASSUME c.op = "add"
      PROVE  /\ e.itab[inr].size = Len(c.buf)
             /\ \A k \in 1 .. Len(c.buf) : Cell(e, inr, k - 1) = c.buf[k]
  <2>1. /\ d.itab[inr].size = Len(c.buf) /\ e.itab[inr].size = d.itab[inr].size
        /\ \A k \in 1 .. Len(c.buf) : Cell(d, inr, k - 1) = c.buf[k]
    BY <1>5 DEF KeptIn
  <2>2. ASSUME NEW k \in 1 .. Len(c.buf) PROVE Cell(e, inr, k - 1) = c.buf[k]
    <3>1. k - 1 \in Positions(d, inr)
      BY <1>1, <2>1 DEF Positions
    <3>2. Cell(e, inr, k - 1) = Cell(d, inr, k - 1)
      BY <1>2, <3>1 DEF Grown
    <3>. QED BY <2>1, <3>2
  <2>. QED BY <2>1, <2>2
<1>. QED BY <1>2, <1>3, <1>4, <1>5 DEF KeptIn

-----------------------------------------------------------------------------------
(* There is one path to each file, and an entry makes one path more. *)

\* A path that leads to an inode goes through directories all the way.
LEMMA ThroughDirectories ==
    ASSUME NEW d, Sound(d), NEW T, NEW path \in Seq(T),
           direntv6_dirlookup(d, ROOT_INUMBER, path) \in Live(d), NEW k \in 0 .. Len(path) - 1
    PROVE  direntv6_dirlookup(d, ROOT_INUMBER, SubSeq(path, 1, k)) \in Directories(d)
<1> DEFINE r(j) == direntv6_dirlookup(d, ROOT_INUMBER, SubSeq(path, 1, j))
           Bad == {i \in 1 .. Len(path) : r(Len(path) - i) \notin Directories(d)}
<1>1. Len(path) \in Nat /\ SubSeq(path, 1, Len(path)) = path
  OBVIOUS
<1>2. r(Len(path)) \in Live(d)
  BY <1>1
<1>3. \A j \in 0 .. Len(path) - 1 : r(j + 1) \in Live(d) => r(j) \in Directories(d)
  BY EntryBehind
<1> HIDE DEF r
<1>4. Bad = {}
  <2>1. SUFFICES ASSUME Bad # {} PROVE FALSE
    OBVIOUS
  <2>2. PICK i \in Bad : \A y \in Bad : i <= y
    <3>1. Bad \in SUBSET Nat
      BY <1>1
    <3>. QED BY <2>1, <3>1, MinOfNat
  <2>3. r(Len(path) - i + 1) \in Live(d)
    <3>1. CASE i = 1
      <4>1. Len(path) - i + 1 = Len(path)
        BY <1>1, <3>1
      <4>. QED BY <1>2, <4>1
    <3>2. CASE i # 1
      <4>1. i - 1 \in 1 .. Len(path) /\ ~ (i <= i - 1) /\ Len(path) - (i - 1) = Len(path) - i + 1
        BY <1>1, <2>2, <3>2
      <4>2. i - 1 \notin Bad
        BY <2>2, <4>1
      <4>. QED BY <4>1, <4>2 DEF Directories
    <3>. QED BY <3>1, <3>2
  <2>4. Len(path) - i \in 0 .. Len(path) - 1
    BY <1>1, <2>2
  <2>. QED BY <1>3, <2>2, <2>3, <2>4
<1>5. Len(path) - k \in 1 .. Len(path) /\ Len(path) - (Len(path) - k) = k
  BY <1>1
<1>6. r(k) \in Directories(d)
  BY <1>4, <1>5
<1>. QED BY <1>6 DEF r

\* There is one path to each inode.
LEMMA PathsAreUnique ==
    ASSUME NEW d, Sound(d), NEW T, NEW path \in Seq(T), NEW other \in Seq(T),
           direntv6_dirlookup(d, ROOT_INUMBER, path) \in Live(d),
           direntv6_dirlookup(d, ROOT_INUMBER, other) = direntv6_dirlookup(d, ROOT_INUMBER, path)
    PROVE  other = path
<1> DEFINE r(j) == direntv6_dirlookup(d, ROOT_INUMBER, SubSeq(path, 1, j))
           s(j) == direntv6_dirlookup(d, ROOT_INUMBER, SubSeq(other, 1, j))
           n == Len(path)
           m == Len(other)
           Bad == {j \in 0 .. n : \E i \in 0 .. m :
                      /\ r(j) \in Live(d) /\ s(i) = r(j)
                      /\ ~ (i = j /\ \A l \in 1 .. j : other[l] = path[l])}
<1>1. /\ n \in Nat /\ m \in Nat
      /\ SubSeq(path, 1, n) = path /\ SubSeq(other, 1, m) = other
      /\ SubSeq(path, 1, 0) = << >> /\ SubSeq(other, 1, 0) = << >>
  OBVIOUS
<1>2. r(n) \in Live(d) /\ s(m) = r(n) /\ r(0) = ROOT_INUMBER /\ s(0) = ROOT_INUMBER
  BY <1>1, LookupNothing
<1>3. \A j \in 0 .. n - 1 : r(j + 1) \in Live(d) =>
         /\ r(j) \in Directories(d) /\ r(j + 1) # ROOT_INUMBER
         /\ \E p \in Positions(d, r(j)) : Cell(d, r(j), p).name = path[j + 1] /\ Cell(d, r(j), p).inr = r(j + 1)
  BY EntryBehind
<1>4. \A j \in 0 .. m - 1 : s(j + 1) \in Live(d) =>
         /\ s(j) \in Directories(d) /\ s(j + 1) # ROOT_INUMBER
         /\ \E p \in Positions(d, s(j)) : Cell(d, s(j), p).name = other[j + 1] /\ Cell(d, s(j), p).inr = s(j + 1)
  <2>1. SUFFICES ASSUME NEW j \in 0 .. m - 1, s(j + 1) \in Live(d)
                 PROVE  /\ s(j) \in Directories(d) /\ s(j + 1) # ROOT_INUMBER
                        /\ \E p \in Positions(d, s(j)) :
                              Cell(d, s(j), p).name = other[j + 1] /\ Cell(d, s(j), p).inr = s(j + 1)
    OBVIOUS
  <2>2. PICK a : a = s(j)
    OBVIOUS
  <2>3. PICK b : b = s(j + 1)
    OBVIOUS
  <2>4. /\ a \in Directories(d) /\ b # ROOT_INUMBER
        /\ \E p \in Positions(d, a) : Cell(d, a, p).name = other[j + 1] /\ Cell(d, a, p).inr = b
    BY <2>1, <2>2, <2>3, EntryBehind
  <2>. QED BY <2>2, <2>3, <2>4
<1> HIDE DEF r, s
<1>5. Bad = {}
  <2>1. SUFFICES ASSUME Bad # {} PROVE FALSE
    OBVIOUS
  <2>2. PICK j \in Bad : \A y \in Bad : j <= y
    <3>1. Bad \in SUBSET Nat
      BY <1>1
    <3> HIDE DEF Bad
    <3>. QED BY <2>1, <3>1, MinOfNat
  <2>3. PICK i \in 0 .. m : /\ r(j) \in Live(d) /\ s(i) = r(j)
                            /\ ~ (i = j /\ \A l \in 1 .. j : other[l] = path[l])
    BY <2>2
  <2>4. j \in Nat /\ i \in Nat /\ j \in 0 .. n
    BY <1>1, <2>2
  <2>5. CASE j = 0
    <3>1. i # 0
      BY <2>3, <2>5
    <3>2. i - 1 \in 0 .. m - 1 /\ (i - 1) + 1 = i
      BY <1>1, <2>3, <3>1
    <3>. QED BY <1>2, <1>4, <2>3, <2>5, <3>2
  <2>6. CASE j # 0
    <3>1. j - 1 \in 0 .. n - 1 /\ (j - 1) + 1 = j /\ j - 1 \in 0 .. n /\ ~ (j <= j - 1)
      BY <1>1, <2>4, <2>6
    <3>2. r(j) # ROOT_INUMBER
      BY <1>3, <2>3, <3>1
    <3>3. i # 0
      BY <1>2, <2>3, <3>2
    <3>4. i - 1 \in 0 .. m - 1 /\ (i - 1) + 1 = i /\ i - 1 \in 0 .. m
      BY <1>1, <2>3, <3>3
    <3>5. PICK p \in Positions(d, r(j - 1)) :
             /\ r(j - 1) \in Directories(d)
             /\ Cell(d, r(j - 1), p).name = path[j] /\ Cell(d, r(j - 1), p).inr = r(j)
      BY <1>3, <2>3, <3>1
    <3>6. PICK q \in Positions(d, s(i - 1)) :
             /\ s(i - 1) \in Directories(d)
             /\ Cell(d, s(i - 1), q).name = other[i] /\ Cell(d, s(i - 1), q).inr = s(i)
      BY <1>4, <2>3, <3>4
    <3>7. r(j - 1) = s(i - 1) /\ p = q
      <4>1. Once(d)
        BY DEF Sound
      <4>. QED BY <2>3, <3>5, <3>6, <4>1 DEF Once
    <3>8. other[i] = path[j]
      BY <3>5, <3>6, <3>7
    <3>9. i - 1 = j - 1 /\ \A l \in 1 .. j - 1 : other[l] = path[l]
      <4>1. j - 1 \notin Bad
        BY <2>2, <3>1
      <4>2. r(j - 1) \in Live(d)
        BY <3>5 DEF Directories
      <4>. QED BY <3>1, <3>4, <3>7, <4>1, <4>2
    <3>10. i = j /\ \A l \in 1 .. j : l \in 1 .. j - 1 \/ l = j
      BY <2>4, <3>9
    <3>. QED BY <2>3, <3>8, <3>9, <3>10
  <2>. QED BY <2>5, <2>6
<1>6. m = n /\ \A l \in 1 .. n : other[l] = path[l]
  <2>1. n \in 0 .. n /\ m \in 0 .. m
    BY <1>1
  <2>. QED BY <1>2, <1>5, <2>1
<1>. QED BY <1>6, SeqEqual

\* A path is what precedes its last component, and that.
LEMMA FrontAndLast ==
    ASSUME NEW T, NEW path \in Seq(T), NEW other \in Seq(T), Len(path) >= 1, Len(other) >= 1,
           SubSeq(path, 1, Len(path) - 1) = SubSeq(other, 1, Len(other) - 1),
           path[Len(path)] = other[Len(other)]
    PROVE  path = other
<1>1. \A p \in Seq(T) : \A k \in 0 .. Len(p) :
         Len(SubSeq(p, 1, k)) = k /\ \A n \in 1 .. k : SubSeq(p, 1, k)[n] = p[n]
  OBVIOUS
<1>2. /\ Len(path) \in Nat /\ Len(path) - 1 \in 0 .. Len(path)
      /\ Len(other) \in Nat /\ Len(other) - 1 \in 0 .. Len(other)
  OBVIOUS
<1>3. Len(path) - 1 = Len(other) - 1
  BY <1>1, <1>2
<1>4. Len(path) = Len(other)
  BY <1>2, <1>3
<1>5. \A n \in 1 .. Len(path) - 1 : path[n] = other[n]
  BY <1>1, <1>2, <1>4
<1>6. \A n \in 1 .. Len(path) : n \in 1 .. Len(path) - 1 \/ n = Len(path)
  BY <1>2
<1>7. \A n \in 1 .. Len(path) : path[n] = other[n]
  BY <1>4, <1>5, <1>6
<1>. QED BY <1>4, <1>7, SeqEqual

\* A lookup answers the same when what has been added to the directory has other names.
LEMMA SameAnswer ==
    ASSUME NEW d, Sound(d), NEW e, Sound(e), Grown(d, e), NEW dir \in Live(d), NEW name,
           dir \in Directories(d) =>
              \A p \in Positions(e, dir) \ Positions(d, dir) : Cell(e, dir, p).name # name
    PROVE  LookupEntry(e, dir, name) = LookupEntry(d, dir, name)
<1>1. dir \in Live(e) /\ (dir \in Directories(e) <=> dir \in Directories(d))
  BY GrownKeeps DEF Grown, Directories
<1>2. \A p \in Positions(d, dir) : p \in Positions(e, dir) /\ Cell(e, dir, p) = Cell(d, dir, p)
  BY GrownKeeps DEF Grown
<1>3. CASE dir \notin Directories(d)
  BY <1>1, <1>3, EntryAnswer
<1>4. CASE dir \in Directories(d) /\ Holds(d, dir, name)
  <2>1. PICK p \in Positions(d, dir) : Cell(d, dir, p).name = name
    BY <1>4 DEF Holds
  <2>. QED BY <1>1, <1>2, <1>4, <2>1, EntryFound
<1>5. CASE dir \in Directories(d) /\ ~ Holds(d, dir, name)
  <2>1. ~ Holds(e, dir, name)
    BY <1>2, <1>5 DEF Holds
  <2>. QED BY <1>1, <1>5, <2>1, EntryFound
<1>. QED BY <1>3, <1>4, <1>5

\* Where a path leads elsewhere after an image has grown, one directory on the way
\* answers differently.
LEMMA FirstDifference ==
    ASSUME NEW d, Sound(d), NEW e, Sound(e), Grown(d, e), NEW T, NEW path \in Seq(T),
           direntv6_dirlookup(e, ROOT_INUMBER, path) # direntv6_dirlookup(d, ROOT_INUMBER, path)
    PROVE  \E k \in 0 .. Len(path) - 1 :
              LET dir == direntv6_dirlookup(d, ROOT_INUMBER, SubSeq(path, 1, k))
              IN  /\ dir \in Live(d)
                  /\ direntv6_dirlookup(e, ROOT_INUMBER, SubSeq(path, 1, k + 1))
                        = LookupEntry(e, dir, path[k + 1])
                  /\ LookupEntry(e, dir, path[k + 1]) # LookupEntry(d, dir, path[k + 1])
<1> DEFINE r(j) == direntv6_dirlookup(d, ROOT_INUMBER, SubSeq(path, 1, j))
           s(j) == direntv6_dirlookup(e, ROOT_INUMBER, SubSeq(path, 1, j))
           Bad == {m \in 0 .. Len(path) : s(m) # r(m)}
<1>1. Len(path) \in Nat /\ SubSeq(path, 1, Len(path)) = path /\ SubSeq(path, 1, 0) = << >>
  OBVIOUS
<1>2. r(0) = ROOT_INUMBER /\ s(0) = ROOT_INUMBER /\ s(Len(path)) # r(Len(path))
  BY <1>1, LookupNothing
<1>3. \A k \in 0 .. Len(path) - 1 :
         /\ r(k + 1) = IF r(k) < 0 THEN r(k) ELSE LookupEntry(d, r(k), path[k + 1])
         /\ s(k + 1) = IF s(k) < 0 THEN s(k) ELSE LookupEntry(e, s(k), path[k + 1])
  BY LookupNext
<1>4. \A k \in 0 .. Len(path) : r(k) \in Live(d) \/ r(k) < 0
  <2>1. SUFFICES ASSUME NEW k \in 0 .. Len(path) PROVE r(k) \in Live(d) \/ r(k) < 0
    OBVIOUS
  <2>2. r(k) \in Live(d) \/ r(k) = ERR_NO_SUCH_FILE \/ r(k) = ERR_INVALID_DIRECTORY_INODE
    BY PathAnswer
  <2>. QED BY <2>2 DEF ERR_NO_SUCH_FILE, ERR_INVALID_DIRECTORY_INODE
<1> HIDE DEF r, s
<1>5. PICK m \in Bad : \A y \in Bad : m <= y
  <2>1. Bad \in SUBSET Nat
    BY <1>1
  <2>2. Len(path) \in Bad
    BY <1>1, <1>2
  <2> HIDE DEF Bad
  <2>. QED BY <2>1, <2>2, MinOfNat
<1> DEFINE k == m - 1
<1>6. k \in 0 .. Len(path) - 1 /\ k + 1 = m /\ s(k) = r(k) /\ k \in 0 .. Len(path)
  <2>1. m # 0
    BY <1>2, <1>5
  <2>2. k \in 0 .. Len(path) /\ ~ (m <= k) /\ k \in 0 .. Len(path) - 1 /\ k + 1 = m
    BY <1>1, <1>5, <2>1
  <2>3. k \notin Bad
    BY <1>5, <2>2
  <2>. QED BY <2>2, <2>3
<1> HIDE DEF k
<1>7. s(k + 1) # r(k + 1)
  BY <1>5, <1>6
<1>8. ~ (r(k) < 0)
  BY <1>3, <1>6, <1>7
<1>9. /\ r(k) \in Live(d)
      /\ s(k + 1) = LookupEntry(e, r(k), path[k + 1])
      /\ LookupEntry(e, r(k), path[k + 1]) # LookupEntry(d, r(k), path[k + 1])
  BY <1>3, <1>4, <1>6, <1>7, <1>8
<1>. QED BY <1>6, <1>9 DEF r, s

\* No path leads elsewhere if no directory has grown.
LEMMA SamePaths ==
    ASSUME NEW d, Sound(d), NEW e, Sound(e), Grown(d, e), NEW T, NEW path \in Seq(T),
           \A dir \in Directories(d) : e.itab[dir].size = d.itab[dir].size
    PROVE  direntv6_dirlookup(e, ROOT_INUMBER, path) = direntv6_dirlookup(d, ROOT_INUMBER, path)
<1>1. \A dir \in Directories(d) : Positions(e, dir) \ Positions(d, dir) = {}
  BY DEF Positions
<1>2. \A dir \in Live(d) : \A name : LookupEntry(e, dir, name) = LookupEntry(d, dir, name)
  BY <1>1, SameAnswer
<1>. QED BY <1>2, FirstDifference

\* All that directories of e have and those of d have not is an entry for an empty
\* inode.
OneEntryMore(d, e, dir, inr, name) ==
    /\ \A i \in Directories(d) : i = dir \/ e.itab[i].size = d.itab[i].size
    /\ \A p \in Positions(e, dir) \ Positions(d, dir) :
          Cell(e, dir, p) = [inr |-> inr, name |-> name]
    /\ e.itab[inr].size = 0

\* The new entry leads to the new inode, and makes no other path lead anywhere.
LEMMA OnePathMore ==
    ASSUME NEW d, Sound(d), NEW e, Sound(e), Grown(d, e), NEW T, NEW path \in Seq(T),
           NEW dir, NEW name, NEW inr, OneEntryMore(d, e, dir, inr, name),
           direntv6_dirlookup(e, ROOT_INUMBER, path) \in Live(e),
           direntv6_dirlookup(e, ROOT_INUMBER, path) # direntv6_dirlookup(d, ROOT_INUMBER, path)
    PROVE  /\ Len(path) >= 1 /\ path[Len(path)] = name
           /\ direntv6_dirlookup(d, ROOT_INUMBER, SubSeq(path, 1, Len(path) - 1)) = dir
<1> DEFINE r(j) == direntv6_dirlookup(d, ROOT_INUMBER, SubSeq(path, 1, j))
           s(j) == direntv6_dirlookup(e, ROOT_INUMBER, SubSeq(path, 1, j))
<1>1. /\ Len(path) \in Nat
      /\ \A i \in Directories(d) : i = dir \/ e.itab[i].size = d.itab[i].size
      /\ \A p \in Positions(e, dir) \ Positions(d, dir) :
            Cell(e, dir, p) = [inr |-> inr, name |-> name]
      /\ e.itab[inr].size = 0
  BY DEF OneEntryMore
<1>2. PICK k \in 0 .. Len(path) - 1 :
         /\ r(k) \in Live(d)
         /\ s(k + 1) = LookupEntry(e, r(k), path[k + 1])
         /\ LookupEntry(e, r(k), path[k + 1]) # LookupEntry(d, r(k), path[k + 1])
  BY FirstDifference
<1>3. \A j \in 0 .. Len(path) - 1 : s(j) \in Directories(e)
  BY ThroughDirectories
<1>4. \A j \in 0 .. Len(path) - 1 :
         s(j + 1) \in Live(e) =>
            \E p \in Positions(e, s(j)) : Cell(e, s(j), p).inr = s(j + 1)
  <2>1. SUFFICES ASSUME NEW j \in 0 .. Len(path) - 1, s(j + 1) \in Live(e)
                 PROVE  \E p \in Positions(e, s(j)) : Cell(e, s(j), p).inr = s(j + 1)
    OBVIOUS
  <2> DEFINE next == s(j + 1)
             from == s(j)
  <2>2. /\ next = direntv6_dirlookup(e, ROOT_INUMBER, SubSeq(path, 1, j + 1))
        /\ from = direntv6_dirlookup(e, ROOT_INUMBER, SubSeq(path, 1, j))
        /\ next \in Live(e)
    BY <2>1
  <2> HIDE DEF next, from
  <2>3. \E p \in Positions(e, from) : Cell(e, from, p).name = path[j + 1] /\ Cell(e, from, p).inr = next
    BY <2>1, <2>2, EntryBehind
  <2>. QED BY <2>3 DEF next, from
<1>5. SubSeq(path, 1, Len(path)) = path
  OBVIOUS
<1>6. s(Len(path)) \in Live(e)
  BY <1>5
<1> HIDE DEF r, s
<1>7. r(k) \in Directories(d) /\ r(k) = dir /\ path[k + 1] = name
  <2>1. ~ (r(k) \in Directories(d) =>
              \A p \in Positions(e, r(k)) \ Positions(d, r(k)) : Cell(e, r(k), p).name # path[k + 1])
    BY <1>2, SameAnswer
  <2>2. PICK p \in Positions(e, r(k)) \ Positions(d, r(k)) : Cell(e, r(k), p).name = path[k + 1]
    BY <2>1
  <2>3. r(k) = dir
    BY <1>1, <2>1, <2>2 DEF Positions
  <2>4. Cell(e, dir, p).name = name
    BY <1>1, <2>2, <2>3
  <2>. QED BY <2>1, <2>2, <2>3, <2>4
<1>8. s(k + 1) = inr
  <2>1. dir \in Directories(e) /\ dir \in Live(d)
    BY <1>7, GrownKeeps DEF Directories
  <2>2. CASE Holds(e, dir, name)
    <3>1. PICK p \in Positions(e, dir) :
             Cell(e, dir, p).name = name /\ LookupEntry(e, dir, name) = Cell(e, dir, p).inr
      BY <2>1, <2>2, EntryAnswer
    <3>2. p \notin Positions(d, dir)
      <4>1. SUFFICES ASSUME p \in Positions(d, dir) PROVE FALSE
        OBVIOUS
      <4>2. Cell(d, dir, p) = Cell(e, dir, p)
        BY <2>1, <4>1 DEF Grown
      <4>3. LookupEntry(d, dir, name) = Cell(d, dir, p).inr
        BY <1>7, <3>1, <4>1, <4>2, EntryFound
      <4>. QED BY <1>2, <1>7, <3>1, <4>2, <4>3
    <3>. QED BY <1>1, <1>2, <1>7, <3>1, <3>2
  <2>3. CASE ~ Holds(e, dir, name)
    <3>1. ~ Holds(d, dir, name)
      <4>1. \A p \in Positions(d, dir) : p \in Positions(e, dir) /\ Cell(e, dir, p) = Cell(d, dir, p)
        BY <2>1, GrownKeeps DEF Grown
      <4>. QED BY <2>3, <4>1 DEF Holds
    <3>2. LookupEntry(e, dir, name) = LookupEntry(d, dir, name)
      BY <1>7, <2>1, <2>3, <3>1, EntryFound
    <3>. QED BY <1>2, <1>7, <3>2
  <2>. QED BY <2>2, <2>3
<1>9. k + 1 = Len(path)
  <2>1. SUFFICES ASSUME k + 1 # Len(path) PROVE FALSE
    OBVIOUS
  <2>2. k + 1 \in 0 .. Len(path) - 1
    BY <1>1, <1>2, <2>1
  <2>3. s(k + 2) \in Live(e)
    <3>1. CASE k + 2 = Len(path)
      BY <1>6, <3>1
    <3>2. CASE k + 2 # Len(path)
      <4>1. k + 2 \in 0 .. Len(path) - 1
        BY <1>1, <1>2, <2>2, <3>2
      <4>. QED BY <1>3, <4>1 DEF Directories
    <3>. QED BY <3>1, <3>2
  <2>4. (k + 1) + 1 = k + 2
    BY <1>2
  <2>5. Positions(e, inr) # {}
    BY <1>4, <1>8, <2>2, <2>3, <2>4
  <2>. QED BY <1>1, <2>5 DEF Positions
<1>10. Len(path) >= 1 /\ k = Len(path) - 1
  BY <1>1, <1>2, <1>9
<1>11. r(Len(path) - 1) = dir /\ path[Len(path)] = name
  BY <1>7, <1>9, <1>10
<1>. QED BY <1>10, <1>11 DEF r

-----------------------------------------------------------------------------------
(* The mount. *)

\* The windows of the two bitmaps.
LEMMA Windows ==
    /\ ROOT_INUMBER \in Nat /\ s_isize * InodesPerSector \in Nat
    /\ ROOT_INUMBER <= s_isize * InodesPerSector
    /\ InodeNumbers \ {0} \subseteq ROOT_INUMBER .. s_isize * InodesPerSector
    /\ s_block_start \in Nat /\ s_fsize \in Nat /\ s_block_start <= s_fsize
    /\ Numbered = s_block_start .. s_fsize
    /\ InodeBitmap \in BmBlockArray(ROOT_INUMBER, s_isize * InodesPerSector)
    /\ DataBitmap \in BmBlockArray(s_block_start, s_fsize)
<1>1. s_isize * InodesPerSector \in Nat /\ s_isize * InodesPerSector = InodesPerSector * s_isize
  BY Format, SMTT(30)
<1>2. s_isize * InodesPerSector >= 1 * 2
  BY Format, SMTT(30)
<1>3. ASSUME NEW min \in Nat, NEW max \in Nat, min <= max
      PROVE  bm_alloc(min, max) \in BmBlockArray(min, max)
  <2> DEFINE q == (max - min) \div BitsPerVector
  <2>1. q \in Nat
    <3>1. max - min \in Nat /\ BitsPerVector \in Nat \ {0}
      BY <1>3, BitsPerVectorAssumption
    <3>2. 0 \div BitsPerVector <= q /\ 0 \div BitsPerVector = 0
      BY <3>1, DivMonotone
    <3>3. q \in Int
      BY <3>1, Division
    <3> HIDE DEF q
    <3>. QED BY <3>2, <3>3
  <2>2. bm_alloc(min, max) = [min |-> min, max |-> max, length |-> q + 1, cursor |-> 0, bits |-> {}]
    BY DEF bm_alloc
  <2>3. BmBlockArray(min, max) = [min : {min}, max : {max}, length : {q + 1},
                                  cursor : 0 .. q, bits : SUBSET (min .. max)]
    BY DEF BmBlockArray
  <2> HIDE DEF q
  <2>4. 0 \in 0 .. q /\ {} \in SUBSET (min .. max)
    BY <2>1
  <2>. QED BY <2>2, <2>3, <2>4
<1>4. /\ s_block_start \in Nat /\ s_fsize \in Nat /\ s_block_start <= s_fsize
      /\ Numbered = s_block_start .. s_fsize
  BY Format DEF Numbered
<1>5. ROOT_INUMBER \in Nat /\ ROOT_INUMBER <= s_isize * InodesPerSector
  BY <1>1, <1>2 DEF ROOT_INUMBER
<1>6. InodeNumbers \ {0} \subseteq ROOT_INUMBER .. s_isize * InodesPerSector
  <2> DEFINE m == InodesPerSector * s_isize
  <2>1. m \in Nat /\ m = s_isize * InodesPerSector /\ InodeNumbers = 0 .. m - 1
    BY <1>1 DEF InodeNumbers
  <2> HIDE DEF m
  <2>. QED BY <2>1 DEF ROOT_INUMBER
<1>7. InodeBitmap \in BmBlockArray(ROOT_INUMBER, s_isize * InodesPerSector)
  BY <1>1, <1>3, <1>5 DEF InodeBitmap
<1>8. DataBitmap \in BmBlockArray(s_block_start, s_fsize)
  BY <1>3, <1>4 DEF DataBitmap
<1>. QED BY <1>1, <1>4, <1>5, <1>6, <1>7, <1>8

\* Every sector of a small file is found and marked, and nothing goes wrong with it.
LEMMA FileMarked ==
    ASSUME NEW d, Sound(d), NEW inr \in Live(d)
    PROVE  /\ write_sector_on_bitmap(d, d.itab[inr]) = ERR_NONE
           /\ \A p \in Positions(d, inr) : Place(d, inr, p) \in UsedSectors(d, d.itab[inr])
<1> DEFINE i == d.itab[inr]
           m == SizeTot(i.size)
<1>1. /\ i.size \in Nat /\ i.size < MAX_SIZE /\ i.mode # "free"
      /\ i.addr \in [0 .. AddrSmall - 1 -> Word]
      /\ \A p \in Positions(d, inr) : p \in 0 .. i.size
  BY InodeInUse DEF Sound
<1>2. /\ m \in Nat /\ m <= AddrSmall
      /\ \A p \in 0 .. i.size : p \div SectorSize \in 0 .. m - 1
  BY <1>1, Slot
<1> HIDE DEF i
<1>3. ASSUME NEW k \in 0 .. m - 1 PROVE inode_findsector(Words(d), i, k) >= 0
  <2>1. inode_findsector(Words(d), i, k) = i.addr[k]
    BY <1>1, <1>2 DEF inode_findsector
  <2>2. k \in 0 .. AddrSmall - 1
    BY <1>2, Format
  <2>3. i.addr[k] \in Word
    BY <1>1, <2>2
  <2>. QED BY <2>1, <2>3, Format DEF Word
<1>4. Translated(d, i) = 0 .. m - 1
  <2>1. \A k \in 0 .. m - 1 : \A j \in 0 .. k : j \in 0 .. m - 1
    BY <1>2
  <2>. QED BY <1>3, <2>1 DEF Translated
<1>5. Cardinality(Translated(d, i)) = m
  <2>1. Cardinality(0 .. m - 1) = m
    <3> HIDE DEF m
    <3>1. 0 \in Int /\ m - 1 \in Int
      BY <1>2
    <3>. QED BY <1>2, <3>1, FS_Interval
  <2>. QED BY <1>4, <2>1
<1>6. inode_findsector(Words(d), i, m) = ERR_OFFSET_OUT_OF_RANGE
  <2>1. m \notin 0 .. m - 1
    BY <1>2
  <2>. QED BY <1>1, <2>1 DEF inode_findsector
<1>7. write_sector_on_bitmap(d, i) = ERR_NONE
  BY <1>5, <1>6 DEF write_sector_on_bitmap
<1>8. ASSUME NEW p \in Positions(d, inr) PROVE Place(d, inr, p) \in UsedSectors(d, i)
  <2>1. p \div SectorSize \in 0 .. m - 1
    BY <1>1, <1>2, <1>8
  <2>2. inode_findsector(Words(d), i, p \div SectorSize) = Place(d, inr, p)
    BY <1>8, SmallFile DEF Sound, i
  <2>. QED BY <1>4, <2>1, <2>2 DEF UsedSectors
<1>. QED BY <1>7, <1>8 DEF i

\* A sound image can be mounted, and then the bitmaps know all that is in use.
LEMMA Mounted ==
    ASSUME NEW d, Sound(d)
    PROVE  /\ fill_bitmaps(d).ret = ERR_NONE
           /\ fill_bitmaps(d).ibm \in BmBlockArray(ROOT_INUMBER, s_isize * InodesPerSector)
           /\ fill_bitmaps(d).fbm \in BmBlockArray(s_block_start, s_fsize)
           /\ Live(d) \subseteq fill_bitmaps(d).ibm.bits
           /\ SectorsInUse(d) \subseteq fill_bitmaps(d).fbm.bits
<1> DEFINE used == {inr \in ScannedInodes : inode_read(d, inr) = ERR_NONE}
           bad  == {inr \in used : write_sector_on_bitmap(d, d.itab[inr]) # ERR_NONE}
           X    == UNION {UsedSectors(d, d.itab[inr]) : inr \in used}
<1>1. used = Live(d)
  <2>1. \A inr : inode_read(d, inr) = ERR_NONE <=> inr \in Live(d)
    BY DEF inode_read, Live, ERR_NONE, ERR_INODE_OUT_OF_RANGE, ERR_UNALLOCATED_INODE
  <2>. QED BY <2>1 DEF Sound, Small
<1>2. bad = {}
  BY <1>1, FileMarked
<1>3. /\ fill_bitmaps(d).ret = ERR_NONE
      /\ fill_bitmaps(d).ibm = MarkAll(InodeBitmap, used)
      /\ fill_bitmaps(d).fbm = MarkAll(DataBitmap, X)
  BY <1>2 DEF fill_bitmaps
<1> HIDE DEF used, bad
<1>4. ASSUME NEW min \in Nat, NEW max \in Nat, NEW v \in BmBlockArray(min, max), NEW Y
      PROVE  /\ MarkAll(v, Y) \in BmBlockArray(min, max)
             /\ Y \intersect (min .. max) \subseteq MarkAll(v, Y).bits
  BY <1>4 DEF MarkAll, BmBlockArray
<1>5. SectorsInUse(d) \subseteq X \intersect (s_block_start .. s_fsize)
  <2>1. SUFFICES ASSUME NEW inr \in Live(d), NEW p \in Positions(d, inr)
                 PROVE  Place(d, inr, p) \in X \intersect (s_block_start .. s_fsize)
    BY DEF SectorsInUse
  <2>2. Place(d, inr, p) \in UsedSectors(d, d.itab[inr])
    BY FileMarked
  <2>3. Place(d, inr, p) \in s_block_start .. s_fsize
    BY Readable, Windows
  <2>. QED BY <1>1, <2>2, <2>3
<1>6. Live(d) \subseteq ROOT_INUMBER .. s_isize * InodesPerSector
  BY Windows DEF Live
<1> HIDE DEF X
<1>7. /\ MarkAll(InodeBitmap, used) \in BmBlockArray(ROOT_INUMBER, s_isize * InodesPerSector)
      /\ Live(d) \subseteq MarkAll(InodeBitmap, used).bits
  <2>1. /\ MarkAll(InodeBitmap, used) \in BmBlockArray(ROOT_INUMBER, s_isize * InodesPerSector)
        /\ used \intersect (ROOT_INUMBER .. s_isize * InodesPerSector)
              \subseteq MarkAll(InodeBitmap, used).bits
    BY <1>4, Windows
  <2>. QED BY <1>1, <1>6, <2>1
<1>8. /\ MarkAll(DataBitmap, X) \in BmBlockArray(s_block_start, s_fsize)
      /\ SectorsInUse(d) \subseteq MarkAll(DataBitmap, X).bits
  BY <1>4, <1>5, Windows
<1>. QED BY <1>3, <1>7, <1>8
===================================================================================
