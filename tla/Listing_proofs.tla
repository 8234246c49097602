------------------------------- MODULE Listing_proofs -------------------------------
(***********************************************************************************)
(* For every geometry and every set of images, whatever is on them: the state is   *)
(* well typed, `inode' and `shafiles' print what ListingsAgree says, `tree' what    *)
(* TreeIsTrue says, and it strays only where AstrayOnHalfEntry says.                *)
(***********************************************************************************)
EXTENDS Listing, Format_proofs, SequenceTheorems, FiniteSetTheorems

-----------------------------------------------------------------------------------
(* Blocks and entries of a well-formed image. *)

Given == image \in Images /\ command \in ListCommands

\* What is known of the constants.
LEMMA Geometry ==
    /\ SectorSize \in Nat \ {0} /\ AddrSmall \in Nat /\ WordValues \in Nat \ {0}
    /\ EntryWords \in Nat \ {0, 1} /\ HashedSectors \in Nat \ {0} /\ StackDepth \in Nat \ {0}
    /\ InodesPerSector \in Nat \ {0, 1} /\ s_isize \in Nat \ {0}
BY GeometryAssumption, ListingAssumption, InodeTableAssumption

\* The image being listed.
LEMMA TheImage ==
    ASSUME Given
    PROVE  /\ image.itab \in [InodeNumbers -> StoredInode]
           /\ DOMAIN image.words \subseteq Nat
           /\ \A s \in DOMAIN image.words : image.words[s] \in [0 .. SectorSize - 1 -> Word]
BY ListingAssumption DEF Given

\* A block is in a sector of the image, or there is an error, or a word taken for one.
LEMMA BlockSectorType ==
    ASSUME Given, NEW i \in StoredInode, NEW off \in Int
    PROVE  /\ BlockSector(i, off) \in Int
           /\ BlockSector(i, off) >= 0 => BlockSector(i, off) \in DOMAIN image.words
           /\ BlockSector(i, off) < 0 \/ BlockSector(i, off) \in DOMAIN image.words
<1> DEFINE s == inode_findsector(image.words, i, off \div SectorSize)
<1>1. i.size \in Nat /\ i.addr \in [0 .. AddrSmall - 1 -> Word]
  BY DEF StoredInode
<1>2. off \div SectorSize \in Int
  BY Division, Geometry
<1>3. s \in error_codes \union -WordValues .. WordValues - 1
  <2>1. \A x \in DOMAIN image.words : image.words[x] \in [0 .. SectorSize - 1 -> Word]
    BY TheImage
  <2>. QED BY <1>1, <1>2, <2>1, FindSectorType
<1>4. BlockSector(i, off) = IF s >= 0 /\ s \notin DOMAIN image.words THEN ERR_IO ELSE s
  BY DEF BlockSector
<1> HIDE DEF s
<1>. QED BY <1>3, <1>4, Geometry DEF ERR_IO, error_codes

\* Its first words.
LEMMA BlockType ==
    ASSUME Given, NEW i \in StoredInode, NEW off \in Int, ~(BlockSector(i, off) < 0),
           NEW n \in 0 .. SectorSize
    PROVE  Block(i, off, n) \in Seq(Word) /\ Len(Block(i, off, n)) = n
<1>1. BlockSector(i, off) \in DOMAIN image.words
  BY BlockSectorType
<1>2. image.words[BlockSector(i, off)] \in [0 .. SectorSize - 1 -> Word]
  BY <1>1, TheImage
<1>3. n \in Nat /\ \A k \in 1 .. n : k - 1 \in 0 .. SectorSize - 1
  BY Geometry
<1>4. Block(i, off, n) \in [1 .. n -> Word]
  BY <1>2, <1>3 DEF Block
<1>5. Block(i, off, n) \in Seq(Word)
  BY <1>3, <1>4
<1>. QED BY <1>3, <1>4, <1>5

\* An inode that can be read.
LEMMA Readable ==
    ASSUME Given, NEW inr, inode_read(image, inr) = ERR_NONE
    PROVE  /\ inr \in InodeNumbers /\ inr \in 1 .. InodesPerSector * s_isize - 1
           /\ image.itab[inr] \in StoredInode
           /\ image.itab[inr].mode \in {"file", "dir"}
<1>1. InodesPerSector * s_isize \in Nat
  BY Geometry, SMTT(30)
<1>2. inr \in InodeNumbers \ {0} /\ image.itab[inr].mode # "free"
  <2>1. CASE inr \notin InodeNumbers \ {0}
    BY <2>1 DEF inode_read, ERR_INODE_OUT_OF_RANGE, ERR_NONE
  <2>2. CASE inr \in InodeNumbers \ {0} /\ image.itab[inr].mode = "free"
    BY <2>2 DEF inode_read, ERR_UNALLOCATED_INODE, ERR_NONE
  <2>. QED BY <2>1, <2>2
<1>3. image.itab[inr] \in StoredInode
  BY <1>2, TheImage
<1>. QED BY <1>1, <1>2, <1>3 DEF StoredInode, Modes, InodeNumbers

\* What inode_read answers is an error, or none.
LEMMA ReadAnswers ==
    ASSUME NEW inr
    PROVE  inode_read(image, inr) \in Int /\ inode_read(image, inr) <= ERR_NONE
<1>1. CASE inr \notin InodeNumbers \ {0}
  BY <1>1 DEF inode_read, ERR_INODE_OUT_OF_RANGE, ERR_NONE
<1>2. CASE inr \in InodeNumbers \ {0} /\ image.itab[inr].mode = "free"
  BY <1>2 DEF inode_read, ERR_UNALLOCATED_INODE, ERR_NONE
<1>3. CASE inr \in InodeNumbers \ {0} /\ ~(image.itab[inr].mode = "free")
  BY <1>3 DEF inode_read, ERR_NONE
<1>. QED BY <1>1, <1>2, <1>3

-----------------------------------------------------------------------------------
(* The scans: what has been printed when the loop comes to inode number next. *)

\* One more line, for the number the loop has come to.
LEMMA OneMore ==
    ASSUME NEW S, lines \in Seq(S), NEW n \in Nat, Ascending, Numbers \subseteq 1 .. n - 1,
           NEW l \in S, l.inr = n, lines' = Append(lines, l)
    PROVE  Ascending' /\ Numbers' = Numbers \union {n}
<1>1. /\ Len(lines) \in Nat /\ DOMAIN lines = 1 .. Len(lines)
      /\ DOMAIN lines' = 1 .. Len(lines) + 1
      /\ \A k \in 1 .. Len(lines) : lines'[k] = lines[k]
      /\ lines'[Len(lines) + 1] = l
  OBVIOUS
<1>2. \A k \in 1 .. Len(lines) : lines[k].inr \in 1 .. n - 1
  BY <1>1 DEF Numbers
<1>3. Ascending'
  <2>1. SUFFICES ASSUME NEW j \in DOMAIN lines', NEW k \in DOMAIN lines', j < k
                 PROVE  lines'[j].inr < lines'[k].inr
    BY DEF Ascending
  <2>2. CASE k \in 1 .. Len(lines)
    <3>1. j \in 1 .. Len(lines)
      BY <1>1, <2>1, <2>2
    <3>2. lines[j].inr < lines[k].inr
      BY <1>1, <2>1, <2>2, <3>1 DEF Ascending
    <3>. QED BY <1>1, <2>2, <3>1, <3>2
  <2>3. CASE k = Len(lines) + 1
    <3>1. j \in 1 .. Len(lines)
      BY <1>1, <2>1, <2>3
    <3>2. lines'[j].inr \in 1 .. n - 1 /\ lines'[k].inr = n
      BY <1>1, <1>2, <2>3, <3>1
    <3>. QED BY <3>2
  <2>. QED BY <1>1, <2>2, <2>3
<1>4. Numbers' = Numbers \union {n}
  <2>1. Numbers' = {lines'[k].inr : k \in 1 .. Len(lines) + 1}
    BY <1>1 DEF Numbers
  <2>2. Numbers = {lines[k].inr : k \in 1 .. Len(lines)}
    BY <1>1 DEF Numbers
  <2>3. 1 .. Len(lines) + 1 = 1 .. Len(lines) \union {Len(lines) + 1}
    BY <1>1
  <2>. QED BY <1>1, <2>1, <2>2, <2>3
<1>. QED BY <1>3, <1>4

\* The numbers of `inode': each number without an inode is passed.
LEMMA AllocatedGrows ==
    ASSUME NEW n \in Nat, n >= 1
    PROVE  AllocatedAmong(1 .. (n + 1) - 1) =
               AllocatedAmong(1 .. n - 1) \union (IF inode_read(image, n) = ERR_NONE THEN {n} ELSE {})
BY DEF AllocatedAmong

\* Those of `shafiles'.
LEMMA HashableGrows ==
    ASSUME NEW n \in Nat, n >= 1
    PROVE  Hashable(1 .. (n + 1) - 1) =
               Hashable(1 .. n - 1) \union
                   (IF inode_read(image, n) = ERR_NONE /\ ~Misread(n) THEN {n} ELSE {})
BY DEF Hashable, AllocatedAmong

\* They are numbers of inodes of the image, which stays.
LEMMA NumbersStay ==
    ASSUME UNCHANGED image
    PROVE  /\ \A S : AllocatedAmong(S)' = AllocatedAmong(S) /\ Hashable(S)' = Hashable(S)
           /\ \A i, r : FirstError(i, r)' <=> FirstError(i, r)
<1>1. \A i, off : BlockSector(i, off)' = BlockSector(i, off)
  BY DEF BlockSector
<1>2. ASSUME NEW i, NEW r PROVE FirstError(i, r)' <=> FirstError(i, r)
  BY <1>1 DEF FirstError
<1>3. ASSUME NEW inr PROVE Misread(inr)' <=> Misread(inr)
  BY <1>2 DEF Misread
<1>4. ASSUME NEW S PROVE AllocatedAmong(S)' = AllocatedAmong(S)
  BY DEF AllocatedAmong, inode_read
<1>5. ASSUME NEW S PROVE Hashable(S)' = Hashable(S)
  BY <1>3, <1>4 DEF Hashable
<1>. QED BY <1>2, <1>4, <1>5

\* What is printed when `inode' comes to number n, and when `shafiles' does.
InodesUpto(n) == Ascending /\ Numbers = AllocatedAmong(1 .. n - 1)
HashesUpto(n) == Ascending /\ Numbers = Hashable(1 .. n - 1)

\* After one more number.
LEMMA InodesGoOn ==
    ASSUME NEW n \in Nat, n >= 1, InodesUpto(n), UNCHANGED image, lines \in Seq(Printed),
           \/ lines' = lines /\ inode_read(image, n) # ERR_NONE
           \/ /\ inode_read(image, n) = ERR_NONE
              /\ \E l \in Printed : l.inr = n /\ lines' = Append(lines, l)
    PROVE  InodesUpto(n + 1)'
<1>1. /\ AllocatedAmong(1 .. (n + 1) - 1)' = AllocatedAmong(1 .. (n + 1) - 1)
      /\ AllocatedAmong(1 .. (n + 1) - 1) =
             AllocatedAmong(1 .. n - 1) \union (IF inode_read(image, n) = ERR_NONE THEN {n} ELSE {})
  BY NumbersStay, AllocatedGrows
<1>2. CASE lines' = lines /\ inode_read(image, n) # ERR_NONE
  <2>1. Ascending' /\ Numbers' = Numbers
    BY <1>2 DEF InodesUpto, Ascending, Numbers
  <2>. QED BY <1>1, <1>2, <2>1 DEF InodesUpto
<1>3. CASE /\ inode_read(image, n) = ERR_NONE
           /\ \E l \in Printed : l.inr = n /\ lines' = Append(lines, l)
  <2>1. Ascending /\ Numbers \subseteq 1 .. n - 1
    BY DEF InodesUpto, AllocatedAmong
  <2>2. PICK l \in Printed : l.inr = n /\ lines' = Append(lines, l)
    BY <1>3
  <2>3. Ascending' /\ Numbers' = Numbers \union {n}
    BY <2>1, <2>2, OneMore
  <2>. QED BY <1>1, <1>3, <2>3 DEF InodesUpto
<1>. QED BY <1>2, <1>3

LEMMA HashesGoOn ==
    ASSUME NEW n \in Nat, n >= 1, HashesUpto(n), UNCHANGED image, lines \in Seq(Printed),
           \/ lines' = lines /\ ~(inode_read(image, n) = ERR_NONE /\ ~Misread(n))
           \/ /\ inode_read(image, n) = ERR_NONE /\ ~Misread(n)
              /\ \E l \in Printed : l.inr = n /\ lines' = Append(lines, l)
    PROVE  HashesUpto(n + 1)'
<1>1. /\ Hashable(1 .. (n + 1) - 1)' = Hashable(1 .. (n + 1) - 1)
      /\ Hashable(1 .. (n + 1) - 1) =
             Hashable(1 .. n - 1) \union
                 (IF inode_read(image, n) = ERR_NONE /\ ~Misread(n) THEN {n} ELSE {})
  BY NumbersStay, HashableGrows
<1>2. CASE lines' = lines /\ ~(inode_read(image, n) = ERR_NONE /\ ~Misread(n))
  <2>1. Ascending' /\ Numbers' = Numbers
    BY <1>2 DEF HashesUpto, Ascending, Numbers
  <2>. QED BY <1>1, <1>2, <2>1 DEF HashesUpto
<1>3. CASE /\ inode_read(image, n) = ERR_NONE /\ ~Misread(n)
           /\ \E l \in Printed : l.inr = n /\ lines' = Append(lines, l)
  <2>1. Ascending /\ Numbers \subseteq 1 .. n - 1
    BY DEF HashesUpto, Hashable, AllocatedAmong
  <2>2. PICK l \in Printed : l.inr = n /\ lines' = Append(lines, l)
    BY <1>3
  <2>3. Ascending' /\ Numbers' = Numbers \union {n}
    BY <2>1, <2>2, OneMore
  <2>. QED BY <1>1, <1>3, <2>3 DEF HashesUpto
<1>. QED BY <1>2, <1>3

-----------------------------------------------------------------------------------
(* What shafiles hashes. *)

\* The k-th word belongs to block (k - 1) \div SectorSize, whichever way it is found.
LEMMA BlockOfWord ==
    ASSUME NEW x \in Nat
    PROVE  LET q == x \div SectorSize
           IN  /\ q \in Nat /\ q * SectorSize \in Nat /\ q * SectorSize <= x
               /\ (q * SectorSize) \div SectorSize = q /\ x % SectorSize \in 0 .. SectorSize - 1
               /\ \A h \in Nat : x < h * SectorSize => q < h
<1> DEFINE q == x \div SectorSize
<1>1. SectorSize \in Nat \ {0}
  BY Geometry
<1>2. q \in Nat
  BY <1>1, Quotient
<1>3. x % SectorSize \in 0 .. SectorSize - 1 /\ x = SectorSize * q + (x % SectorSize)
  BY <1>1, Division
<1>4. \A h \in Nat : x < h * SectorSize => q < h
  <2>1. SUFFICES ASSUME NEW h \in Nat, x < h * SectorSize PROVE q < h
    OBVIOUS
  <2>2. q + 1 <= h
    BY <1>1, <2>1, Quotient
  <2> HIDE DEF q
  <2>. QED BY <1>2, <2>2
<1> HIDE DEF q
<1>5. q * SectorSize = SectorSize * q /\ q * SectorSize \in Nat
  BY <1>1, <1>2, SMTT(30)
<1>6. q * SectorSize <= x
  BY <1>1, <1>3, <1>5
<1>7. (q * SectorSize) \div SectorSize = q
  <2> DEFINE n == q * SectorSize
             p == n \div SectorSize
             r == n % SectorSize
  <2>1. n \in Int /\ n = SectorSize * q
    BY <1>5
  <2> HIDE DEF n
  <2>2. p \in Int /\ r \in 0 .. SectorSize - 1 /\ n = SectorSize * p + r
    BY <1>1, <2>1, Division
  <2> HIDE DEF p, r
  <2>3. SectorSize * p \in Int /\ SectorSize * q \in Int
        /\ SectorSize * (q - p) = SectorSize * q - SectorSize * p
    BY <1>1, <1>2, <2>2, SMTT(30)
  <2>4. SectorSize * (q - p) = r
    BY <1>1, <2>1, <2>2, <2>3
  <2>5. q - p = 0
    <3>1. SectorSize * (q - p) < SectorSize /\ SectorSize * (q - p) > -SectorSize
      BY <1>1, <2>2, <2>4
    <3>. QED BY <1>1, <1>2, <2>2, <3>1, SmallMultiple
  <2>6. p = q
    BY <1>2, <2>2, <2>5
  <2>. QED BY <2>6 DEF p, n
<1>. QED BY <1>2, <1>3, <1>4, <1>6, <1>5, <1>7 DEF q

\* How much of a file is hashed.
HashedLength(i) == Min({HashedSectors * SectorSize, i.size})

\* That much is a number of bytes, no more than the file has.
LEMMA HashedLengthType ==
    ASSUME NEW i \in StoredInode
    PROVE  /\ HashedLength(i) \in Nat /\ HashedLength(i) <= i.size
           /\ HashedLength(i) <= HashedSectors * SectorSize /\ HashedSectors * SectorSize \in Nat
<1>1. HashedSectors * SectorSize \in Nat
  BY Geometry, SMTT(30)
<1>2. i.size \in Nat
  BY DEF StoredInode
<1>3. HashedLength(i) = IF HashedSectors * SectorSize <= i.size THEN HashedSectors * SectorSize
                                                                ELSE i.size
  BY <1>1, <1>2, MinOfTwo DEF HashedLength
<1>. QED BY <1>1, <1>2, <1>3

\* It is the beginning of the content, if all its blocks can be read.
LEMMA HashedIsContent ==
    ASSUME Given, NEW i \in StoredInode, BadBlocks(i) = {}
    PROVE  Hashed(i) = Content(i, 0, HashedLength(i)) /\ Hashed(i) \in Seq(Word)
<1> DEFINE n == HashedLength(i)
           Place(k) == (k - 1) \div SectorSize
           WordAt(k) == image.words[BlockSector(i, Place(k) * SectorSize)][(k - 1) % SectorSize]
<1>1. /\ n \in Nat /\ n <= i.size /\ n <= HashedSectors * SectorSize
      /\ HashedSectors * SectorSize \in Nat /\ i.size \in Nat
  BY HashedLengthType DEF StoredInode
<1>2. ASSUME NEW k \in 1 .. n
      PROVE  /\ Place(k) \in HashedBlocks(i)
             /\ Place(k) * SectorSize \in Nat
             /\ (Place(k) * SectorSize) \div SectorSize = (k - 1) \div SectorSize
             /\ (k - 1) % SectorSize \in 0 .. SectorSize - 1
  <2>1. k - 1 \in Nat /\ k - 1 < i.size /\ k - 1 < HashedSectors * SectorSize
    BY <1>1
  <2>2. /\ Place(k) \in Nat /\ Place(k) * SectorSize \in Nat
        /\ Place(k) * SectorSize <= k - 1 /\ (k - 1) % SectorSize \in 0 .. SectorSize - 1
        /\ (Place(k) * SectorSize) \div SectorSize = Place(k)
        /\ \A h \in Nat : k - 1 < h * SectorSize => Place(k) < h
    BY <2>1, BlockOfWord
  <2> HIDE DEF Place
  <2>3. Place(k) < HashedSectors /\ HashedSectors \in Nat
    BY <2>1, <2>2, Geometry
  <2>4. Place(k) \in 0 .. HashedSectors - 1 /\ Place(k) * SectorSize < i.size
    BY <1>1, <2>1, <2>2, <2>3
  <2>. QED BY <2>2, <2>4 DEF HashedBlocks, Place
<1>3. Hashed(i) = [k \in 1 .. n |-> WordAt(k)]
  <2>1. Hashed(i) = [k \in 1 .. n |-> IF Place(k) \in HashedBlocks(i) THEN WordAt(k) ELSE 0]
    BY DEF Hashed, HashedLength
  <2>. QED BY <1>2, <2>1
<1>4. Content(i, 0, n) = [k \in 1 .. n |-> WordAt(k)]
  <2>1. ASSUME NEW k \in 1 .. n
        PROVE  /\ BlockSector(i, 0 + k - 1) = BlockSector(i, Place(k) * SectorSize)
               /\ 0 + k - 1 = k - 1
    BY <1>1, <1>2, <2>1 DEF BlockSector
  <2>2. Content(i, 0, n) = [k \in 1 .. n |->
            image.words[BlockSector(i, 0 + k - 1)][(0 + k - 1) % SectorSize]]
    BY DEF Content
  <2>. QED BY <2>1, <2>2
<1>5. ASSUME NEW k \in 1 .. n PROVE WordAt(k) \in Word
  <2>1. ~(BlockSector(i, Place(k) * SectorSize) < 0)
    BY <1>2 DEF BadBlocks
  <2>2. BlockSector(i, Place(k) * SectorSize) \in DOMAIN image.words
    <3>1. Place(k) * SectorSize \in Int
      BY <1>2
    <3>. QED BY <2>1, <3>1, BlockSectorType
  <2>3. image.words[BlockSector(i, Place(k) * SectorSize)] \in [0 .. SectorSize - 1 -> Word]
    BY <2>2, TheImage
  <2>. QED BY <1>2, <2>3
<1>6. Hashed(i) \in Seq(Word)
  <2>1. Hashed(i) \in [1 .. n -> Word]
    BY <1>3, <1>5
  <2>. QED BY <1>1, <2>1
<1>. QED BY <1>3, <1>4, <1>6

\* A word that is hashed is one of a block that is, and in the same sector.
LEMMA BlockOfHashed ==
    ASSUME Given, NEW i \in StoredInode, NEW x \in Nat,
           x < i.size, x < HashedSectors * SectorSize
    PROVE  LET q == x \div SectorSize
           IN  /\ q \in HashedBlocks(i) /\ q \in Nat
               /\ BlockSector(i, x) = BlockSector(i, q * SectorSize)
               /\ BlockSector(i, x) \in Int
               /\ \A h \in Nat : x < h * SectorSize => q < h
<1> DEFINE q == x \div SectorSize
<1>1. /\ q \in Nat /\ q * SectorSize \in Nat /\ q * SectorSize <= x
      /\ (q * SectorSize) \div SectorSize = q
      /\ \A h \in Nat : x < h * SectorSize => q < h
  BY BlockOfWord
<1>2. BlockSector(i, x) = BlockSector(i, q * SectorSize)
  BY <1>1 DEF BlockSector
<1>3. BlockSector(i, x) \in Int
  <2>1. x \in Int
    OBVIOUS
  <2>. QED BY <2>1, BlockSectorType
<1> HIDE DEF q
<1>4. q < HashedSectors /\ HashedSectors \in Nat /\ i.size \in Nat
  BY <1>1, Geometry DEF StoredInode
<1>5. q \in HashedBlocks(i)
  BY <1>1, <1>4 DEF HashedBlocks
<1>. QED BY <1>1, <1>2, <1>3, <1>5 DEF q

\* There is at most one first error.
LEMMA OneFirst ==
    ASSUME Given, NEW i \in StoredInode, NEW r, NEW e, FirstError(i, r), FirstError(i, e)
    PROVE  r = e
<1>1. i.size \in Nat
  BY DEF StoredInode
<1>2. PICK x \in 0 .. i.size - 1 :
          BlockSector(i, x) = r /\ \A o \in 0 .. x - 1 : BlockSector(i, o) >= 0
  BY DEF FirstError
<1>3. PICK y \in 0 .. i.size - 1 :
          BlockSector(i, y) = e /\ \A o \in 0 .. y - 1 : BlockSector(i, o) >= 0
  BY DEF FirstError
<1>4. r < 0 /\ e < 0 /\ r \in Int /\ e \in Int
  <2>1. x \in Int /\ y \in Int
    OBVIOUS
  <2>. QED BY <1>2, <1>3, <2>1, BlockSectorType DEF FirstError
<1>5. ~(x < y)
  BY <1>1, <1>2, <1>3, <1>4
<1>6. ~(y < x)
  BY <1>1, <1>2, <1>3, <1>4
<1>7. x = y
  BY <1>1, <1>5, <1>6
<1>. QED BY <1>2, <1>3, <1>7

\* The first block that cannot be read is the first error of the content.
LEMMA FirstBad ==
    ASSUME Given, NEW i \in StoredInode, BadBlocks(i) # {}
    PROVE  LET r == BlockSector(i, Min(BadBlocks(i)) * SectorSize)
           IN  r \in Int /\ r < 0 /\ FirstError(i, r)
<1> DEFINE b == Min(BadBlocks(i))
<1>1. b \in BadBlocks(i) /\ b \in Nat /\ \A q \in BadBlocks(i) : b <= q
  <2>1. BadBlocks(i) \in SUBSET Nat
    BY Geometry DEF BadBlocks, HashedBlocks
  <2>. QED BY <2>1, MinOfNat
<1>2. b \in 0 .. HashedSectors - 1 /\ b * SectorSize < i.size /\ BlockSector(i, b * SectorSize) < 0
  BY <1>1 DEF BadBlocks, HashedBlocks
<1> HIDE DEF b
<1>3. b * SectorSize \in Nat /\ b * SectorSize < HashedSectors * SectorSize
      /\ HashedSectors * SectorSize \in Nat
  <2>1. b * SectorSize \in Nat /\ (b + 1) * SectorSize <= HashedSectors * SectorSize
        /\ HashedSectors * SectorSize \in Nat
    BY <1>2, Geometry, SMTT(30)
  <2>2. (b + 1) * SectorSize = b * SectorSize + SectorSize
    BY <1>2, Geometry, SMTT(30)
  <2>. QED BY <1>2, <2>1, <2>2, Geometry
<1>4. BlockSector(i, b * SectorSize) \in Int
  <2>1. b * SectorSize \in Int
    BY <1>3
  <2>. QED BY <2>1, BlockSectorType
<1>5. i.size \in Nat /\ b * SectorSize \in 0 .. i.size - 1
  BY <1>2, <1>3 DEF StoredInode
<1>6. ASSUME NEW o \in 0 .. b * SectorSize - 1 PROVE BlockSector(i, o) >= 0
  <2> DEFINE q == o \div SectorSize
  <2>1. o \in Nat /\ o < i.size /\ o < HashedSectors * SectorSize /\ o < b * SectorSize
    BY <1>3, <1>5
  <2>2. /\ q \in HashedBlocks(i) /\ q \in Nat /\ BlockSector(i, o) = BlockSector(i, q * SectorSize)
        /\ BlockSector(i, o) \in Int /\ \A h \in Nat : o < h * SectorSize => q < h
    BY <2>1, BlockOfHashed
  <2> HIDE DEF q
  <2>3. q < b
    BY <1>1, <2>1, <2>2
  <2>4. q \notin BadBlocks(i)
    BY <1>1, <2>2, <2>3
  <2>. QED BY <2>2, <2>4 DEF BadBlocks
<1>7. FirstError(i, BlockSector(i, b * SectorSize))
  BY <1>2, <1>3, <1>5, <1>6 DEF FirstError
<1>. QED BY <1>2, <1>4, <1>7 DEF b

\* Without one, there is no error in what is hashed.
LEMMA NoneBad ==
    ASSUME Given, NEW i \in StoredInode, BadBlocks(i) = {}, NEW r
    PROVE  ~FirstError(i, r)
<1>1. SUFFICES ASSUME FirstError(i, r) PROVE FALSE
  OBVIOUS
<1>2. PICK x \in 0 .. i.size - 1 : x < HashedSectors * SectorSize /\ BlockSector(i, x) = r
  BY <1>1 DEF FirstError
<1>3. x \in Nat /\ x < i.size
  BY DEF StoredInode
<1>4. /\ x \div SectorSize \in HashedBlocks(i)
      /\ BlockSector(i, x) = BlockSector(i, (x \div SectorSize) * SectorSize)
  BY <1>2, <1>3, BlockOfHashed
<1>5. BlockSector(i, x) < 0
  BY <1>1, <1>2 DEF FirstError
<1>. QED BY <1>4, <1>5 DEF BadBlocks

\* What utils_print_shafile answers says whether it has printed a line, passes the number
\* or stops at it.
LEMMA ShaAnswers ==
    ASSUME Given, NEW inr \in InodeNumbers \ {0}
    PROVE  LET r == utils_print_shafile(inr)
               i == image.itab[inr]
           IN  /\ r = ERR_NONE =>
                      /\ inode_read(image, inr) = ERR_NONE /\ ~Misread(inr)
                      /\ i.mode = "file" => BadBlocks(i) = {}
               /\ r = ERR_UNALLOCATED_INODE => ~(inode_read(image, inr) = ERR_NONE /\ ~Misread(inr))
               /\ r \notin {ERR_NONE, ERR_UNALLOCATED_INODE} =>
                      /\ inode_read(image, inr) = ERR_NONE /\ i.mode = "file"
                      /\ r \in Int /\ r < 0 /\ FirstError(i, r)
<1> DEFINE r == utils_print_shafile(inr)
           i == image.itab[inr]
<1>1. inode_read(image, inr) \in {ERR_NONE, ERR_UNALLOCATED_INODE}
  BY DEF inode_read
<1>2. ERR_NONE # ERR_UNALLOCATED_INODE /\ ~(ERR_NONE < 0)
  BY DEF ERR_NONE, ERR_UNALLOCATED_INODE
<1>3. CASE inode_read(image, inr) # ERR_NONE
  BY <1>1, <1>2, <1>3 DEF utils_print_shafile
<1>4. CASE inode_read(image, inr) = ERR_NONE /\ i.mode = "file" /\ BadBlocks(i) # {}
  <2>1. r = BlockSector(i, Min(BadBlocks(i)) * SectorSize)
    BY <1>4 DEF utils_print_shafile
  <2>2. i \in StoredInode
    BY <1>4, Readable
  <2> HIDE DEF i, r
  <2>3. r \in Int /\ r < 0 /\ FirstError(i, r)
    BY <1>4, <2>1, <2>2, FirstBad
  <2>4. r = ERR_UNALLOCATED_INODE => Misread(inr)
    BY <1>4, <2>3 DEF Misread, i
  <2>. QED BY <1>2, <1>4, <2>3, <2>4 DEF i, r
<1>5. CASE inode_read(image, inr) = ERR_NONE /\ ~(i.mode = "file" /\ BadBlocks(i) # {})
  <2>1. r = ERR_NONE
    BY <1>5 DEF utils_print_shafile
  <2>2. i \in StoredInode
    BY <1>5, Readable
  <2>3. ~Misread(inr)
    BY <1>5, <2>2, NoneBad DEF Misread
  <2>. QED BY <1>2, <1>5, <2>1, <2>3
<1>. QED BY <1>3, <1>4, <1>5

-----------------------------------------------------------------------------------
(* The directory reader. *)

Readers == [inode : StoredInode, off : Nat, dirs : Seq(Word), cur : Nat, last : Nat]

\* A directory just opened.
LEMMA Opened ==
    ASSUME Given, NEW inr, inode_read(image, inr) = ERR_NONE, image.itab[inr].mode = "dir"
    PROVE  Reader(inr) \in Readers /\ CursorsFit(Reader(inr))
<1>1. image.itab[inr] \in StoredInode
  BY Readable
<1>2. /\ Reader(inr) \in Readers /\ Reader(inr).inode = image.itab[inr]
      /\ Reader(inr).off = 0 /\ Reader(inr).dirs = << >> /\ Reader(inr).cur = 0
      /\ Reader(inr).last = 0
  BY <1>1 DEF Reader, Readers
<1>3. image.itab[inr].size \in Nat /\ 0 * EntryWords = 0
  BY <1>1, Geometry DEF StoredInode
<1>. QED BY <1>2, <1>3, Geometry DEF CursorsFit

\* Words over the first of some others, which may be fewer.
LEMMA Overlay ==
    ASSUME NEW s \in Seq(Word), NEW u \in Seq(Word)
    PROVE  LET o == s \o SubSeq(u, Len(s) + 1, Len(u))
           IN  /\ o \in Seq(Word)
               /\ Len(o) = IF Len(s) <= Len(u) THEN Len(u) ELSE Len(s)
<1> DEFINE r == SubSeq(u, Len(s) + 1, Len(u))
<1>1. Len(s) \in Nat /\ Len(u) \in Nat
  OBVIOUS
<1>2. r \in Seq(Word) /\ Len(r) = IF Len(s) + 1 <= Len(u) THEN Len(u) - Len(s) ELSE 0
  <2>1. \A k \in Len(s) + 1 .. Len(u) : u[k] \in Word
    BY <1>1
  <2>. QED BY <1>1, <2>1, SubSeqProperties
<1> HIDE DEF r
<1>3. s \o r \in Seq(Word) /\ Len(s \o r) = Len(s) + Len(r)
  <2>1. r \in Seq(Word)
    BY <1>2
  <2>. QED BY <2>1, ConcatProperties
<1>. QED BY <1>1, <1>2, <1>3 DEF r

\* The entries counted lie within the words they are counted in.
LEMMA WholeEntries ==
    ASSUME NEW n \in Nat
    PROVE  n \div EntryWords \in Nat /\ (n \div EntryWords) * EntryWords <= n
<1> DEFINE q == n \div EntryWords
           r == n % EntryWords
<1>1. EntryWords \in Nat \ {0}
  BY Geometry
<1>2. q \in Nat
  BY <1>1, Quotient
<1>3. r \in 0 .. EntryWords - 1 /\ n = EntryWords * q + r
  BY <1>1, Division
<1> HIDE DEF q, r
<1>4. q * EntryWords = EntryWords * q /\ q * EntryWords \in Nat
  BY <1>1, <1>2, SMTT(30)
<1>. QED BY <1>1, <1>2, <1>3, <1>4 DEF q

\* A block read over what the reader held.
LEMMA Refilled ==
    ASSUME Given, NEW d \in Readers, CursorsFit(d), d.cur = d.last, ~AtEnd(d), ~Unreadable(d)
    PROVE  Refill(d) \in Readers /\ CursorsFit(Refill(d)) /\ Refill(d).cur = 0
<1> DEFINE n == BlockLength(d.inode, d.off)
           b == Block(d.inode, d.off, n)
           rest == SubSeq(d.dirs, n + 1, Len(d.dirs))
<1>1. /\ d.inode \in StoredInode /\ d.inode.size \in Nat /\ d.off \in Nat /\ d.off < d.inode.size
      /\ d.inode.mode = "dir" /\ d.dirs \in Seq(Word) /\ Len(d.dirs) \in Nat
      /\ Len(d.dirs) <= SectorSize /\ SectorSize \in Nat
  BY Geometry DEF Readers, StoredInode, CursorsFit, AtEnd
<1>2. n \in 0 .. SectorSize /\ d.off + n \in Nat /\ d.off + n <= d.inode.size
  <2>1. n = IF SectorSize <= d.inode.size - d.off THEN SectorSize ELSE d.inode.size - d.off
    BY <1>1, MinOfTwo DEF BlockLength
  <2> HIDE DEF n
  <2>. QED BY <1>1, <2>1
<1> HIDE DEF n
<1>3. b \in Seq(Word) /\ Len(b) = n
  <2>1. ~(BlockSector(d.inode, d.off) < 0)
    BY DEF Unreadable, AtEnd
  <2>2. d.off \in Int
    BY <1>1
  <2>. QED BY <1>1, <1>2, <2>1, <2>2, BlockType
<1> HIDE DEF b
<1>4. /\ b \o rest \in Seq(Word)
      /\ Len(b \o rest) = IF n <= Len(d.dirs) THEN Len(d.dirs) ELSE n
  BY <1>1, <1>3, Overlay
<1>5. Refill(d) = [d EXCEPT !.dirs = b \o rest, !.off = d.off + n,
                            !.last = n \div EntryWords, !.cur = 0]
  BY DEF Refill, n, b, Readers
<1> HIDE DEF rest
<1>6. n \div EntryWords \in Nat /\ (n \div EntryWords) * EntryWords <= n
  BY <1>2, WholeEntries
<1>7. /\ Refill(d).inode = d.inode /\ Refill(d).dirs = b \o rest /\ Refill(d).off = d.off + n
      /\ Refill(d).last = n \div EntryWords /\ Refill(d).cur = 0 /\ Refill(d) \in Readers
  <2> DEFINE w == b \o rest
             o == d.off + n
             e == n \div EntryWords
  <2>1. w \in Seq(Word) /\ o \in Nat /\ e \in Nat
    BY <1>2, <1>4, <1>6
  <2>2. Refill(d) = [d EXCEPT !.dirs = w, !.off = o, !.last = e, !.cur = 0]
    BY <1>5
  <2> HIDE DEF w, o, e
  <2>3. d = [inode |-> d.inode, off |-> d.off, dirs |-> d.dirs, cur |-> d.cur, last |-> d.last]
    BY DEF Readers
  <2>4. Refill(d) = [inode |-> d.inode, off |-> o, dirs |-> w, cur |-> 0, last |-> e]
    BY <2>2, <2>3
  <2>5. /\ Refill(d).inode = d.inode /\ Refill(d).dirs = w /\ Refill(d).off = o
        /\ Refill(d).last = e /\ Refill(d).cur = 0 /\ Refill(d) \in Readers
    BY <1>1, <2>1, <2>4 DEF Readers
  <2>. QED BY <2>5 DEF w, o, e
<1>8. /\ Len(b \o rest) <= SectorSize /\ (n \div EntryWords) * EntryWords <= Len(b \o rest)
  <2>1. (n \div EntryWords) * EntryWords \in Int
    BY <1>6, Geometry, SMTT(30)
  <2> DEFINE m == (n \div EntryWords) * EntryWords
             l == Len(b \o rest)
  <2> HIDE DEF m, l
  <2>2. m <= n /\ m \in Int /\ l = IF n <= Len(d.dirs) THEN Len(d.dirs) ELSE n
    BY <1>4, <1>6, <2>1 DEF m, l
  <2>3. l <= SectorSize /\ m <= l
    BY <1>1, <1>2, <2>2
  <2>. QED BY <2>3 DEF m, l
<1>. QED BY <1>1, <1>2, <1>6, <1>7, <1>8 DEF CursorsFit

\* An entry that is read lies in the array, and so does the cursor behind it.
LEMMA EntryRead ==
    ASSUME Given, NEW d \in Readers, CursorsFit(d), HasEntry(d)
    PROVE  /\ After(d) \in Readers /\ CursorsFit(After(d))
           /\ EntryInr(d) \in Word /\ EntryName(d) \in Word
<1> DEFINE f == Filled(d)
<1>1. f \in Readers /\ CursorsFit(f) /\ (f.cur < f.last \/ f.last = 0)
  <2>1. CASE d.cur = d.last
    <3>1. f = Refill(d)
      BY <2>1 DEF Filled
    <3>2. Refill(d) \in Readers /\ CursorsFit(Refill(d)) /\ Refill(d).cur = 0
      BY <2>1, Refilled DEF HasEntry
    <3>3. Refill(d).last \in Nat
      BY <3>2 DEF Readers
    <3>. QED BY <3>1, <3>2, <3>3
  <2>2. CASE d.cur # d.last
    <3>1. f = d
      BY <2>2 DEF Filled
    <3>2. d.cur \in Nat /\ d.last \in Nat
      BY DEF Readers
    <3>. QED BY <2>2, <3>1, <3>2 DEF CursorsFit
  <2>. QED BY <2>1, <2>2
<1>2. (f.cur + 1) * EntryWords <= Len(f.dirs)
  BY DEF HasEntry
<1>3. /\ f.inode \in StoredInode /\ f.off \in Nat /\ f.dirs \in Seq(Word) /\ f.cur \in Nat
      /\ f.last \in Nat /\ Len(f.dirs) \in Nat
  BY <1>1 DEF Readers
<1>4. After(d) = [f EXCEPT !.cur = f.cur + 1]
  BY DEF After
<1>5. EntryInr(d) = f.dirs[f.cur * EntryWords + 1] /\ EntryName(d) = f.dirs[f.cur * EntryWords + 2]
  BY DEF EntryInr, EntryName
<1> HIDE DEF f
<1>6. /\ After(d).inode = f.inode /\ After(d).off = f.off /\ After(d).dirs = f.dirs
      /\ After(d).last = f.last /\ After(d).cur = f.cur + 1 /\ After(d) \in Readers
  <2>1. f = [inode |-> f.inode, off |-> f.off, dirs |-> f.dirs, cur |-> f.cur, last |-> f.last]
    BY <1>1 DEF Readers
  <2>2. After(d) = [inode |-> f.inode, off |-> f.off, dirs |-> f.dirs, cur |-> f.cur + 1,
                    last |-> f.last]
    BY <1>4, <2>1
  <2>3. f.cur + 1 \in Nat
    BY <1>3
  <2>. QED BY <1>3, <2>2, <2>3 DEF Readers
<1>7. f.cur + 1 <= f.last \/ (f.last = 0 /\ (f.cur + 1) * EntryWords <= Len(f.dirs))
  BY <1>1, <1>2, <1>3
<1>8. CursorsFit(After(d))
  BY <1>1, <1>6, <1>7 DEF CursorsFit
<1>9. f.cur * EntryWords + 1 \in 1 .. Len(f.dirs) /\ f.cur * EntryWords + 2 \in 1 .. Len(f.dirs)
  <2>1. f.cur * EntryWords \in Nat /\ (f.cur + 1) * EntryWords = f.cur * EntryWords + EntryWords
    BY <1>3, Geometry, SMTT(30)
  <2> DEFINE x == f.cur * EntryWords
  <2>2. x \in Nat /\ x + EntryWords <= Len(f.dirs) /\ EntryWords >= 2 /\ EntryWords \in Nat
    BY <1>2, <2>1, Geometry
  <2> HIDE DEF x
  <2>3. x + 1 \in 1 .. Len(f.dirs) /\ x + 2 \in 1 .. Len(f.dirs)
    BY <1>3, <2>2
  <2>. QED BY <2>3 DEF x
<1>. QED BY <1>3, <1>5, <1>6, <1>8, <1>9

-----------------------------------------------------------------------------------
(* The stack of direntv6_print_tree. *)

StackOK(s) ==
    /\ s \in Seq(Frames) /\ Len(s) <= StackDepth
    /\ \A k \in DOMAIN s : CursorsFit(s[k].reader) /\ Len(s[k].path) = k - 1

\* A call of the recursion stays within the stack.
LEMMA Pushed ==
    ASSUME NEW s, StackOK(s), Len(s) < StackDepth,
           NEW f \in Frames, CursorsFit(f.reader), Len(f.path) = Len(s)
    PROVE  StackOK(Append(s, f)) /\ Append(s, f) # << >> /\ Len(Append(s, f)) = Len(s) + 1
<1>1. s \in Seq(Frames) /\ Len(s) \in Nat /\ DOMAIN s = 1 .. Len(s)
  BY DEF StackOK
<1>2. /\ Append(s, f) \in Seq(Frames) /\ Append(s, f) # << >> /\ Len(Append(s, f)) = Len(s) + 1
      /\ \A i \in 1 .. Len(s) : Append(s, f)[i] = s[i]
      /\ Append(s, f)[Len(s) + 1] = f
  BY <1>1, AppendProperties
<1>3. DOMAIN Append(s, f) = 1 .. Len(s) + 1
  BY <1>1
<1>4. ASSUME NEW k \in 1 .. Len(s) + 1
      PROVE  CursorsFit(Append(s, f)[k].reader) /\ Len(Append(s, f)[k].path) = k - 1
  <2>1. CASE k \in 1 .. Len(s)
    BY <1>1, <1>2, <2>1 DEF StackOK
  <2>2. CASE k = Len(s) + 1
    <3>1. Append(s, f)[k] = f /\ k - 1 = Len(s)
      BY <1>1, <1>2, <2>2
    <3>. QED BY <3>1
  <2>. QED BY <1>1, <2>1, <2>2
<1>5. Len(s) + 1 <= StackDepth
  BY <1>1, Geometry
<1>. QED BY <1>2, <1>3, <1>4, <1>5 DEF StackOK

\* So does the return from one.
LEMMA Popped ==
    ASSUME NEW s, StackOK(s), s # << >>
    PROVE  /\ StackOK(Front(s)) /\ Len(Front(s)) = Len(s) - 1 /\ Len(s) \in Nat \ {0}
           /\ Last(s) \in Frames /\ CursorsFit(Last(s).reader) /\ Len(Last(s).path) = Len(s) - 1
<1>1. s \in Seq(Frames) /\ Len(s) \in Nat \ {0} /\ DOMAIN s = 1 .. Len(s) /\ Len(s) <= StackDepth
  <2>1. s \in Seq(Frames) /\ Len(s) <= StackDepth
    BY DEF StackOK
  <2>. QED BY <2>1, EmptySeq
<1>2. Last(s) = s[Len(s)] /\ Front(s) = SubSeq(s, 1, Len(s) - 1)
  BY DEF Last, Front
<1>3. Last(s) \in Frames /\ CursorsFit(Last(s).reader) /\ Len(Last(s).path) = Len(s) - 1
  <2>1. Len(s) \in 1 .. Len(s)
    BY <1>1
  <2>2. s[Len(s)] \in Frames
    BY <1>1, <2>1, ElementOfSeq
  <2>3. CursorsFit(s[Len(s)].reader) /\ Len(s[Len(s)].path) = Len(s) - 1
    BY <1>1, <2>1 DEF StackOK
  <2>. QED BY <1>2, <2>2, <2>3
<1>4. /\ Front(s) \in Seq(Frames) /\ Len(Front(s)) = Len(s) - 1
      /\ \A i \in 1 .. Len(s) - 1 : Front(s)[i] = s[i]
  <2>1. \A i \in 1 .. Len(s) - 1 : s[i] \in Frames
    BY <1>1
  <2>2. /\ SubSeq(s, 1, Len(s) - 1) \in Seq(Frames)
        /\ Len(SubSeq(s, 1, Len(s) - 1)) = IF 1 <= Len(s) - 1 THEN (Len(s) - 1) - 1 + 1 ELSE 0
        /\ \A i \in 1 .. (Len(s) - 1) - 1 + 1 : SubSeq(s, 1, Len(s) - 1)[i] = s[1 + i - 1]
    <3>1. Len(s) - 1 \in Int /\ 1 \in Int
      BY <1>1
    <3>. QED BY <2>1, <3>1, SubSeqProperties
  <2>3. (Len(s) - 1) - 1 + 1 = Len(s) - 1 /\ \A i \in 1 .. Len(s) - 1 : 1 + i - 1 = i
    BY <1>1
  <2>. QED BY <1>1, <1>2, <2>2, <2>3
<1>5. DOMAIN Front(s) = 1 .. Len(s) - 1
  BY <1>4, LenProperties
<1>6. Len(s) - 1 <= StackDepth
  BY <1>1, Geometry
<1>7. \A k \in 1 .. Len(s) - 1 : CursorsFit(s[k].reader) /\ Len(s[k].path) = k - 1
  BY <1>1 DEF StackOK
<1>8. Front(s) \in Seq(Frames) /\ Len(Front(s)) <= StackDepth
  BY <1>4, <1>6
<1>9. \A k \in DOMAIN Front(s) : CursorsFit(Front(s)[k].reader) /\ Len(Front(s)[k].path) = k - 1
  BY <1>4, <1>5, <1>7
<1>. QED BY <1>1, <1>3, <1>4, <1>8, <1>9 DEF StackOK

\* The call under way, and what it becomes when it has taken its next entry.
LEMMA TheTop ==
    ASSUME Given, TypeOK, InTree
    PROVE  /\ stack # << >> /\ StackOK(stack) /\ Len(stack) \in Nat \ {0}
           /\ Top \in Frames /\ Top.reader \in Readers /\ CursorsFit(Top.reader)
           /\ StackOK(Front(stack)) /\ Len(Front(stack)) = Len(stack) - 1
           /\ Len(Top.path) = Len(stack) - 1
           /\ HasEntry(Top.reader) =>
                 /\ StackOK(Append(Front(stack), TopAfter))
                 /\ Append(Front(stack), TopAfter) # << >>
                 /\ Len(Append(Front(stack), TopAfter)) = Len(stack)
                 /\ ChildPath \in Seq(Word) /\ Len(ChildPath) = Len(stack)
<1>1. stack # << >> /\ StackOK(stack)
  <2>1. stack # << >>
    BY DEF TypeOK, InTree
  <2>2. StackOK(stack)
    BY DEF TypeOK, StackOK
  <2>. QED BY <2>1, <2>2
<1>2. /\ StackOK(Front(stack)) /\ Len(Front(stack)) = Len(stack) - 1 /\ Len(stack) \in Nat \ {0}
      /\ Top \in Frames /\ CursorsFit(Top.reader) /\ Len(Top.path) = Len(stack) - 1
  BY <1>1, Popped DEF Top
<1>3. Top.reader \in Readers /\ Top.path \in Seq(Word)
  BY <1>2 DEF Frames, Readers
<1>4. ASSUME HasEntry(Top.reader)
      PROVE  /\ StackOK(Append(Front(stack), TopAfter))
             /\ Append(Front(stack), TopAfter) # << >>
             /\ Len(Append(Front(stack), TopAfter)) = Len(stack)
             /\ ChildPath \in Seq(Word) /\ Len(ChildPath) = Len(stack)
  <2>1. /\ After(Top.reader) \in Readers /\ CursorsFit(After(Top.reader))
        /\ EntryName(Top.reader) \in Word
    BY <1>2, <1>3, <1>4, EntryRead
  <2>2. TopAfter \in Frames /\ TopAfter.reader = After(Top.reader) /\ TopAfter.path = Top.path
    <3>1. Top = [path |-> Top.path, reader |-> Top.reader, shown |-> Top.shown]
      BY <1>2 DEF Frames
    <3>2. TopAfter = [path |-> Top.path, reader |-> After(Top.reader), shown |-> TRUE]
      <4>1. TopAfter = [Top EXCEPT !.reader = After(Top.reader), !.shown = TRUE]
        BY DEF TopAfter
      <4>. QED BY <3>1, <4>1
    <3>. QED BY <1>3, <2>1, <3>2 DEF Frames, Readers
  <2>3. Len(Front(stack)) < StackDepth /\ Len(stack) <= StackDepth
    BY <1>1, <1>2, Geometry DEF StackOK
  <2>4. /\ StackOK(Append(Front(stack), TopAfter)) /\ Append(Front(stack), TopAfter) # << >>
        /\ Len(Append(Front(stack), TopAfter)) = Len(Front(stack)) + 1
    BY <1>2, <2>1, <2>2, <2>3, Pushed
  <2>5. ChildPath \in Seq(Word) /\ Len(ChildPath) = Len(Top.path) + 1
    BY <1>3, <2>1, AppendProperties DEF ChildPath
  <2>. QED BY <1>2, <2>4, <2>5
<1>. QED BY <1>1, <1>2, <1>3, <1>4

\* The lines of `tree'.
LEMMA TreeLines ==
    ASSUME Given, TypeOK, InTree
    PROVE  /\ lines \o Heading \in Seq(Printed)
           /\ HasEntry(Top.reader) =>
                 lines \o Heading \o <<Line("file", ChildPath)>> \in Seq(Printed)
<1>1. lines \in Seq(Printed) /\ Top.path \in Seq(Word)
  BY TheTop DEF TypeOK, Frames
<1>2. \A p \in Seq(Word) : Line("dir", p) \in Printed /\ Line("file", p) \in Printed
  BY DEF Line, Printed
<1>3. Heading \in Seq(Printed)
  BY <1>1, <1>2 DEF Heading
<1>4. lines \o Heading \in Seq(Printed)
  BY <1>1, <1>3, ConcatProperties
<1>5. ASSUME HasEntry(Top.reader)
      PROVE  lines \o Heading \o <<Line("file", ChildPath)>> \in Seq(Printed)
  <2>1. Line("file", ChildPath) \in Printed
    BY <1>2, <1>5, TheTop
  <2>2. <<Line("file", ChildPath)>> \in Seq(Printed)
    BY <2>1
  <2>. QED BY <1>4, <2>2, ConcatProperties
<1>. QED BY <1>4, <1>5

-----------------------------------------------------------------------------------
(* The invariant.  ListingsAgree is about a listing that has ended; Scanning says   *)
(* how far it has come before.                                                     *)

\* A line of shafiles.
ShaLine(l) ==
    LET i == image.itab[l.inr]
    IN  l.kind = i.mode /\ (i.mode = "file" => l.content = Content(i, 0, HashedLength(i)))

\* A line of `inode'.
InodeLine(l) ==
    LET i == image.itab[l.inr] IN l.kind = i.mode /\ l.size = i.size

\* Where `shafiles' stops with an error.
StoppedAt(n, r) ==
    /\ n \in AllocatedAmong(InodeNumbers) /\ image.itab[n].mode = "file"
    /\ r # ERR_UNALLOCATED_INODE /\ FirstError(image.itab[n], r)

Scanning ==
    /\ command.op = "inode" =>
          /\ InodesUpto(next) /\ next <= LastListed + 1
          /\ pc = "ended" => ret = ERR_NONE /\ next = LastListed + 1
          /\ \A k \in DOMAIN lines : InodeLine(lines[k])
    /\ command.op = "shafiles" =>
          /\ HashesUpto(next)
          /\ pc = "ended" /\ ret = ERR_NONE => next \notin InodeNumbers
          /\ pc = "ended" /\ ret # ERR_NONE => StoppedAt(next, ret)
          /\ \A k \in DOMAIN lines : ShaLine(lines[k])
    /\ pc = "astray" => command.op = "tree"

IInv == Given /\ TypeOK /\ Scanning

\* The numbers the two loops count through.
LEMMA Counts ==
    /\ InodesPerSector * s_isize \in Nat /\ InodesPerSector * s_isize >= 1
    /\ LastListed \in Nat /\ LastListed + 1 <= InodesPerSector * s_isize
<1>1. InodesPerSector * s_isize \in Nat /\ InodesPerSector * s_isize >= InodesPerSector
  BY Geometry, SMTT(30)
<1>2. InodesPerSector * (s_isize - 1) \in Nat
      /\ InodesPerSector * (s_isize - 1) = InodesPerSector * s_isize - InodesPerSector
  BY Geometry, SMTT(30)
<1>3. InodesPerSector \in Nat /\ InodesPerSector >= 1
  BY Geometry
<1>. QED BY <1>1, <1>2, <1>3 DEF LastListed

\* The invariant holds before the first call.
LEMMA Starts == Init => IInv
<1> SUFFICES ASSUME Init PROVE IInv
  OBVIOUS
<1>1. Given /\ next = 1 /\ lines = << >>
  BY DEF Init, Given
<1>2. ret = IF command.op = "tree" THEN opendir(image, ROOT_INUMBER) ELSE ERR_NONE
  BY DEF Init
<1>3. pc = IF ret = ERR_NONE THEN "running" ELSE "ended"
  BY DEF Init
<1>4. stack = IF command.op = "tree" /\ pc = "running"
                THEN <<Frame(<< >>, ROOT_INUMBER)>> ELSE << >>
  BY DEF Init
<1>5. ret \in Int /\ ret <= ERR_NONE
  <2>1. opendir(image, ROOT_INUMBER) \in
            {inode_read(image, ROOT_INUMBER), ERR_INVALID_DIRECTORY_INODE, ERR_NONE}
    BY DEF opendir
  <2>2. opendir(image, ROOT_INUMBER) \in Int /\ opendir(image, ROOT_INUMBER) <= ERR_NONE
    BY <2>1, ReadAnswers DEF ERR_INVALID_DIRECTORY_INODE, ERR_NONE
  <2>. QED BY <1>2, <2>2 DEF ERR_NONE
<1>6. StackOK(stack) /\ (pc = "running" /\ command.op = "tree" => stack # << >>)
  <2>1. StackOK(<< >>)
    BY Geometry DEF StackOK
  <2>2. CASE command.op = "tree" /\ pc = "running"
    <3>1. opendir(image, ROOT_INUMBER) = ERR_NONE
      BY <1>2, <1>3, <2>2
    <3>2. inode_read(image, ROOT_INUMBER) = ERR_NONE /\ image.itab[ROOT_INUMBER].mode = "dir"
      BY <3>1 DEF opendir, ERR_INVALID_DIRECTORY_INODE, ERR_NONE
    <3>3. Reader(ROOT_INUMBER) \in Readers /\ CursorsFit(Reader(ROOT_INUMBER))
      BY <1>1, <3>2, Opened
    <3> DEFINE f == Frame(<< >>, ROOT_INUMBER)
    <3>4. f \in Frames /\ f.reader = Reader(ROOT_INUMBER) /\ f.path = << >>
      BY <3>3 DEF Frame, Frames, Readers
    <3> HIDE DEF f
    <3>5. Len(<< >>) = 0 /\ 0 < StackDepth /\ Append(<< >>, f) = <<f>>
      BY Geometry
    <3>6. StackOK(<<f>>) /\ <<f>> # << >>
      BY <2>1, <3>3, <3>4, <3>5, Pushed
    <3>. QED BY <1>4, <2>2, <3>6 DEF f
  <2>. QED BY <1>4, <2>1, <2>2
<1>7. TypeOK
  <2>1. lines \in Seq(Printed) /\ next \in 1 .. InodesPerSector * s_isize
    BY <1>1, Counts
  <2>2. pc \in {"running", "ended", "killed", "astray"}
    BY <1>3
  <2>. QED BY <1>5, <1>6, <2>1, <2>2 DEF TypeOK, StackOK
<1>8. InodesUpto(1) /\ HashesUpto(1) /\ 1 <= LastListed + 1
  <2>1. Ascending /\ Numbers = {} /\ AllocatedAmong(1 .. 1 - 1) = {}
    BY <1>1 DEF Ascending, Numbers, AllocatedAmong
  <2>2. Hashable(1 .. 1 - 1) = {}
    BY <2>1 DEF Hashable
  <2>. QED BY <2>1, <2>2, Counts DEF InodesUpto, HashesUpto
<1>9. Scanning
  <2>1. command.op # "tree" => ret = ERR_NONE /\ pc = "running"
    BY <1>2, <1>3
  <2>2. DOMAIN lines = {}
    BY <1>1
  <2>. QED BY <1>1, <1>8, <2>1, <2>2 DEF Scanning
<1>. QED BY <1>1, <1>7, <1>9 DEF IInv

\* What every step leaves alone.
LEMMA Same ==
    ASSUME Given, UNCHANGED <<image, command>>
    PROVE  Given'
BY DEF Given

\* A step of `tree' has nothing to do with the scans.
LEMMA TreeOnly ==
    ASSUME command.op = "tree", UNCHANGED command
    PROVE  Scanning'
BY DEF Scanning

\* Each step of `tree' but the last.
LEMMA TreeGoesOn ==
    ASSUME IInv, TreeFile \/ TreeDescends \/ TreeReturns
    PROVE  IInv'
<1> USE DEF IInv
<1>1. InTree /\ UNCHANGED <<image, command, next, ret>>
  BY DEF TreeFile, TreeDescends, TreeReturns
<1>2. Given' /\ Scanning'
  BY <1>1, Same, TreeOnly DEF InTree
<1>3. /\ next' \in 1 .. InodesPerSector * s_isize /\ ret' \in Int /\ ret' <= ERR_NONE
  BY <1>1 DEF TypeOK
<1>4. StackOK(<< >>)
  BY Geometry DEF StackOK
<1>5. CASE TreeFile
  <2>1. /\ HasEntry(Top.reader) /\ stack' = Append(Front(stack), TopAfter) /\ pc' = pc
        /\ lines' = lines \o Heading \o <<Line("file", ChildPath)>>
    BY <1>5 DEF TreeFile
  <2>2. StackOK(stack') /\ stack' # << >>
    BY <1>1, <2>1, TheTop
  <2>3. lines' \in Seq(Printed)
    BY <1>1, <2>1, TreeLines
  <2>4. TypeOK'
    BY <1>3, <2>1, <2>2, <2>3 DEF TypeOK, StackOK
  <2>. QED BY <1>2, <2>4
<1>6. CASE TreeDescends
  <2> DEFINE f == Frame(ChildPath, ChildInr)
             s == Append(Front(stack), TopAfter)
  <2>1. /\ HasEntry(Top.reader) /\ inode_read(image, ChildInr) = ERR_NONE
        /\ image.itab[ChildInr].mode = "dir" /\ lines' = lines \o Heading
        /\ \/ /\ Len(stack) < StackDepth
              /\ stack' = Front(stack) \o <<TopAfter, Frame(ChildPath, ChildInr)>> /\ pc' = pc
           \/ stack' = << >> /\ pc' = "killed"
    BY <1>6 DEF TreeDescends, Unwind
  <2>2. /\ StackOK(s) /\ Len(s) = Len(stack) /\ ChildPath \in Seq(Word)
        /\ Len(ChildPath) = Len(stack)
    BY <1>1, <2>1, TheTop
  <2>3. Reader(ChildInr) \in Readers /\ CursorsFit(Reader(ChildInr))
    BY <2>1, Opened
  <2>4. f \in Frames /\ f.reader = Reader(ChildInr) /\ f.path = ChildPath
    BY <2>2, <2>3 DEF Frame, Frames, Readers
  <2>5. ASSUME Len(stack) < StackDepth,
               stack' = Front(stack) \o <<TopAfter, Frame(ChildPath, ChildInr)>>
        PROVE  StackOK(stack') /\ stack' # << >>
    <3>1. Front(stack) \in Seq(Frames)
      BY <1>1, TheTop DEF StackOK
    <3>2. TopAfter \in Frames
      <4>1. s \in Seq(Frames) /\ Len(s) \in 1 .. Len(s) /\ s[Len(s)] = TopAfter
        BY <2>2, <3>1, TheTop, <1>1, <2>1 DEF StackOK
      <4>. QED BY <4>1, ElementOfSeq
    <3> HIDE DEF f
    <3>3. Front(stack) \o <<TopAfter, f>> = Append(s, f)
      BY <2>4, <3>1, <3>2
    <3> HIDE DEF s
    <3>4. StackOK(Append(s, f)) /\ Append(s, f) # << >>
      BY <2>2, <2>3, <2>4, <2>5, Pushed
    <3>. QED BY <2>5, <3>3, <3>4 DEF f
  <2>6. lines' \in Seq(Printed)
    BY <1>1, <2>1, TreeLines
  <2>7. StackOK(stack') /\ (pc' = "running" => stack' # << >>)
    BY <1>4, <2>1, <2>5
  <2>8. pc' \in {"running", "killed"}
    BY <1>1, <2>1 DEF InTree
  <2>9. TypeOK'
    BY <1>3, <2>6, <2>7, <2>8 DEF TypeOK, StackOK
  <2>. QED BY <1>2, <2>9
<1>7. CASE TreeReturns
  <2>1. /\ lines' = lines \o Heading /\ stack' = Front(stack)
        /\ pc' = IF stack' = << >> THEN "ended" ELSE pc
    BY <1>7 DEF TreeReturns
  <2>2. StackOK(stack') /\ lines' \in Seq(Printed)
    BY <1>1, <2>1, TheTop, TreeLines
  <2>3. pc' \in {"running", "ended"} /\ (pc' = "running" => stack' # << >>)
    BY <1>1, <2>1 DEF InTree
  <2>4. TypeOK'
    BY <1>3, <2>2, <2>3 DEF TypeOK, StackOK
  <2>. QED BY <1>2, <2>4
<1>. QED BY <1>5, <1>6, <1>7

\* The steps that end it all.
LEMMA TreeStops ==
    ASSUME IInv, TreeFails \/ TreeStrays
    PROVE  IInv'
<1> USE DEF IInv
<1>1. InTree /\ UNCHANGED <<image, command, next>> /\ stack' = << >> /\ pc' \in {"ended", "astray"}
  BY DEF TreeFails, TreeStrays, Unwind
<1>2. Given' /\ Scanning'
  BY <1>1, Same, TreeOnly DEF InTree
<1>3. StackOK(<< >>)
  BY Geometry DEF StackOK
<1>4. next' \in 1 .. InodesPerSector * s_isize
  BY <1>1 DEF TypeOK
<1>5. lines' \in Seq(Printed) /\ ret' \in Int /\ ret' <= ERR_NONE
  <2>1. CASE TreeStrays
    BY <2>1 DEF TreeStrays, TypeOK
  <2>2. CASE TreeFails /\ Unreadable(Top.reader) /\ lines' = lines
             /\ ret' = BlockSector(Top.reader.inode, Top.reader.off)
    <3>1. BlockSector(Top.reader.inode, Top.reader.off) < 0
      BY <2>2 DEF Unreadable
    <3>2. Top.reader.inode \in StoredInode /\ Top.reader.off \in Int
      <4>1. Top.reader \in Readers
        BY <1>1, TheTop
      <4>. QED BY <4>1 DEF Readers
    <3>3. BlockSector(Top.reader.inode, Top.reader.off) \in Int
      BY <3>2, BlockSectorType
    <3>. QED BY <2>2, <3>1, <3>3 DEF TypeOK, ERR_NONE
  <2>3. CASE TreeFails /\ HasEntry(Top.reader) /\ lines' = lines \o Heading
             /\ ret' = inode_read(image, ChildInr)
    BY <1>1, <2>3, TreeLines, ReadAnswers
  <2>. QED BY <2>1, <2>2, <2>3 DEF TreeFails
<1>6. TypeOK'
  BY <1>1, <1>3, <1>4, <1>5 DEF TypeOK, StackOK
<1>. QED BY <1>2, <1>6

\* The lines are about the image, which stays.
LEMMA LinesStay ==
    ASSUME UNCHANGED image
    PROVE  /\ (\A k \in DOMAIN lines' : ShaLine(lines'[k])) => \A k \in DOMAIN lines' : ShaLine(lines[k])'
           /\ (\A k \in DOMAIN lines' : InodeLine(lines'[k]))
                  => \A k \in DOMAIN lines' : InodeLine(lines[k])'
<1>1. ASSUME NEW l PROVE (ShaLine(l)' <=> ShaLine(l)) /\ (InodeLine(l)' <=> InodeLine(l))
  <2>1. \A i, off : BlockSector(i, off)' = BlockSector(i, off)
    BY DEF BlockSector
  <2>2. ASSUME NEW i, NEW n PROVE Content(i, 0, n)' = Content(i, 0, n)
    BY <2>1 DEF Content
  <2>. QED BY <2>2 DEF ShaLine, InodeLine
<1>2. ASSUME NEW k \in DOMAIN lines'
      PROVE  (ShaLine(lines'[k]) => ShaLine(lines[k])') /\ (InodeLine(lines'[k]) => InodeLine(lines[k])')
  <2> PICK l : l = lines'[k]
    OBVIOUS
  <2>. QED BY <1>1
<1>. QED BY <1>2

\* One more line.
LEMMA Appended ==
    ASSUME lines \in Seq(Printed), NEW l \in Printed, lines' = Append(lines, l)
    PROVE  /\ lines' \in Seq(Printed) /\ DOMAIN lines' = 1 .. Len(lines) + 1 /\ Len(lines) \in Nat
           /\ \A k \in 1 .. Len(lines) : lines'[k] = lines[k] /\ k \in DOMAIN lines
           /\ lines'[Len(lines) + 1] = l
<1>1. /\ Append(lines, l) \in Seq(Printed) /\ Len(Append(lines, l)) = Len(lines) + 1
      /\ \A k \in 1 .. Len(lines) : Append(lines, l)[k] = lines[k]
      /\ Append(lines, l)[Len(lines) + 1] = l
  BY AppendProperties
<1>2. Len(lines) \in Nat /\ DOMAIN lines = 1 .. Len(lines)
  OBVIOUS
<1>3. DOMAIN Append(lines, l) = 1 .. Len(Append(lines, l))
  BY <1>1, LenProperties
<1>. QED BY <1>1, <1>2, <1>3

\* A round of `inode'.
LEMMA ScanGoesOn ==
    ASSUME IInv, ScanInode
    PROVE  IInv'
<1> USE DEF IInv
<1>1. /\ pc = "running" /\ command.op = "inode" /\ UNCHANGED <<image, command, stack>>
      /\ \/ next > LastListed /\ pc' = "ended" /\ ret' = ERR_NONE /\ UNCHANGED <<next, lines>>
         \/ /\ ~(next > LastListed) /\ next' = next + 1 /\ UNCHANGED <<pc, ret>>
            /\ lines' = LET i == image.itab[next]
                        IN  IF inode_read(image, next) = ERR_NONE
                              THEN Append(lines, [inr |-> next, kind |-> i.mode, size |-> i.size])
                              ELSE lines
  BY DEF ScanInode, Running, Answer, NextNumber
<1>2. Given'
  BY <1>1, Same
<1>3. /\ StackOK(stack) /\ lines \in Seq(Printed) /\ next \in 1 .. InodesPerSector * s_isize
      /\ InodesPerSector * s_isize \in Nat /\ LastListed \in Nat
      /\ LastListed + 1 <= InodesPerSector * s_isize
      /\ ret \in Int /\ ret <= ERR_NONE /\ next \in Nat /\ next >= 1
  BY Counts DEF TypeOK, StackOK
<1>4. InodesUpto(next) /\ next <= LastListed + 1 /\ \A k \in DOMAIN lines : InodeLine(lines[k])
  BY <1>1 DEF Scanning
\* The number as it is before the step.
<1> PICK n \in Nat : n = next
  BY <1>3
<1>5. CASE next > LastListed /\ pc' = "ended" /\ ret' = ERR_NONE /\ UNCHANGED <<next, lines>>
  <2>1. next' = LastListed + 1
    BY <1>3, <1>4, <1>5
  <2>2. InodesUpto(next)'
    BY <1>1, <1>4, <1>5, NumbersStay DEF InodesUpto, Ascending, Numbers
  <2>3. \A k \in DOMAIN lines' : InodeLine(lines[k])'
    BY <1>1, <1>4, <1>5, LinesStay
  <2>4. Scanning'
    BY <1>1, <1>3, <1>5, <2>1, <2>2, <2>3 DEF Scanning
  <2>5. TypeOK'
    BY <1>1, <1>3, <1>5 DEF TypeOK, StackOK, ERR_NONE
  <2>. QED BY <1>2, <2>4, <2>5
<1>6. CASE /\ ~(next > LastListed) /\ next' = next + 1 /\ UNCHANGED <<pc, ret>>
           /\ inode_read(image, next) = ERR_NONE
  <2> DEFINE i == image.itab[next]
             l == [inr |-> next, kind |-> i.mode, size |-> i.size]
  <2>1. lines' = Append(lines, l)
    BY <1>1, <1>6
  <2>2. l \in Printed
    <3>1. next \in InodeNumbers /\ i \in StoredInode /\ i.mode \in {"file", "dir"}
      BY <1>6, Readable
    <3>2. i.size \in Nat
      BY <3>1 DEF StoredInode
    <3>. QED BY <3>1, <3>2 DEF Printed
  <2>3. l.inr = next /\ InodeLine(l)
    BY DEF InodeLine
  <2> HIDE DEF l
  <2>4. /\ lines' \in Seq(Printed) /\ DOMAIN lines' = 1 .. Len(lines) + 1 /\ Len(lines) \in Nat
        /\ \A k \in 1 .. Len(lines) : lines'[k] = lines[k] /\ k \in DOMAIN lines
        /\ lines'[Len(lines) + 1] = l
    BY <1>3, <2>1, <2>2, Appended
  <2>5. InodesUpto(n + 1)'
    BY <1>1, <1>3, <1>4, <1>6, <2>1, <2>2, <2>3, InodesGoOn
  <2>6. InodesUpto(next)' /\ next' <= LastListed + 1 /\ next' \in 1 .. InodesPerSector * s_isize
    BY <1>3, <1>6, <2>5
  <2>7. \A k \in DOMAIN lines' : InodeLine(lines[k])'
    <3>1. \A k \in DOMAIN lines' : InodeLine(lines'[k])
      BY <1>4, <2>3, <2>4
    <3>. QED BY <1>1, <3>1, LinesStay
  <2>8. Scanning'
    BY <1>1, <1>6, <2>6, <2>7 DEF Scanning
  <2>9. TypeOK'
    BY <1>1, <1>3, <1>6, <2>4, <2>6 DEF TypeOK, StackOK
  <2>. QED BY <1>2, <2>8, <2>9
<1>7. CASE /\ ~(next > LastListed) /\ next' = next + 1 /\ UNCHANGED <<pc, ret>>
           /\ inode_read(image, next) # ERR_NONE
  <2>1. lines' = lines
    BY <1>1, <1>7
  <2>2. InodesUpto(n + 1)'
    BY <1>1, <1>3, <1>4, <1>7, <2>1, InodesGoOn
  <2>3. InodesUpto(next)' /\ next' <= LastListed + 1 /\ next' \in 1 .. InodesPerSector * s_isize
    BY <1>3, <1>7, <2>2
  <2>4. \A k \in DOMAIN lines' : InodeLine(lines[k])'
    BY <1>1, <1>4, <2>1, LinesStay
  <2>5. Scanning'
    BY <1>1, <1>7, <2>3, <2>4 DEF Scanning
  <2>6. TypeOK'
    BY <1>1, <1>3, <1>7, <2>1, <2>3 DEF TypeOK, StackOK
  <2>. QED BY <1>2, <2>5, <2>6
<1>. QED BY <1>1, <1>5, <1>6, <1>7

\* A round of shafiles.
LEMMA ShaGoesOn ==
    ASSUME IInv, ShaFile
    PROVE  IInv'
<1> USE DEF IInv
<1> DEFINE i == image.itab[next]
           r == utils_print_shafile(next)
           content == IF i.mode = "file" THEN Hashed(i) ELSE << >>
           l == [inr |-> next, kind |-> i.mode, content |-> content]
<1>1. /\ pc = "running" /\ command.op = "shafiles" /\ next \in InodeNumbers
      /\ UNCHANGED <<image, command, stack>>
      /\ \/ /\ r = ERR_NONE /\ lines' = Append(lines, l)
            /\ next' = next + 1 /\ UNCHANGED <<pc, ret>>
         \/ r = ERR_UNALLOCATED_INODE /\ next' = next + 1 /\ UNCHANGED <<lines, pc, ret>>
         \/ /\ r \notin {ERR_NONE, ERR_UNALLOCATED_INODE}
            /\ pc' = "ended" /\ ret' = r /\ UNCHANGED <<next, lines>>
  BY DEF ShaFile, Running, Answer, NextNumber
<1>2. /\ StackOK(stack) /\ lines \in Seq(Printed) /\ next \in 1 .. InodesPerSector * s_isize
      /\ InodesPerSector * s_isize \in Nat /\ next \in Nat /\ next >= 1
      /\ ret \in Int /\ ret <= ERR_NONE /\ next \in InodeNumbers \ {0}
  BY <1>1, Counts DEF TypeOK, StackOK
<1>3. HashesUpto(next) /\ \A k \in DOMAIN lines : ShaLine(lines[k])
  BY <1>1 DEF Scanning
<1>4. /\ r = ERR_NONE =>
             /\ inode_read(image, next) = ERR_NONE /\ ~Misread(next)
             /\ i.mode = "file" => BadBlocks(i) = {}
      /\ r = ERR_UNALLOCATED_INODE => ~(inode_read(image, next) = ERR_NONE /\ ~Misread(next))
      /\ r \notin {ERR_NONE, ERR_UNALLOCATED_INODE} =>
             /\ inode_read(image, next) = ERR_NONE /\ i.mode = "file"
             /\ r \in Int /\ r < 0 /\ FirstError(i, r)
  BY <1>2, ShaAnswers
<1> HIDE DEF r
<1>5. ASSUME next' = next + 1 PROVE next' \in 1 .. InodesPerSector * s_isize
  BY <1>2, <1>5 DEF InodeNumbers
<1> PICK n \in Nat : n = next
  BY <1>2
<1>6. CASE /\ r = ERR_NONE /\ lines' = Append(lines, l)
           /\ next' = next + 1 /\ UNCHANGED <<pc, ret>>
  <2>1. i \in StoredInode /\ i.mode \in {"file", "dir"}
    BY <1>4, <1>6, Readable
  <2>2. /\ content \in Seq(Word)
        /\ i.mode = "file" => content = Content(i, 0, HashedLength(i))
    <3>1. CASE i.mode = "file"
      <4>1. Hashed(i) = Content(i, 0, HashedLength(i)) /\ Hashed(i) \in Seq(Word)
        BY <1>4, <1>6, <2>1, <3>1, HashedIsContent
      <4>. QED BY <3>1, <4>1
    <3>2. CASE ~(i.mode = "file")
      <4>1. content = << >>
        BY <3>2
      <4>. QED BY <3>2, <4>1
    <3>. QED BY <3>1, <3>2
  <2> HIDE DEF content
  <2>3. l \in Printed /\ l.inr = next /\ ShaLine(l)
    BY <1>1, <2>1, <2>2 DEF Printed, ShaLine
  <2> HIDE DEF l
  <2>4. /\ lines' \in Seq(Printed) /\ DOMAIN lines' = 1 .. Len(lines) + 1 /\ Len(lines) \in Nat
        /\ \A k \in 1 .. Len(lines) : lines'[k] = lines[k] /\ k \in DOMAIN lines
        /\ lines'[Len(lines) + 1] = l
    BY <1>2, <1>6, <2>3, Appended
  <2>5. HashesUpto(next)'
    <3>1. HashesUpto(n + 1)'
      BY <1>1, <1>2, <1>3, <1>4, <1>6, <2>3, HashesGoOn
    <3>. QED BY <1>6, <3>1
  <2>6. \A k \in DOMAIN lines' : ShaLine(lines[k])'
    <3>1. \A k \in DOMAIN lines' : ShaLine(lines'[k])
      BY <1>3, <2>3, <2>4
    <3>. QED BY <1>1, <3>1, LinesStay
  <2>7. Scanning'
    BY <1>1, <1>6, <2>5, <2>6 DEF Scanning
  <2>8. TypeOK'
    BY <1>1, <1>2, <1>5, <1>6, <2>4 DEF TypeOK, StackOK
  <2>. QED BY <1>1, <2>7, <2>8, Same
<1>7. CASE r = ERR_UNALLOCATED_INODE /\ next' = next + 1 /\ UNCHANGED <<lines, pc, ret>>
  <2>1. HashesUpto(next)'
    <3>1. HashesUpto(n + 1)'
      BY <1>1, <1>2, <1>3, <1>4, <1>7, HashesGoOn
    <3>. QED BY <1>7, <3>1
  <2>2. \A k \in DOMAIN lines' : ShaLine(lines[k])'
    BY <1>1, <1>3, <1>7, LinesStay
  <2>3. Scanning'
    BY <1>1, <1>7, <2>1, <2>2 DEF Scanning
  <2>4. TypeOK'
    BY <1>1, <1>2, <1>5, <1>7 DEF TypeOK, StackOK
  <2>. QED BY <1>1, <2>3, <2>4, Same
<1>8. CASE /\ r \notin {ERR_NONE, ERR_UNALLOCATED_INODE}
           /\ pc' = "ended" /\ ret' = r /\ UNCHANGED <<next, lines>>
  <2>1. StoppedAt(next, r)
    BY <1>1, <1>4, <1>8 DEF StoppedAt, AllocatedAmong
  <2>2. StoppedAt(next, ret)'
    BY <1>1, <1>8, <2>1, NumbersStay DEF StoppedAt
  <2>3. HashesUpto(next)'
    BY <1>1, <1>3, <1>8, NumbersStay DEF HashesUpto, Ascending, Numbers
  <2>4. \A k \in DOMAIN lines' : ShaLine(lines[k])'
    BY <1>1, <1>3, <1>8, LinesStay
  <2>5. Scanning'
    BY <1>1, <1>4, <1>8, <2>2, <2>3, <2>4 DEF Scanning
  <2>6. TypeOK'
    BY <1>1, <1>2, <1>4, <1>8 DEF TypeOK, StackOK, ERR_NONE
  <2>. QED BY <1>1, <2>5, <2>6, Same
<1>. QED BY <1>1, <1>6, <1>7, <1>8

\* Behind the last inode.
LEMMA ShaStops ==
    ASSUME IInv, ShaEnds
    PROVE  IInv'
<1> USE DEF IInv
<1>1. /\ pc = "running" /\ command.op = "shafiles" /\ next \notin InodeNumbers
      /\ pc' = "ended" /\ ret' = ERR_NONE /\ UNCHANGED <<image, command, stack, next, lines>>
  BY DEF ShaEnds, Running, Answer
<1>2. HashesUpto(next)' /\ \A k \in DOMAIN lines' : ShaLine(lines[k])'
  BY <1>1, LinesStay, NumbersStay DEF Scanning, HashesUpto, Ascending, Numbers
<1>3. Scanning'
  BY <1>1, <1>2 DEF Scanning
<1>4. TypeOK'
  BY <1>1 DEF TypeOK, ERR_NONE
<1>. QED BY <1>1, <1>3, <1>4, Same

\* The one step of cat1.
LEMMA CatStops ==
    ASSUME IInv, CatFirst
    PROVE  IInv'
<1> USE DEF IInv
<1> DEFINE inr == command.arg % WordValues
           i == image.itab[inr]
           content == IF i.mode = "file" THEN Block(i, 0, BlockLength(i, 0)) ELSE << >>
<1>1. /\ command.op = "cat1" /\ pc' = "ended" /\ UNCHANGED <<image, command, stack, next>>
      /\ \/ ret' = ERR_BAD_PARAMETER /\ lines' = lines
         \/ ret' = inode_read(image, inr) /\ lines' = lines
         \/ /\ inode_read(image, inr) = ERR_NONE /\ BlockSector(i, 0) < 0
            /\ ret' = BlockSector(i, 0) /\ lines' = lines
         \/ /\ inode_read(image, inr) = ERR_NONE
            /\ i.mode = "dir" \/ i.size = 0 \/ BlockSector(i, 0) >= 0
            /\ ret' = ERR_NONE /\ lines' = <<[inr |-> inr, kind |-> i.mode, content |-> content]>>
  BY DEF CatFirst, Running, Answer
<1>2. /\ StackOK(stack) /\ lines \in Seq(Printed) /\ next \in 1 .. InodesPerSector * s_isize
  BY DEF TypeOK, StackOK
<1>3. Scanning'
  BY <1>1 DEF Scanning
<1>4. ASSUME inode_read(image, inr) = ERR_NONE
      PROVE  /\ i \in StoredInode /\ i.size \in Nat /\ inr \in InodeNumbers
             /\ i.mode \in {"file", "dir"} /\ BlockSector(i, 0) \in Int
  <2>1. /\ i \in StoredInode /\ inr \in InodeNumbers /\ i.mode \in {"file", "dir"}
    BY <1>4, Readable
  <2> HIDE DEF i, inr
  <2>2. BlockSector(i, 0) \in Int
    BY <2>1, BlockSectorType
  <2>. QED BY <2>1, <2>2 DEF StoredInode
<1>5. ASSUME inode_read(image, inr) = ERR_NONE,
             i.mode = "dir" \/ i.size = 0 \/ BlockSector(i, 0) >= 0
      PROVE  <<[inr |-> inr, kind |-> i.mode, content |-> content]>> \in Seq(Printed)
  <2>1. content \in Seq(Word)
    <3>1. CASE i.mode # "file"
      BY <3>1
    <3>2. CASE i.mode = "file" /\ i.size = 0
      <4>1. BlockLength(i, 0) = 0
        <5>1. BlockLength(i, 0) = Min({SectorSize, 0})
          BY <3>2 DEF BlockLength
        <5>2. Min({SectorSize, 0}) = 0
          BY Geometry, MinOfTwo
        <5>. QED BY <5>1, <5>2
      <4>2. Block(i, 0, 0) = << >>
        <5>1. 1 .. 0 = {}
          OBVIOUS
        <5>. QED BY <5>1 DEF Block
      <4>3. content = << >>
        <5> HIDE DEF i
        <5>. QED BY <3>2, <4>1, <4>2
      <4> HIDE DEF content
      <4>. QED BY <4>3
    <3>3. CASE i.mode = "file" /\ BlockSector(i, 0) >= 0
      <4> HIDE DEF i
      <4>1. ~(BlockSector(i, 0) < 0)
        BY <1>4, <1>5, <3>3
      <4>2. BlockLength(i, 0) \in 0 .. SectorSize
        <5>1. BlockLength(i, 0) = IF SectorSize <= i.size - 0 THEN SectorSize ELSE i.size - 0
          BY <1>4, <1>5, Geometry, MinOfTwo DEF BlockLength
        <5>. QED BY <1>4, <1>5, <5>1, Geometry
      <4>. QED BY <1>4, <1>5, <3>3, <4>1, <4>2, BlockType
    <3>. QED BY <1>4, <1>5, <3>1, <3>2, <3>3
  <2> HIDE DEF content, i, inr
  <2>2. [inr |-> inr, kind |-> i.mode, content |-> content] \in Printed
    BY <1>4, <1>5, <2>1 DEF Printed
  <2>. QED BY <2>2
<1>6. ret' \in Int /\ ret' <= ERR_NONE /\ lines' \in Seq(Printed)
  <2> DEFINE l == <<[inr |-> inr, kind |-> i.mode, content |-> content]>>
  <2>1. inode_read(image, inr) \in Int /\ inode_read(image, inr) <= ERR_NONE
    BY ReadAnswers
  <2> HIDE DEF content, i, inr, l
  <2>2. CASE ret' = ERR_BAD_PARAMETER /\ lines' = lines
    BY <1>2, <2>2 DEF ERR_BAD_PARAMETER, ERR_NONE
  <2>3. CASE ret' = inode_read(image, inr) /\ lines' = lines
    BY <1>2, <2>1, <2>3
  <2>4. CASE /\ inode_read(image, inr) = ERR_NONE /\ BlockSector(i, 0) < 0
             /\ ret' = BlockSector(i, 0) /\ lines' = lines
    BY <1>2, <1>4, <2>4 DEF ERR_NONE
  <2>5. CASE /\ inode_read(image, inr) = ERR_NONE
             /\ i.mode = "dir" \/ i.size = 0 \/ BlockSector(i, 0) >= 0
             /\ ret' = ERR_NONE /\ lines' = l
    <3>1. l \in Seq(Printed)
      BY <1>5, <2>5 DEF l
    <3>. QED BY <2>5, <3>1 DEF ERR_NONE
  <2>. QED BY <1>1, <2>2, <2>3, <2>4, <2>5 DEF l
<1>7. TypeOK'
  BY <1>1, <1>2, <1>6 DEF TypeOK, StackOK
<1>. QED BY <1>1, <1>3, <1>7, Same

\* Every step preserves the invariant.
LEMMA Preserved == IInv /\ [Step \/ Ended]_vars => IInv'
<1> SUFFICES ASSUME IInv, [Step \/ Ended]_vars PROVE IInv'
  OBVIOUS
<1>1. CASE TreeFile \/ TreeDescends \/ TreeReturns
  BY <1>1, TreeGoesOn
<1>2. CASE TreeFails \/ TreeStrays
  BY <1>2, TreeStops
<1>3. CASE ScanInode
  BY <1>3, ScanGoesOn
<1>4. CASE ShaFile
  BY <1>4, ShaGoesOn
<1>5. CASE ShaEnds
  BY <1>5, ShaStops
<1>6. CASE CatFirst
  BY <1>6, CatStops
<1>7. CASE UNCHANGED vars
  <2>1. Given' /\ TypeOK'
    BY <1>7 DEF IInv, vars, Given, TypeOK
  <2>2. (InodesUpto(next)' <=> InodesUpto(next)) /\ (HashesUpto(next)' <=> HashesUpto(next))
    BY <1>7, NumbersStay DEF vars, InodesUpto, HashesUpto, Ascending, Numbers
  <2>3. StoppedAt(next, ret)' <=> StoppedAt(next, ret)
    BY <1>7, NumbersStay DEF vars, StoppedAt
  <2>4. /\ (\A k \in DOMAIN lines : ShaLine(lines[k])) => \A k \in DOMAIN lines' : ShaLine(lines[k])'
        /\ (\A k \in DOMAIN lines : InodeLine(lines[k]))
               => \A k \in DOMAIN lines' : InodeLine(lines[k])'
    BY <1>7, LinesStay DEF vars
  <2>5. Scanning'
    BY <1>7, <2>2, <2>3, <2>4 DEF IInv, Scanning, vars
  <2>. QED BY <2>1, <2>5 DEF IInv
<1>. QED BY <1>1, <1>2, <1>3, <1>4, <1>5, <1>6, <1>7 DEF Step, Ended

\* The invariant holds in every state.
LEMMA Invariant == Spec => []IInv
<1>. QED BY Starts, Preserved, PTL DEF Spec

-----------------------------------------------------------------------------------
(* The theorems. *)

\* Typing alone, on every image, whatever its entries, sizes and addresses: every line is
\* of an inode of the image, the recursion stays within its stack, and every answer is an
\* error code or none (src/done/direntv6.c:32-100, src/done/inode.c:52-74,
\* src/done/u6fs_utils.c:70-152).
THEOREM ListingTyping == Spec => []TypeOK
<1>1. IInv => TypeOK
  BY DEF IInv
<1>. QED BY <1>1, Invariant, PTL

\* On every image `inode' lists the inodes it comes to, in order and as they are stored,
\* and comes to all that mount looks at; `shafiles' lists all with the beginning of their
\* content, but for files whose address table spells ERR_UNALLOCATED_INODE, or all below
\* the first file that stops it with another error (src/done/inode.c:52-74,
\* src/done/u6fs_utils.c:99-152).
THEOREM ListingsAgreeTheorem == Spec => []ListingsAgree
<1>1. IInv => ListingsAgree
  <2> SUFFICES ASSUME IInv PROVE ListingsAgree
    OBVIOUS
  <2>1. InodeListing
    <3>1. SUFFICES ASSUME command.op = "inode" PROVE InodeListing
      BY DEF InodeListing
    <3>2. /\ Ascending /\ Numbers = AllocatedAmong(1 .. next - 1)
          /\ pc = "ended" => ret = ERR_NONE /\ next = LastListed + 1
          /\ \A k \in DOMAIN lines : InodeLine(lines[k])
      BY <3>1 DEF IInv, Scanning, InodesUpto
    <3>3. ASSUME next = LastListed + 1 PROVE AllocatedAmong(ScannedInodes) \subseteq Numbers
      <4>1. ScannedInodes = 1 .. LastListed
        BY DEF ScannedInodes, LastListed
      <4>2. next - 1 = LastListed
        BY <3>3, Counts
      <4>. QED BY <3>2, <4>1, <4>2
    <3>. QED BY <3>2, <3>3 DEF InodeListing, InodeLine
  <2>2. ShaListing
    <3>1. SUFFICES ASSUME command.op = "shafiles" PROVE ShaListing
      BY DEF ShaListing
    <3>2. /\ Ascending /\ Numbers = Hashable(1 .. next - 1)
          /\ pc = "ended" /\ ret = ERR_NONE => next \notin InodeNumbers
          /\ pc = "ended" /\ ret # ERR_NONE => StoppedAt(next, ret)
          /\ \A k \in DOMAIN lines : ShaLine(lines[k])
      BY <3>1 DEF IInv, Scanning, HashesUpto
    <3>3. ASSUME next \notin InodeNumbers
          PROVE  Hashable(1 .. next - 1) = Hashable(InodeNumbers)
      <4>1. next \in 1 .. InodesPerSector * s_isize /\ InodesPerSector * s_isize \in Nat
        BY Counts DEF IInv, TypeOK
      <4>2. InodeNumbers = (1 .. next - 1) \union {0}
        BY <3>3, <4>1 DEF InodeNumbers
      <4>3. inode_read(image, 0) # ERR_NONE
        BY DEF inode_read, ERR_INODE_OUT_OF_RANGE, ERR_NONE
      <4>. QED BY <4>2, <4>3 DEF Hashable, AllocatedAmong
    <3>4. \A k \in DOMAIN lines :
              LET i == image.itab[lines[k].inr]
              IN  /\ lines[k].kind = i.mode
                  /\ i.mode = "file" =>
                        lines[k].content = Content(i, 0, Min({HashedSectors * SectorSize, i.size}))
      BY <3>2 DEF ShaLine, HashedLength
    <3>. QED BY <3>2, <3>3, <3>4 DEF ShaListing, StoppedAt
  <2>. QED BY <2>1, <2>2 DEF ListingsAgree
<1>. QED BY <1>1, Invariant, PTL

-----------------------------------------------------------------------------------
(* Places of entries. *)

\* The entries of a sector fill it.
LEMMA EntriesFill ==
    SectorSize % EntryWords = 0 /\ SectorSize >= EntryWords /\ EntryWords >= 2
    /\ SectorSize \in Nat /\ EntryWords \in Nat
<1>1. SectorSize % EntryWords = 0
  BY ListingAssumption
<1>2. SectorSize = EntryWords * (SectorSize \div EntryWords) /\ SectorSize \div EntryWords \in Nat
  <2>1. SectorSize = EntryWords * (SectorSize \div EntryWords) + (SectorSize % EntryWords)
    BY Geometry, Division
  <2>2. SectorSize \div EntryWords \in Nat
    BY Geometry, Quotient
  <2> DEFINE q == SectorSize \div EntryWords
  <2>3. EntryWords * q \in Int
    BY <2>2, Geometry, SMTT(30)
  <2> HIDE DEF q
  <2>4. SectorSize = EntryWords * q
    BY <1>1, <2>1, <2>3 DEF q
  <2>. QED BY <2>2, <2>4 DEF q
<1> DEFINE q == SectorSize \div EntryWords
<1>3. q # 0 => EntryWords * q >= EntryWords
  BY <1>2, Geometry, SMTT(30)
<1>4. EntryWords * 0 = 0
  BY Geometry
<1> HIDE DEF q
<1>5. SectorSize = EntryWords * q
  BY <1>2 DEF q
<1>6. SectorSize >= EntryWords
  BY <1>3, <1>4, <1>5, Geometry
<1>. QED BY <1>1, <1>6, Geometry

\* An entry begins at a multiple of its length.
LEMMA MultipleOfEntry ==
    ASSUME NEW p \in Nat
    PROVE  p * EntryWords \in Nat /\ (p * EntryWords) % EntryWords = 0
           /\ (p * EntryWords) \div EntryWords = p
<1> DEFINE x == p * EntryWords
           q == x \div EntryWords
           r == x % EntryWords
<1>1. x \in Nat /\ x = EntryWords * p
  BY Geometry, SMTT(30)
<1> HIDE DEF x
<1>2. q \in Int /\ r \in 0 .. EntryWords - 1 /\ x = EntryWords * q + r
  <2>1. x \in Int /\ EntryWords \in Nat \ {0}
    BY <1>1, Geometry
  <2>. QED BY <2>1, Division
<1> HIDE DEF q, r
<1>3. /\ EntryWords * p \in Int /\ EntryWords * q \in Int
      /\ EntryWords * (p - q) = EntryWords * p - EntryWords * q
  BY <1>2, Geometry, SMTT(30)
<1>4. EntryWords * (p - q) = r
  BY <1>1, <1>2, <1>3, Geometry
<1>5. EntryWords * (p - q) < EntryWords /\ EntryWords * (p - q) > -EntryWords
  BY <1>2, <1>4, Geometry
<1>6. p - q = 0
  BY <1>2, <1>5, Geometry, SmallMultiple
<1>7. q = p
  BY <1>2, <1>6
<1>8. r = 0
  BY <1>4, <1>6, <1>2, Geometry
<1>. QED BY <1>1, <1>7, <1>8 DEF x, q, r

\* The two words of an entry that are looked at are in one sector.
LEMMA SecondWord ==
    ASSUME NEW x \in Nat, x % EntryWords = 0
    PROVE  x \div SectorSize = (x + 1) \div SectorSize
<1>1. (x + 1) % SectorSize # 0
  <2>1. SUFFICES ASSUME (x + 1) % SectorSize = 0 PROVE FALSE
    OBVIOUS
  <2> DEFINE q == (x + 1) \div SectorSize
             e == SectorSize \div EntryWords
             k == x \div EntryWords
  <2>2. x + 1 = SectorSize * q /\ q \in Int
    BY <2>1, Geometry, Division, EntriesFill
  <2>3. SectorSize = EntryWords * e /\ e \in Int
    BY Geometry, Division, EntriesFill
  <2>4. x = EntryWords * k /\ k \in Int
    BY Geometry, Division
  <2> HIDE DEF q, e, k
  <2>5. SectorSize * q = EntryWords * (e * q) /\ e * q \in Int
    <3>1. EntryWords \in Int
      BY Geometry
    <3>2. (EntryWords * e) * q = EntryWords * (e * q) /\ e * q \in Int
      BY <2>2, <2>3, <3>1, SMTT(30)
    <3>. QED BY <2>3, <3>2
  <2>6. EntryWords * (e * q - k) = EntryWords * (e * q) - EntryWords * k
        /\ EntryWords * (e * q) \in Int /\ EntryWords * k \in Int /\ e * q - k \in Int
    <3> DEFINE z == e * q
    <3>1. z \in Int /\ EntryWords \in Int
      BY <2>5, Geometry
    <3> HIDE DEF z
    <3>2. EntryWords * (z - k) = EntryWords * z - EntryWords * k
          /\ EntryWords * z \in Int /\ EntryWords * k \in Int /\ z - k \in Int
      BY <2>4, <3>1, SMTT(30)
    <3>. QED BY <3>2 DEF z
  <2> DEFINE y == e * q - k
  <2>7. EntryWords * y = 1 /\ y \in Int
    <3> DEFINE u == EntryWords * (e * q)
               v == EntryWords * k
    <3>1. EntryWords * y = u - v /\ u \in Int /\ v \in Int /\ x + 1 = u /\ x = v /\ y \in Int
      BY <2>2, <2>4, <2>5, <2>6
    <3> HIDE DEF u, v, y
    <3>. QED BY <3>1
  <2> HIDE DEF y
  <2>8. y = 0
    <3>1. EntryWords * y < EntryWords /\ EntryWords * y > -EntryWords
      BY <2>7, EntriesFill
    <3>. QED BY <2>7, <3>1, Geometry, SmallMultiple
  <2>9. EntryWords * 0 = 0
    BY Geometry
  <2>. QED BY <2>7, <2>8, <2>9
<1>2. x + 1 \in Nat /\ (x + 1) - 1 = x
  OBVIOUS
<1>. QED BY <1>1, <1>2, BeforeInBlock, Geometry

\* What is put behind a sequence leaves it as it is.
LEMMA BeforeAppended ==
    ASSUME NEW s \in Seq(Nat), NEW z \in Nat, NEW j \in 1 .. Len(s)
    PROVE  Append(s, z)[j] = s[j]
BY AppendProperties

\* A sequence and what is put behind it can be told apart.
LEMMA SameAppend ==
    ASSUME NEW a \in Seq(Nat), NEW b \in Seq(Nat), NEW x \in Nat, NEW y \in Nat,
           Append(a, x) = Append(b, y)
    PROVE  a = b /\ x = y
<1>1. /\ Len(a) \in Nat /\ Len(b) \in Nat /\ Len(Append(a, x)) = Len(a) + 1
      /\ Len(Append(b, y)) = Len(b) + 1
  BY AppendProperties
<1>2. Len(a) = Len(b)
  BY <1>1
<1>3. x = Append(a, x)[Len(a) + 1] /\ y = Append(b, y)[Len(b) + 1]
  BY AppendProperties
<1>4. \A j \in 1 .. Len(a) : a[j] = b[j]
  <2>1. \A j \in 1 .. Len(a) : Append(a, x)[j] = a[j]
    BY BeforeAppended
  <2>2. \A j \in 1 .. Len(b) : Append(b, y)[j] = b[j]
    BY BeforeAppended
  <2>. QED BY <1>2, <2>1, <2>2
<1>5. a = b
  BY <1>2, <1>4, SeqEqual
<1>. QED BY <1>2, <1>3, <1>5

-----------------------------------------------------------------------------------
(* What is found below the root. *)

Root == [inr |-> ROOT_INUMBER, path |-> << >>, at |-> << >>]

\* One level further down.
Below(S) == UNION {Children(f) : f \in {g \in S : IsDir(g.inr)}}

\* The recursion of Found, down to level m.
Levels(m, F) == F = [n \in 0 .. m |-> IF n = 0 THEN {Root} ELSE Below(F[n - 1])]

\* There is such a function, since each level needs only the one above it.
LEMMA LevelsExist == \E F : Levels(StackDepth, F)
<1> DEFINE Bad == {n \in 0 .. StackDepth : ~ \E F : Levels(n, F)}
<1>1. StackDepth \in Nat
  BY Geometry
<1>2. SUFFICES ASSUME Bad # {} PROVE FALSE
  BY <1>1
<1>3. Bad \in SUBSET Nat
  BY <1>1
<1>4. PICK m \in Bad : \A y \in Bad : m <= y
  BY <1>2, <1>3, MinOfNat
<1>5. m # 0
  <2>1. SUFFICES ASSUME m = 0 PROVE FALSE
    OBVIOUS
  <2> DEFINE G == [n \in 0 .. 0 |-> {Root}]
  <2>2. G = [n \in 0 .. 0 |-> IF n = 0 THEN {Root} ELSE Below(G[n - 1])]
    OBVIOUS
  <2>3. Levels(0, G)
    BY <2>2 DEF Levels
  <2>. QED BY <1>4, <2>1, <2>3
<1>6. PICK F : Levels(m - 1, F)
  <2>1. m - 1 \in 0 .. StackDepth /\ ~ (m <= m - 1)
    BY <1>1, <1>4, <1>5
  <2>. QED BY <1>4, <2>1
<1> DEFINE G == [n \in 0 .. m |-> IF n < m THEN F[n] ELSE Below(F[m - 1])]
<1>7. m \in Nat \ {0}
  BY <1>3, <1>4, <1>5
<1>8. ASSUME NEW n \in 0 .. m PROVE G[n] = IF n = 0 THEN {Root} ELSE Below(G[n - 1])
  <2>1. n # 0 => G[n - 1] = F[n - 1]
    BY <1>7
  <2>2. n < m => F[n] = IF n = 0 THEN {Root} ELSE Below(F[n - 1])
    <3>1. n < m => n \in 0 .. m - 1
      BY <1>7
    <3>. QED BY <1>6, <3>1 DEF Levels
  <2>. QED BY <1>7, <2>1, <2>2
<1>9. Levels(m, G)
  <2>1. G = [n \in 0 .. m |-> IF n = 0 THEN {Root} ELSE Below(G[n - 1])]
    <3> DEFINE H == [n \in 0 .. m |-> IF n = 0 THEN {Root} ELSE Below(G[n - 1])]
    <3>1. DOMAIN G = 0 .. m /\ G = [n \in DOMAIN G |-> G[n]]
      OBVIOUS
    <3>2. \A n \in 0 .. m : G[n] = H[n]
      BY <1>8
    <3> HIDE DEF G
    <3>. QED BY <3>1, <3>2
  <2>. QED BY <2>1 DEF Levels
<1>. QED BY <1>4, <1>9

\* Found is that function.
LEMMA FoundLevels ==
    /\ Found[0] = {Root}
    /\ \A n \in 1 .. StackDepth : Found[n] = Below(Found[n - 1])
<1>1. Found = CHOOSE F : Levels(StackDepth, F)
  BY DEF Found, Levels, Below, Root
<1>2. Levels(StackDepth, Found)
  BY <1>1, LevelsExist
<1>3. Found = [n \in 0 .. StackDepth |-> IF n = 0 THEN {Root} ELSE Below(Found[n - 1])]
  BY <1>2 DEF Levels
<1>4. StackDepth \in Nat
  BY Geometry
<1>5. ASSUME NEW n \in 0 .. StackDepth
      PROVE  Found[n] = IF n = 0 THEN {Root} ELSE Below(Found[n - 1])
  <2> HIDE <1>1
  <2>. QED BY <1>3
<1>6. 0 \in 0 .. StackDepth /\ \A n \in 1 .. StackDepth : n \in 0 .. StackDepth /\ n # 0
  BY <1>4
<1>. QED BY <1>5, <1>6

\* An entry of a directory has a number and a name.
LEMMA EntryType ==
    ASSUME Given, NEW i \in StoredInode, NEW p \in EntryPlaces(i)
    PROVE  /\ p \in Nat /\ p < i.size \div EntryWords /\ BlockSector(i, p * EntryWords) >= 0
           /\ EntryAt(i, p).inr \in Word /\ EntryAt(i, p).name \in Word
           /\ EntryAt(i, p).inr = image.words[BlockSector(i, p * EntryWords)]
                                             [(p * EntryWords) % SectorSize]
           /\ EntryAt(i, p).name = image.words[BlockSector(i, p * EntryWords)]
                                              [(p * EntryWords + 1) % SectorSize]
           /\ BlockSector(i, p * EntryWords + 1) = BlockSector(i, p * EntryWords)
<1> DEFINE x == p * EntryWords
<1>1. p \in Nat /\ p < i.size \div EntryWords /\ BlockSector(i, x) >= 0
  <2>1. i.size \div EntryWords \in Int
    BY Geometry, Division DEF StoredInode
  <2>. QED BY <2>1 DEF EntryPlaces
<1>2. x \in Nat /\ x % EntryWords = 0
  <2>1. p * EntryWords \in Nat
    BY <1>1, Geometry, SMTT(30)
  <2>. QED BY <1>1, <2>1, Geometry, MultipleOfEntry
<1>3. x \div SectorSize = (x + 1) \div SectorSize
  BY <1>2, SecondWord
<1> HIDE DEF x
<1>4. BlockSector(i, x + 1) = BlockSector(i, x)
  BY <1>3 DEF BlockSector
<1>5. x + 1 - 1 = x /\ (x + 1) + 1 - 1 = x + 1
  BY <1>2
<1>6. /\ EntryAt(i, p).inr = image.words[BlockSector(i, x)][x % SectorSize]
      /\ EntryAt(i, p).name = image.words[BlockSector(i, x)][(x + 1) % SectorSize]
  <2>1. 1 \in 1 .. 1
    OBVIOUS
  <2>2. /\ Content(i, x, 1)[1] = image.words[BlockSector(i, x + 1 - 1)][(x + 1 - 1) % SectorSize]
        /\ Content(i, x + 1, 1)[1] =
              image.words[BlockSector(i, (x + 1) + 1 - 1)][((x + 1) + 1 - 1) % SectorSize]
    BY <2>1 DEF Content
  <2>3. EntryAt(i, p).inr = Content(i, x, 1)[1] /\ EntryAt(i, p).name = Content(i, x + 1, 1)[1]
    BY DEF EntryAt, x
  <2>. QED BY <1>4, <1>5, <2>2, <2>3
<1>7. BlockSector(i, x) \in DOMAIN image.words
  <2>1. x \in Int /\ BlockSector(i, x) \in Int
    BY <1>2, BlockSectorType
  <2>. QED BY <1>1, <2>1, BlockSectorType
<1>8. image.words[BlockSector(i, x)] \in [0 .. SectorSize - 1 -> Word]
  BY <1>7, TheImage
<1>9. x % SectorSize \in 0 .. SectorSize - 1 /\ (x + 1) % SectorSize \in 0 .. SectorSize - 1
  BY <1>2, Geometry, Division
<1>. QED BY <1>1, <1>4, <1>6, <1>8, <1>9 DEF x

\* A directory that opens.
LEMMA Openable ==
    ASSUME Given, NEW inr, IsDir(inr)
    PROVE  /\ inode_read(image, inr) = ERR_NONE
           /\ image.itab[inr] \in StoredInode /\ image.itab[inr].mode = "dir"
<1>1. inode_read(image, inr) = ERR_NONE /\ image.itab[inr].mode = "dir"
  BY DEF IsDir, opendir, ERR_INVALID_DIRECTORY_INODE, ERR_NONE
<1>. QED BY <1>1, Readable

\* Every node but the root is what an entry of a directory above it leads to.
LEMMA ChildOf ==
    ASSUME Given, NEW n \in 1 .. StackDepth, NEW f \in Found[n]
    PROVE  \E g \in Found[n - 1] : \E p \in EntryPlaces(image.itab[g.inr]) :
              /\ IsDir(g.inr) /\ f = Child(g, p) /\ p \in Nat
              /\ EntryAt(image.itab[g.inr], p).name \in Word
<1>1. f \in Below(Found[n - 1])
  BY FoundLevels
<1>2. PICK g \in Found[n - 1] : IsDir(g.inr) /\ f \in Children(g)
  BY <1>1 DEF Below
<1>3. PICK p \in EntryPlaces(image.itab[g.inr]) : f = Child(g, p)
  BY <1>2 DEF Children
<1>4. image.itab[g.inr] \in StoredInode
  BY <1>2, Openable
<1>5. p \in Nat /\ EntryAt(image.itab[g.inr], p).name \in Word
  BY <1>4, EntryType
<1>. QED BY <1>2, <1>3, <1>5

\* The other way round.
LEMMA ChildFound ==
    ASSUME NEW n \in 0 .. StackDepth - 1, NEW g \in Found[n], IsDir(g.inr),
           NEW p \in EntryPlaces(image.itab[g.inr])
    PROVE  Child(g, p) \in Found[n + 1]
<1>1. n + 1 \in 1 .. StackDepth /\ (n + 1) - 1 = n
  BY Geometry
<1>2. Found[n + 1] = Below(Found[n])
  BY <1>1, FoundLevels
<1>3. Child(g, p) \in Children(g)
  BY DEF Children
<1>. QED BY <1>2, <1>3 DEF Below

\* How a node is named and addressed.
LEMMA NodeType ==
    ASSUME Given, NEW n \in 0 .. StackDepth, NEW f \in Found[n]
    PROVE  /\ f.path \in Seq(Word) /\ Len(f.path) = n
           /\ f.at \in Seq(Nat) /\ Len(f.at) = n
<1> DEFINE Fine(g, m) == /\ g.path \in Seq(Word) /\ Len(g.path) = m
                         /\ g.at \in Seq(Nat) /\ Len(g.at) = m
           Bad == {m \in 0 .. StackDepth : \E g \in Found[m] : ~Fine(g, m)}
<1>1. StackDepth \in Nat
  BY Geometry
<1>2. SUFFICES ASSUME Bad # {} PROVE FALSE
  OBVIOUS
<1>3. Bad \in SUBSET Nat
  BY <1>1
<1>4. PICK m \in Bad : \A y \in Bad : m <= y
  BY <1>2, <1>3, MinOfNat
<1>5. PICK g \in Found[m] : ~Fine(g, m)
  BY <1>4
<1>6. m # 0
  <2>1. m = 0 => g = Root
    BY <1>5, FoundLevels
  <2>2. Root.path = << >> /\ Root.at = << >> /\ Len(<< >>) = 0
    BY DEF Root
  <2>3. << >> \in Seq(Word) /\ << >> \in Seq(Nat)
    OBVIOUS
  <2>4. Fine(Root, 0)
    BY <2>2, <2>3
  <2> HIDE DEF Fine
  <2>. QED BY <1>5, <2>1, <2>4
<1>7. m \in 1 .. StackDepth /\ m - 1 \in 0 .. StackDepth /\ ~(m <= m - 1) /\ m \in Nat
  BY <1>1, <1>3, <1>4, <1>6
<1>8. PICK h \in Found[m - 1] : \E p \in EntryPlaces(image.itab[h.inr]) :
          /\ g = Child(h, p) /\ p \in Nat /\ EntryAt(image.itab[h.inr], p).name \in Word
  BY <1>5, <1>7, ChildOf
<1>9. PICK p \in EntryPlaces(image.itab[h.inr]) :
          g = Child(h, p) /\ p \in Nat /\ EntryAt(image.itab[h.inr], p).name \in Word
  BY <1>8
<1>10. Fine(h, m - 1)
  BY <1>4, <1>7
<1>11. g.path = Append(h.path, EntryAt(image.itab[h.inr], p).name) /\ g.at = Append(h.at, p)
  BY <1>9 DEF Child
<1>12. g.path \in Seq(Word) /\ Len(g.path) = Len(h.path) + 1
  BY <1>9, <1>10, <1>11, AppendProperties
<1>13. g.at \in Seq(Nat) /\ Len(g.at) = Len(h.at) + 1
  BY <1>9, <1>10, <1>11, AppendProperties
<1>14. (m - 1) + 1 = m
  BY <1>7
<1>. QED BY <1>5, <1>10, <1>12, <1>13, <1>14

\* No two nodes have one address.
LEMMA OneAddress ==
    ASSUME Given, NEW n \in 0 .. StackDepth, NEW f \in Found[n], NEW g \in Found[n], f.at = g.at
    PROVE  f = g
<1> DEFINE Bad == {m \in 0 .. StackDepth : \E x, y \in Found[m] : x.at = y.at /\ x # y}
<1>1. StackDepth \in Nat
  BY Geometry
<1>2. SUFFICES ASSUME Bad # {} PROVE FALSE
  OBVIOUS
<1>3. Bad \in SUBSET Nat
  BY <1>1
<1>4. PICK m \in Bad : \A y \in Bad : m <= y
  BY <1>2, <1>3, MinOfNat
<1>5. PICK x \in Found[m], y \in Found[m] : x.at = y.at /\ x # y
  BY <1>4
<1>6. m # 0
  BY <1>5, FoundLevels
<1>7. m \in 1 .. StackDepth /\ m - 1 \in 0 .. StackDepth /\ ~(m <= m - 1)
  BY <1>1, <1>3, <1>4, <1>6
<1>8. PICK v \in Found[m - 1] :
          \E p \in EntryPlaces(image.itab[v.inr]) : x = Child(v, p) /\ p \in Nat
  BY <1>5, <1>7, ChildOf
<1>9. PICK p \in EntryPlaces(image.itab[v.inr]) : x = Child(v, p) /\ p \in Nat
  BY <1>8
<1>10. PICK w \in Found[m - 1] :
           \E q \in EntryPlaces(image.itab[w.inr]) : y = Child(w, q) /\ q \in Nat
  BY <1>5, <1>7, ChildOf
<1>11. PICK q \in EntryPlaces(image.itab[w.inr]) : y = Child(w, q) /\ q \in Nat
  BY <1>10
<1>12. Append(v.at, p) = Append(w.at, q)
  BY <1>5, <1>9, <1>11 DEF Child
<1>13. v.at \in Seq(Nat) /\ w.at \in Seq(Nat)
  BY <1>7, NodeType
<1>14. v.at = w.at /\ p = q
  <2> DEFINE a == v.at
             b == w.at
  <2>1. a \in Seq(Nat) /\ b \in Seq(Nat) /\ Append(a, p) = Append(b, q)
    BY <1>12, <1>13
  <2>2. p \in Nat /\ q \in Nat
    BY <1>9, <1>11
  <2> HIDE DEF a, b
  <2>3. a = b /\ p = q
    BY <2>1, <2>2, SameAppend
  <2>. QED BY <2>3 DEF a, b
<1>15. v = w
  BY <1>4, <1>7, <1>14
<1>. QED BY <1>5, <1>9, <1>11, <1>14, <1>15

-----------------------------------------------------------------------------------
(* The order in which `tree' comes by the nodes: a directory, then what its entries *)
(* lead to, one after the other with all that is below.                            *)

\* Node a is b or below it.
Beneath(a, b) == Len(b) <= Len(a) /\ \A j \in 1 .. Len(b) : a[j] = b[j]

\* Node a comes before b.
Precedes(a, b) ==
    \E k \in 1 .. Len(b) :
        /\ k <= Len(a) + 1 /\ \A j \in 1 .. k - 1 : a[j] = b[j]
        /\ k = Len(a) + 1 \/ a[k] < b[k]

\* What comes before entry t of b.
LEMMA BeforeEntry ==
    ASSUME NEW a \in Seq(Nat), NEW b \in Seq(Nat), NEW t \in Nat
    PROVE  Precedes(a, Append(b, t)) <=>
              \/ Precedes(a, b) \/ a = b
              \/ Beneath(a, b) /\ Len(a) > Len(b) /\ a[Len(b) + 1] < t
<1> DEFINE c == Append(b, t)
<1>1. /\ Len(a) \in Nat /\ Len(b) \in Nat /\ Len(c) = Len(b) + 1
      /\ \A j \in 1 .. Len(b) : c[j] = b[j]
      /\ c[Len(b) + 1] = t
  BY AppendProperties
<1> HIDE DEF c
<1>2. ASSUME Precedes(a, c)
      PROVE  \/ Precedes(a, b) \/ a = b
             \/ Beneath(a, b) /\ Len(a) > Len(b) /\ a[Len(b) + 1] < t
  <2>1. PICK k \in 1 .. Len(c) : /\ k <= Len(a) + 1 /\ \A j \in 1 .. k - 1 : a[j] = c[j]
                                 /\ k = Len(a) + 1 \/ a[k] < c[k]
    BY <1>2 DEF Precedes
  <2>2. CASE k \in 1 .. Len(b)
    <3>1. \A j \in 1 .. k - 1 : a[j] = b[j]
      BY <1>1, <2>1, <2>2
    <3>2. k = Len(a) + 1 \/ a[k] < b[k]
      BY <1>1, <2>1, <2>2
    <3>. QED BY <2>1, <2>2, <3>1, <3>2 DEF Precedes
  <2>3. CASE k = Len(b) + 1
    <3>1. \A j \in 1 .. Len(b) : a[j] = b[j]
      BY <1>1, <2>1, <2>3
    <3>2. Len(b) <= Len(a)
      BY <1>1, <2>1, <2>3
    <3>3. CASE Len(a) = Len(b)
      BY <3>1, <3>3, SeqEqual
    <3>4. CASE Len(a) # Len(b)
      BY <1>1, <2>1, <2>3, <3>1, <3>2, <3>4 DEF Beneath
    <3>. QED BY <3>3, <3>4
  <2>. QED BY <1>1, <2>1, <2>2, <2>3
<1>3. ASSUME Precedes(a, b) PROVE Precedes(a, c)
  <2>1. PICK k \in 1 .. Len(b) : /\ k <= Len(a) + 1 /\ \A j \in 1 .. k - 1 : a[j] = b[j]
                                 /\ k = Len(a) + 1 \/ a[k] < b[k]
    BY <1>3 DEF Precedes
  <2>2. k \in 1 .. Len(c) /\ \A j \in 1 .. k : c[j] = b[j]
    BY <1>1
  <2>3. \A j \in 1 .. k - 1 : a[j] = c[j]
    BY <1>1, <2>1, <2>2
  <2>4. k = Len(a) + 1 \/ a[k] < c[k]
    BY <1>1, <2>1, <2>2
  <2>. QED BY <2>1, <2>2, <2>3, <2>4 DEF Precedes
<1>4. ASSUME a = b \/ (Beneath(a, b) /\ Len(a) > Len(b) /\ a[Len(b) + 1] < t)
      PROVE  Precedes(a, c)
  <2>1. Len(b) <= Len(a) /\ \A j \in 1 .. Len(b) : a[j] = b[j]
    BY <1>1, <1>4 DEF Beneath
  <2> DEFINE k == Len(b) + 1
  <2>2. k \in 1 .. Len(c) /\ k <= Len(a) + 1 /\ \A j \in 1 .. k - 1 : a[j] = c[j]
    BY <1>1, <2>1
  <2>3. k = Len(a) + 1 \/ a[k] < c[k]
    BY <1>1, <1>4
  <2> HIDE DEF k
  <2>. QED BY <2>2, <2>3 DEF Precedes
<1>. QED BY <1>2, <1>3, <1>4 DEF c

\* What comes before entry t + 1 of b and not before entry t.
LEMMA BeforeNextEntry ==
    ASSUME NEW a \in Seq(Nat), NEW b \in Seq(Nat), NEW t \in Nat
    PROVE  Precedes(a, Append(b, t + 1)) <=>
              Precedes(a, Append(b, t)) \/ Beneath(a, Append(b, t))
<1>1. /\ Len(a) \in Nat /\ Len(b) \in Nat /\ t + 1 \in Nat
      /\ Len(a) > Len(b) => a[Len(b) + 1] \in Nat
  BY ElementOfSeq
<1>2. /\ Len(Append(b, t)) = Len(b) + 1 /\ Append(b, t)[Len(b) + 1] = t
      /\ \A j \in 1 .. Len(b) : Append(b, t)[j] = b[j]
  BY AppendProperties
<1>3. Beneath(a, Append(b, t)) <=>
         Beneath(a, b) /\ Len(a) > Len(b) /\ a[Len(b) + 1] = t
  <2> DEFINE c == Append(b, t)
  <2>1. 1 .. Len(b) + 1 = 1 .. Len(b) \union {Len(b) + 1}
    BY <1>1
  <2>2. (\A j \in 1 .. Len(c) : a[j] = c[j]) <=>
            (\A j \in 1 .. Len(b) : a[j] = b[j]) /\ a[Len(b) + 1] = t
    <3>1. Len(c) = Len(b) + 1 /\ c[Len(b) + 1] = t /\ \A j \in 1 .. Len(b) : c[j] = b[j]
      BY <1>2
    <3> HIDE DEF c
    <3>. QED BY <2>1, <3>1
  <2>3. Len(c) <= Len(a) <=> Len(b) <= Len(a) /\ Len(a) > Len(b)
    BY <1>1, <1>2
  <2> HIDE DEF c
  <2>4. Beneath(a, c) <=> Beneath(a, b) /\ Len(a) > Len(b) /\ a[Len(b) + 1] = t
    BY <2>2, <2>3 DEF Beneath
  <2>. QED BY <2>4 DEF c
<1>4. Len(a) > Len(b) => (a[Len(b) + 1] < t + 1 <=> a[Len(b) + 1] < t \/ a[Len(b) + 1] = t)
  BY <1>1
<1>5. Precedes(a, Append(b, t)) <=>
              \/ Precedes(a, b) \/ a = b
              \/ Beneath(a, b) /\ Len(a) > Len(b) /\ a[Len(b) + 1] < t
  BY BeforeEntry
<1>6. Precedes(a, Append(b, t + 1)) <=>
              \/ Precedes(a, b) \/ a = b
              \/ Beneath(a, b) /\ Len(a) > Len(b) /\ a[Len(b) + 1] < t + 1
  BY <1>1, BeforeEntry
<1>. QED BY <1>3, <1>4, <1>5, <1>6

\* Nothing below a node comes before it.
LEMMA NotBefore ==
    ASSUME NEW a \in Seq(Nat), NEW b \in Seq(Nat), Beneath(a, b)
    PROVE  ~Precedes(a, b)
<1>1. SUFFICES ASSUME Precedes(a, b) PROVE FALSE
  OBVIOUS
<1>2. PICK k \in 1 .. Len(b) : k <= Len(a) + 1 /\ (k = Len(a) + 1 \/ a[k] < b[k])
  BY <1>1 DEF Precedes
<1>3. Len(b) <= Len(a) /\ a[k] = b[k] /\ Len(a) \in Nat /\ Len(b) \in Nat
  BY DEF Beneath
<1>4. b[k] \in Nat
  BY ElementOfSeq
<1>. QED BY <1>2, <1>3, <1>4

-----------------------------------------------------------------------------------
(* Nodes by their addresses. *)

\* Two nodes of one address are one.
LEMMA OneNode ==
    ASSUME Given, NEW f \in AllFound, NEW g \in AllFound, f.at = g.at
    PROVE  f = g
<1>1. PICK m \in 0 .. StackDepth : f \in Found[m]
  BY DEF AllFound
<1>2. PICK n \in 0 .. StackDepth : g \in Found[n]
  BY DEF AllFound
<1>3. m = n
  BY <1>1, <1>2, NodeType
<1>. QED BY <1>1, <1>2, <1>3, OneAddress

\* What is below a node is below one of its entries, and it is a directory.
LEMMA BelowEntry ==
    ASSUME Given, NEW f \in AllFound, NEW g \in AllFound,
           Beneath(f.at, g.at), Len(f.at) > Len(g.at)
    PROVE  IsDir(g.inr) /\ f.at[Len(g.at) + 1] \in EntryPlaces(image.itab[g.inr])
<1> DEFINE Right(x) == IsDir(g.inr) /\ x.at[Len(g.at) + 1] \in EntryPlaces(image.itab[g.inr])
           Bad == {n \in 0 .. StackDepth : \E x \in Found[n] :
                      Beneath(x.at, g.at) /\ Len(x.at) > Len(g.at) /\ ~Right(x)}
<1>1. StackDepth \in Nat
  BY Geometry
<1>2. SUFFICES ASSUME Bad # {} PROVE FALSE
  BY DEF AllFound
<1>3. Bad \in SUBSET Nat
  BY <1>1
<1>4. PICK m \in Bad : \A y \in Bad : m <= y
  BY <1>2, <1>3, MinOfNat
<1>5. PICK x \in Found[m] : Beneath(x.at, g.at) /\ Len(x.at) > Len(g.at) /\ ~Right(x)
  BY <1>4
<1>6. g.at \in Seq(Nat) /\ Len(g.at) \in Nat
  BY NodeType DEF AllFound
<1>7. m # 0
  BY <1>4, <1>5, <1>6, NodeType
<1>8. m \in 1 .. StackDepth /\ m - 1 \in 0 .. StackDepth /\ ~(m <= m - 1)
  BY <1>1, <1>3, <1>4, <1>7
<1>9. PICK v \in Found[m - 1] : \E p \in EntryPlaces(image.itab[v.inr]) :
          x = Child(v, p) /\ p \in Nat /\ IsDir(v.inr)
  BY <1>5, <1>8, ChildOf
<1>10. PICK p \in EntryPlaces(image.itab[v.inr]) : x = Child(v, p) /\ p \in Nat /\ IsDir(v.inr)
  BY <1>9
<1>11. x.at = Append(v.at, p) /\ v.at \in Seq(Nat)
  BY <1>8, <1>10, NodeType DEF Child
<1>12. /\ Len(v.at) \in Nat /\ Len(x.at) = Len(v.at) + 1 /\ x.at[Len(v.at) + 1] = p
       /\ \A j \in 1 .. Len(v.at) : x.at[j] = v.at[j]
  BY <1>10, <1>11, AppendProperties
<1>13. v \in AllFound
  BY <1>8 DEF AllFound
<1>14. Len(g.at) <= Len(v.at) /\ \A j \in 1 .. Len(g.at) : v.at[j] = g.at[j]
  <2>1. \A j \in 1 .. Len(g.at) : x.at[j] = g.at[j]
    BY <1>5 DEF Beneath
  <2>2. Len(g.at) <= Len(v.at)
    BY <1>5, <1>6, <1>12
  <2>3. \A j \in 1 .. Len(g.at) : j \in 1 .. Len(v.at)
    BY <1>6, <1>12, <2>2
  <2>. QED BY <1>12, <2>1, <2>2, <2>3
<1>15. CASE Len(g.at) = Len(v.at)
  <2>1. v.at = g.at
    BY <1>6, <1>11, <1>14, <1>15, SeqEqual
  <2>2. v = g
    BY <1>13, <2>1, OneNode
  <2>3. Right(x)
    BY <1>10, <1>12, <1>15, <2>2
  <2>. QED BY <1>5, <2>3
<1>16. CASE Len(g.at) # Len(v.at)
  <2>1. Beneath(v.at, g.at) /\ Len(v.at) > Len(g.at)
    BY <1>6, <1>12, <1>14, <1>16 DEF Beneath
  <2>2. Right(v)
    BY <1>4, <1>8, <2>1
  <2>3. x.at[Len(g.at) + 1] = v.at[Len(g.at) + 1]
    <3>1. Len(g.at) + 1 \in 1 .. Len(v.at)
      BY <1>6, <1>12, <2>1
    <3>. QED BY <1>12, <3>1
  <2>4. Right(x)
    BY <2>2, <2>3
  <2>. QED BY <1>5, <2>4
<1>. QED BY <1>15, <1>16

-----------------------------------------------------------------------------------
(* What a reader has taken of its directory. *)

\* How many entries.
Taken(d) == d.off \div EntryWords - d.last + d.cur

\* It has read whole sectors, or all there is, it holds what the directory has there,
\* and each entry taken has an inode.
Straight(d) ==
    /\ d.off % SectorSize = 0 \/ d.off = d.inode.size
    /\ d.cur <= d.last /\ d.last <= d.off \div EntryWords
    /\ \A off \in 0 .. d.off - 1 : BlockSector(d.inode, off) >= 0
    /\ \A c \in 0 .. d.last - 1 :
          LET e == EntryAt(d.inode, d.off \div EntryWords - d.last + c)
          IN  d.dirs[c * EntryWords + 1] = e.inr /\ d.dirs[c * EntryWords + 2] = e.name
    /\ d.off = d.inode.size => d.inode.size % SectorSize \notin 1 .. EntryWords - 1
    /\ \A p \in 0 .. Taken(d) - 1 : inode_read(image, EntryAt(d.inode, p).inr) = ERR_NONE

\* After a last block of less than an entry, cur has passed last.
Stale(d) ==
    /\ d.off = d.inode.size /\ d.inode.size % SectorSize \in 1 .. EntryWords - 1
    /\ d.last = 0 /\ d.cur >= 1

\* A number has one quotient and one remainder.
LEMMA OneQuotient ==
    ASSUME NEW d \in Nat \ {0}, NEW x \in Int, NEW q \in Int, NEW r \in 0 .. d - 1, x = d * q + r
    PROVE  x \div d = q /\ x % d = r
<1> DEFINE p == x \div d
           s == x % d
<1>1. p \in Int /\ s \in 0 .. d - 1 /\ x = d * p + s
  BY Division
<1> HIDE DEF p, s
<1>2. d * (p - q) = d * p - d * q /\ d * p \in Int /\ d * q \in Int
  BY <1>1, SMTT(30)
<1>3. d * (p - q) = r - s
  BY <1>1, <1>2
<1>4. d * (p - q) < d /\ d * (p - q) > -d
  BY <1>1, <1>3
<1>5. p - q = 0
  BY <1>1, <1>4, SmallMultiple
<1>6. p = q
  BY <1>1, <1>5
<1>7. r = s
  BY <1>1, <1>2, <1>6
<1>. QED BY <1>6, <1>7 DEF p, s

\* An entry is among the whole ones of n words if and only if it ends within them.
LEMMA PlaceWithin ==
    ASSUME NEW p \in Nat, NEW n \in Nat
    PROVE  p < n \div EntryWords <=> (p + 1) * EntryWords <= n
<1>1. n \div EntryWords \in Nat /\ (n \div EntryWords + 1 <= p + 1 <=> n < (p + 1) * EntryWords)
  BY Geometry, Quotient
<1>2. (p + 1) * EntryWords \in Int
  BY Geometry, SMTT(30)
<1>. QED BY <1>1, <1>2

\* Where the entries of the block at o lie, o being a multiple of the sector size.
LEMMA BlockOfEntries ==
    ASSUME NEW o \in Nat, o % SectorSize = 0, NEW n \in 0 .. SectorSize
    PROVE  /\ o \div EntryWords \in Nat
           /\ (o + n) \div EntryWords = o \div EntryWords + n \div EntryWords
           /\ \A c \in Nat : (o \div EntryWords + c) * EntryWords = o + c * EntryWords
<1> DEFINE q == o \div SectorSize
           e == SectorSize \div EntryWords
           r == n \div EntryWords
           s == n % EntryWords
           p == e * q
<1>1. q \in Nat /\ e \in Nat /\ r \in Nat /\ s \in 0 .. EntryWords - 1 /\ n = EntryWords * r + s
  <2>1. SectorSize \in Nat \ {0} /\ EntryWords \in Nat \ {0} /\ SectorSize \in Nat
    BY Geometry
  <2>2. n \in Nat /\ n \in Int /\ 0 \in Nat
    BY <2>1
  <2>3. q \in Nat
    BY <2>1, Quotient
  <2>4. e \in Nat /\ r \in Nat
    BY <2>1, <2>2, Quotient
  <2>5. s \in 0 .. EntryWords - 1 /\ n = EntryWords * r + s
    BY <2>1, <2>2, Division
  <2>. QED BY <2>3, <2>4, <2>5
<1>2. o = SectorSize * q
  <2>1. o = SectorSize * q + (o % SectorSize)
    BY Geometry, Division
  <2> HIDE DEF q
  <2>2. SectorSize * q \in Int
    BY <1>1, Geometry, SMTT(30)
  <2>. QED BY <2>1, <2>2
<1>3. SectorSize = EntryWords * e
  <2>1. SectorSize = EntryWords * e + (SectorSize % EntryWords)
    BY Geometry, Division
  <2> HIDE DEF e
  <2>2. EntryWords * e \in Int
    BY <1>1, Geometry, SMTT(30)
  <2>. QED BY <2>1, <2>2, EntriesFill
<1>4. p \in Nat /\ o = EntryWords * p /\ EntryWords \in Nat \ {0}
  <2> HIDE DEF q, e
  <2>1. EntryWords \in Nat \ {0}
    BY Geometry
  <2>2. e * q \in Nat /\ (EntryWords * e) * q = EntryWords * (e * q)
    BY <1>1, <2>1, SMTT(30)
  <2>. QED BY <1>2, <1>3, <2>1, <2>2
<1> HIDE DEF q, e, r, s, p
<1>5. o \div EntryWords = p
  <2>1. p * EntryWords = EntryWords * p
    BY <1>4, SMTT(30)
  <2>. QED BY <1>4, <2>1, MultipleOfEntry
<1>6. (o + n) \div EntryWords = p + r
  <2>1. EntryWords * (p + r) = EntryWords * p + EntryWords * r
        /\ EntryWords * p \in Int /\ EntryWords * r \in Int
    BY <1>1, <1>4, SMTT(30)
  <2>2. o + n = EntryWords * (p + r) + s /\ o + n \in Int /\ p + r \in Int
    BY <1>1, <1>4, <2>1
  <2> DEFINE x == o + n
             y == p + r
  <2> HIDE DEF x, y
  <2>3. x = EntryWords * y + s /\ x \in Int /\ y \in Int
    BY <2>2 DEF x, y
  <2>4. x \div EntryWords = y
    BY <1>1, <1>4, <2>3, OneQuotient
  <2>. QED BY <2>4 DEF x, y
<1>7. ASSUME NEW c \in Nat PROVE (p + c) * EntryWords = o + c * EntryWords
  <2>1. (p + c) * EntryWords = EntryWords * p + c * EntryWords
    BY <1>4, SMTT(30)
  <2>. QED BY <1>4, <2>1
<1>. QED BY <1>4, <1>5, <1>6, <1>7 DEF r

\* The places in a block are all in the sector it begins in.
LEMMA SectorOfBlock ==
    ASSUME NEW i, NEW o \in Nat, o % SectorSize = 0, NEW j \in 0 .. SectorSize - 1
    PROVE  BlockSector(i, o + j) = BlockSector(i, o) /\ (o + j) % SectorSize = j
<1>1. (o + j) \div SectorSize = o \div SectorSize /\ (o + j) % SectorSize = j
  <2> DEFINE e == SectorSize
  <2>1. e \in Nat \ {0} /\ o % e = 0 /\ j \in 0 .. e - 1
    BY Geometry
  <2> HIDE DEF e
  <2>2. (o + j) \div e = o \div e /\ (o + j) % e = j
    BY <2>1, InBlock
  <2>. QED BY <2>2 DEF e
<1>2. BlockSector(i, o + j) = BlockSector(i, o)
  BY <1>1 DEF BlockSector
<1>. QED BY <1>1, <1>2

\* The numbers of a reader.
LEMMA ReaderType ==
    ASSUME NEW d \in Readers, CursorsFit(d)
    PROVE  /\ d.inode \in StoredInode /\ d.inode.size \in Nat /\ d.off \in Nat
           /\ d.off <= d.inode.size /\ d.cur \in Nat /\ d.last \in Nat
           /\ d.off \div EntryWords \in Nat /\ Taken(d) \in Int
           /\ d.dirs \in Seq(Word) /\ Len(d.dirs) \in Nat
<1>1. /\ d.inode \in StoredInode /\ d.inode.size \in Nat /\ d.off \in Nat
      /\ d.off <= d.inode.size /\ d.cur \in Nat /\ d.last \in Nat
      /\ d.dirs \in Seq(Word) /\ Len(d.dirs) \in Nat
  BY DEF Readers, StoredInode, CursorsFit
<1>2. d.off \div EntryWords \in Nat
  BY <1>1, Geometry, Quotient
<1>. QED BY <1>1, <1>2 DEF Taken

\* Where the next entry is when dirs holds it.
LEMMA NextHeld ==
    ASSUME Given, NEW d \in Readers, CursorsFit(d), Straight(d), d.cur < d.last
    PROVE  LET p == Taken(d)
           IN  /\ p \in EntryPlaces(d.inode)
               /\ d.dirs[d.cur * EntryWords + 1] = EntryAt(d.inode, p).inr
               /\ d.dirs[d.cur * EntryWords + 2] = EntryAt(d.inode, p).name
<1> DEFINE p == Taken(d)
           w == d.off \div EntryWords
<1>1. /\ d.inode \in StoredInode /\ d.inode.size \in Nat /\ d.off \in Nat
      /\ d.off <= d.inode.size /\ d.cur \in Nat /\ d.last \in Nat /\ w \in Nat
  BY ReaderType
<1>2. d.last <= w /\ \A off \in 0 .. d.off - 1 : BlockSector(d.inode, off) >= 0
  BY DEF Straight
<1>3. p = w - d.last + d.cur
  BY DEF Taken
<1>4. p \in Nat /\ p < w /\ d.cur \in 0 .. d.last - 1
  BY <1>1, <1>2, <1>3
<1>5. /\ d.dirs[d.cur * EntryWords + 1] = EntryAt(d.inode, p).inr
      /\ d.dirs[d.cur * EntryWords + 2] = EntryAt(d.inode, p).name
  BY <1>3, <1>4 DEF Straight
<1> HIDE DEF p
<1>6. /\ (p + 1) * EntryWords <= d.off /\ p * EntryWords \in Nat
      /\ (p + 1) * EntryWords = p * EntryWords + EntryWords
  <2>1. p * EntryWords \in Nat /\ (p + 1) * EntryWords = p * EntryWords + EntryWords
    BY <1>4, Geometry, SMTT(30)
  <2>2. (p + 1) * EntryWords <= d.off
    BY <1>1, <1>4, PlaceWithin
  <2>. QED BY <2>1, <2>2
<1>7. p * EntryWords \in 0 .. d.off - 1
  BY <1>1, <1>6, EntriesFill
<1>8. (p + 1) * EntryWords <= d.inode.size
  <2> DEFINE x == (p + 1) * EntryWords
  <2>1. x \in Nat /\ x <= d.off
    BY <1>6, Geometry
  <2> HIDE DEF x
  <2>2. x <= d.inode.size
    BY <1>1, <2>1
  <2>. QED BY <2>2 DEF x
<1>9. p < d.inode.size \div EntryWords /\ d.inode.size \div EntryWords \in Nat
  BY <1>1, <1>4, <1>8, PlaceWithin, Geometry, Quotient
<1>10. p \in EntryPlaces(d.inode)
  BY <1>2, <1>4, <1>7, <1>9 DEF EntryPlaces
<1>. QED BY <1>5, <1>10 DEF p

\* A block read where the reader has got to.
LEMMA NextBlock ==
    ASSUME Given, NEW d \in Readers, CursorsFit(d), Straight(d),
           d.cur = d.last, ~AtEnd(d), ~Unreadable(d)
    PROVE  LET n == BlockLength(d.inode, d.off)
           IN  /\ n \in 1 .. SectorSize /\ d.off % SectorSize = 0
               /\ d.off + n <= d.inode.size /\ (n # SectorSize => d.off + n = d.inode.size)
               /\ BlockSector(d.inode, d.off) >= 0
               /\ \A j \in 0 .. n - 1 : BlockSector(d.inode, d.off + j) = BlockSector(d.inode, d.off)
               /\ d.off + n = d.inode.size => d.inode.size % SectorSize = n % SectorSize
               /\ Refill(d).inode = d.inode /\ Refill(d).off = d.off + n
               /\ Refill(d).last = n \div EntryWords /\ Refill(d).cur = 0
               /\ \A k \in 1 .. n :
                     Refill(d).dirs[k] = image.words[BlockSector(d.inode, d.off)][k - 1]
<1> DEFINE i == d.inode
           o == d.off
           n == BlockLength(i, o)
           b == Block(i, o, n)
           rest == SubSeq(d.dirs, n + 1, Len(d.dirs))
<1>1. /\ i \in StoredInode /\ i.size \in Nat /\ o \in Nat /\ o <= i.size
      /\ d.dirs \in Seq(Word) /\ Len(d.dirs) \in Nat
  BY ReaderType
<1>2. o # i.size /\ ~(BlockSector(i, o) < 0)
  BY DEF AtEnd, Unreadable
<1>3. o % SectorSize = 0
  BY <1>2 DEF Straight
<1>4. n = IF SectorSize <= i.size - o THEN SectorSize ELSE i.size - o
  BY <1>1, Geometry, MinOfTwo DEF BlockLength
<1> DEFINE rd == Refill(d)
<1>5. /\ rd.inode = i /\ rd.off = o + n /\ rd.last = n \div EntryWords /\ rd.cur = 0
      /\ rd.dirs = b \o rest
  <2>1. Refill(d) = [d EXCEPT !.dirs = b \o rest, !.off = o + n,
                              !.last = n \div EntryWords, !.cur = 0]
    BY DEF Refill, Readers
  <2>2. d = [inode |-> d.inode, off |-> d.off, dirs |-> d.dirs, cur |-> d.cur, last |-> d.last]
    BY DEF Readers
  <2> DEFINE v == b \o rest
             u == o + n
             e == n \div EntryWords
  <2> HIDE DEF v, u, e
  <2>3. Refill(d) = [inode |-> d.inode, off |-> u, dirs |-> v, cur |-> 0, last |-> e]
    BY <2>1, <2>2 DEF v, u, e
  <2>4. /\ Refill(d).inode = d.inode /\ Refill(d).off = u /\ Refill(d).last = e
        /\ Refill(d).cur = 0 /\ Refill(d).dirs = v
    BY <2>3
  <2>. QED BY <2>4 DEF v, u, e
<1> HIDE DEF n
<1>6. /\ n \in 1 .. SectorSize /\ n \in 0 .. SectorSize /\ o + n <= i.size
      /\ (n # SectorSize => o + n = i.size) /\ n \in Nat
  <2>1. i.size - o \in Nat \ {0} /\ SectorSize \in Nat \ {0}
    BY <1>1, <1>2, Geometry
  <2>2. CASE SectorSize <= i.size - o
    BY <1>1, <1>4, <2>1, <2>2
  <2>3. CASE ~(SectorSize <= i.size - o)
    BY <1>1, <1>4, <2>1, <2>3
  <2>. QED BY <2>2, <2>3
<1>7. \A j \in 0 .. n - 1 : BlockSector(i, o + j) = BlockSector(i, o)
  <2>1. \A j \in 0 .. n - 1 : j \in 0 .. SectorSize - 1
    BY <1>6, Geometry
  <2>. QED BY <1>1, <1>3, <2>1, SectorOfBlock
<1>8. BlockSector(i, o) >= 0
  <2>1. o \in Int
    BY <1>1
  <2>2. BlockSector(i, o) \in Int
    BY <1>1, <2>1, BlockSectorType
  <2>. QED BY <1>2, <2>2
<1>9. (o + n) % SectorSize = n % SectorSize
  <2>0. SectorSize \in Nat \ {0}
    BY Geometry
  <2>1. CASE n = SectorSize
    <3>1. (o + SectorSize) % SectorSize = 0
      BY <1>1, <1>3, <2>0, NextBoundary
    <3>2. SectorSize % SectorSize = 0
      <4>1. SectorSize = SectorSize * 1 + 0 /\ 0 \in 0 .. SectorSize - 1
        BY <2>0
      <4>. QED BY <2>0, <4>1, OneQuotient
    <3>. QED BY <2>1, <3>1, <3>2
  <2>2. CASE n # SectorSize
    <3>1. n \in 0 .. SectorSize - 1
      BY <1>6, <2>0, <2>2
    <3>2. (o + n) % SectorSize = n
      BY <1>1, <1>3, <3>1, SectorOfBlock
    <3>3. n % SectorSize = n
      <4>1. n = SectorSize * 0 + n /\ n \in Int
        BY <2>0, <3>1
      <4>. QED BY <2>0, <3>1, <4>1, OneQuotient
    <3>. QED BY <3>2, <3>3
  <2>. QED BY <2>1, <2>2
<1>10. \A k \in 1 .. n : (b \o rest)[k] = image.words[BlockSector(i, o)][k - 1]
  <2>1. b \in Seq(Word) /\ Len(b) = n
    <3>1. o \in Int
      BY <1>1
    <3>. QED BY <1>1, <1>2, <1>6, <3>1, BlockType
  <2>2. \A k \in 1 .. n : b[k] = image.words[BlockSector(i, o)][k - 1]
    BY DEF Block
  <2> HIDE DEF b
  <2>3. rest \in Seq(Word)
    <3>1. \A k \in n + 1 .. Len(d.dirs) : d.dirs[k] \in Word
      BY <1>1, <1>6
    <3>. QED BY <1>1, <1>6, <3>1, SubSeqProperties
  <2> HIDE DEF rest
  <2>4. \A k \in 1 .. n : (b \o rest)[k] = b[k]
    BY <2>1, <2>3, ConcatProperties
  <2>. QED BY <2>2, <2>4
<1> HIDE DEF rd, b, rest
<1>11. o + n = i.size => i.size % SectorSize = n % SectorSize
  BY <1>9
<1>12. \A k \in 1 .. n : rd.dirs[k] = image.words[BlockSector(i, o)][k - 1]
  BY <1>5, <1>10
<1>13. /\ rd.inode = i /\ rd.off = o + n /\ rd.last = n \div EntryWords /\ rd.cur = 0
  BY <1>5
<1>. QED BY <1>3, <1>6, <1>7, <1>8, <1>11, <1>12, <1>13 DEF n, rd

\* A block of less than an entry is the last, and no entry is counted in it.
LEMMA ShortBlock ==
    ASSUME Given, NEW d \in Readers, CursorsFit(d), Straight(d),
           d.cur = d.last, ~AtEnd(d), ~Unreadable(d), BlockLength(d.inode, d.off) < EntryWords
    PROVE  /\ Refill(d).off = d.inode.size /\ Refill(d).inode = d.inode
           /\ d.inode.size % SectorSize \in 1 .. EntryWords - 1
           /\ Refill(d).last = 0 /\ Refill(d).cur = 0
<1> DEFINE n == BlockLength(d.inode, d.off)
<1>1. /\ n \in 1 .. SectorSize /\ n < EntryWords
      /\ (n # SectorSize => d.off + n = d.inode.size)
      /\ d.off + n = d.inode.size => d.inode.size % SectorSize = n % SectorSize
      /\ Refill(d).inode = d.inode /\ Refill(d).off = d.off + n
      /\ Refill(d).last = n \div EntryWords /\ Refill(d).cur = 0
  BY NextBlock
<1> HIDE DEF n
<1>2. n \in 1 .. EntryWords - 1 /\ n # SectorSize /\ n \in 0 .. SectorSize - 1 /\ n \in Int
  BY <1>1, EntriesFill
<1>3. n % SectorSize = n
  <2>1. n = SectorSize * 0 + n
    BY <1>2, EntriesFill
  <2>. QED BY <1>2, <2>1, OneQuotient, Geometry
<1>4. n \div EntryWords = 0
  <2>1. n = EntryWords * 0 + n /\ n \in 0 .. EntryWords - 1
    BY <1>2, EntriesFill
  <2>. QED BY <1>2, <2>1, OneQuotient, Geometry
<1>. QED BY <1>1, <1>2, <1>3, <1>4

\* Any other is a number of entries.
LEMMA FullBlock ==
    ASSUME Given, NEW d \in Readers, CursorsFit(d), Straight(d),
           d.cur = d.last, ~AtEnd(d), ~Unreadable(d), ~(BlockLength(d.inode, d.off) < EntryWords)
    PROVE  /\ Straight(Refill(d)) /\ Refill(d).inode = d.inode
           /\ Taken(Refill(d)) = Taken(d) /\ Refill(d).cur < Refill(d).last
<1> DEFINE i == d.inode
           o == d.off
           n == BlockLength(i, o)
           rd == Refill(d)
           w == o \div EntryWords
           m == n \div EntryWords
<1>1. /\ n \in 1 .. SectorSize /\ o % SectorSize = 0
      /\ o + n <= i.size /\ (n # SectorSize => o + n = i.size)
      /\ BlockSector(i, o) >= 0
      /\ \A j \in 0 .. n - 1 : BlockSector(i, o + j) = BlockSector(i, o)
      /\ o + n = i.size => i.size % SectorSize = n % SectorSize
      /\ rd.inode = i /\ rd.off = o + n /\ rd.last = m /\ rd.cur = 0
      /\ \A k \in 1 .. n : rd.dirs[k] = image.words[BlockSector(i, o)][k - 1]
  BY NextBlock
<1>2. n >= EntryWords
  BY <1>1, EntriesFill
<1>3. i \in StoredInode /\ i.size \in Nat /\ o \in Nat /\ d.last \in Nat /\ w \in Nat
  BY ReaderType
<1> HIDE DEF n, rd
<1>4. n \in 0 .. SectorSize /\ n \in Nat
  BY <1>1, EntriesFill
<1>5. /\ (o + n) \div EntryWords = w + m
      /\ \A c \in Nat : (w + c) * EntryWords = o + c * EntryWords
  BY <1>1, <1>3, <1>4, BlockOfEntries
<1>6. m \in Nat /\ m >= 1 /\ m * EntryWords <= n
  <2>1. m \in Nat /\ m * EntryWords <= n
    BY <1>4, WholeEntries
  <2>2. (0 + 1) * EntryWords <= n
    BY <1>2, EntriesFill
  <2>3. 0 < m
    BY <1>4, <2>2, PlaceWithin
  <2> HIDE DEF m
  <2>. QED BY <2>1, <2>3
<1> HIDE DEF m
<1> HIDE DEF w
<1>7. Taken(rd) = Taken(d)
  <2>1. Taken(rd) = (w + m) - m + 0
    BY <1>1, <1>5 DEF Taken
  <2>2. Taken(d) = w - d.last + d.last
    BY DEF Taken, w
  <2>. QED BY <1>3, <1>6, <2>1, <2>2
<1>8. ASSUME NEW off \in 0 .. rd.off - 1 PROVE BlockSector(i, off) >= 0
  <2>1. CASE off < o
    <3>1. off \in 0 .. o - 1
      BY <1>3, <2>1
    <3>. QED BY <3>1 DEF Straight
  <2>2. CASE ~(off < o)
    <3>1. off - o \in 0 .. n - 1 /\ o + (off - o) = off
      BY <1>1, <1>3, <1>4, <2>2
    <3>2. BlockSector(i, o + (off - o)) = BlockSector(i, o)
      BY <1>1, <3>1
    <3>. QED BY <1>1, <3>1, <3>2
  <2>. QED BY <2>1, <2>2
<1>9. ASSUME NEW c \in 0 .. m - 1
      PROVE  LET e == EntryAt(i, w + c)
             IN  rd.dirs[c * EntryWords + 1] = e.inr /\ rd.dirs[c * EntryWords + 2] = e.name
  <2> DEFINE x == c * EntryWords
             p == w + c
  <2>1. c \in Nat /\ c < m /\ p \in Nat
    BY <1>3, <1>6
  <2>2. x \in Nat /\ (c + 1) * EntryWords = x + EntryWords
    BY <2>1, Geometry, SMTT(30)
  <2>3. x + EntryWords <= n
    <3>1. (c + 1) * EntryWords <= n
      BY <1>4, <2>1, PlaceWithin DEF m
    <3>. QED BY <2>2, <3>1
  <2>4. p * EntryWords = o + x
    BY <1>5, <2>1
  <2> HIDE DEF x, p
  <2>5. x \in 0 .. n - 1 /\ x + 1 \in 0 .. n - 1 /\ x + 1 \in 1 .. n /\ x + 2 \in 1 .. n
        /\ x \in 0 .. SectorSize - 1 /\ x + 1 \in 0 .. SectorSize - 1
    BY <1>1, <1>4, <2>2, <2>3, EntriesFill
  <2>6. BlockSector(i, p * EntryWords) = BlockSector(i, o)
    BY <1>1, <2>4, <2>5
  <2>7. (o + x) % SectorSize = x /\ (o + (x + 1)) % SectorSize = x + 1
    BY <1>1, <1>3, <2>5, SectorOfBlock
  <2>8. (p * EntryWords) % SectorSize = x /\ (p * EntryWords + 1) % SectorSize = x + 1
    <3>1. (o + x) + 1 = o + (x + 1)
      BY <1>3, <2>2
    <3>. QED BY <2>4, <2>7, <3>1
  <2>9. p \in EntryPlaces(i)
    <3>1. (p + 1) * EntryWords = p * EntryWords + EntryWords
      BY <2>1, Geometry, SMTT(30) DEF p
    <3>2. (p + 1) * EntryWords <= i.size
      <4> DEFINE y == (p + 1) * EntryWords
      <4>1. y = (o + x) + EntryWords
        BY <2>4, <3>1
      <4> HIDE DEF y
      <4>2. x \in Nat /\ EntryWords \in Nat /\ o \in Nat /\ n \in Nat /\ i.size \in Nat
        BY <1>3, <1>4, <2>2, EntriesFill
      <4>3. x + EntryWords <= n /\ o + n <= i.size
        BY <1>1, <2>3
      <4>4. y <= i.size
        BY <4>1, <4>2, <4>3
      <4>. QED BY <4>4 DEF y
    <3>3. p \in Nat
      BY <2>1
    <3>4. p < i.size \div EntryWords /\ i.size \div EntryWords \in Nat
      BY <1>3, <3>2, <3>3, PlaceWithin, Geometry, Quotient
    <3>. QED BY <1>1, <2>6, <3>3, <3>4 DEF EntryPlaces
  <2>10. /\ EntryAt(i, p).inr = image.words[BlockSector(i, o)][x]
         /\ EntryAt(i, p).name = image.words[BlockSector(i, o)][x + 1]
    BY <1>3, <2>6, <2>8, <2>9, EntryType
  <2>11. /\ rd.dirs[x + 1] = image.words[BlockSector(i, o)][(x + 1) - 1]
         /\ rd.dirs[x + 2] = image.words[BlockSector(i, o)][(x + 2) - 1]
    BY <1>1, <2>5
  <2>12. (x + 1) - 1 = x /\ (x + 2) - 1 = x + 1
    BY <2>2
  <2>13. rd.dirs[x + 1] = EntryAt(i, p).inr /\ rd.dirs[x + 2] = EntryAt(i, p).name
    BY <2>10, <2>11, <2>12
  <2>. QED BY <2>13 DEF x, p
<1>10. Straight(rd)
  <2>1. rd.off % SectorSize = 0 \/ rd.off = rd.inode.size
    <3>1. CASE n = SectorSize
      <4>1. SectorSize \in Nat \ {0}
        BY Geometry
      <4>2. (o + SectorSize) % SectorSize = 0
        BY <1>1, <1>3, <4>1, NextBoundary
      <4>. QED BY <1>1, <3>1, <4>2
    <3>2. CASE n # SectorSize
      BY <1>1, <3>2
    <3>. QED BY <3>1, <3>2
  <2>2. rd.cur <= rd.last /\ rd.last <= rd.off \div EntryWords
    BY <1>1, <1>3, <1>5, <1>6
  <2>3. \A c \in 0 .. rd.last - 1 :
          LET e == EntryAt(rd.inode, rd.off \div EntryWords - rd.last + c)
          IN  rd.dirs[c * EntryWords + 1] = e.inr /\ rd.dirs[c * EntryWords + 2] = e.name
    <3>1. rd.off \div EntryWords - rd.last = w
      BY <1>1, <1>3, <1>5, <1>6
    <3>. QED BY <1>1, <1>9, <3>1
  <2>4. rd.off = rd.inode.size => rd.inode.size % SectorSize \notin 1 .. EntryWords - 1
    <3>1. SUFFICES ASSUME o + n = i.size, i.size % SectorSize \in 1 .. EntryWords - 1 PROVE FALSE
      BY <1>1
    <3>2. n % SectorSize \in 1 .. EntryWords - 1
      BY <1>1, <3>1
    <3>3. CASE n = SectorSize
      <4>1. SectorSize = SectorSize * 1 + 0 /\ 0 \in 0 .. SectorSize - 1 /\ SectorSize \in Nat \ {0}
        BY Geometry
      <4>2. n % SectorSize = 0
        BY <3>3, <4>1, OneQuotient
      <4>. QED BY <3>2, <4>2
    <3>4. CASE n # SectorSize
      <4>1. /\ n = SectorSize * 0 + n /\ n \in 0 .. SectorSize - 1 /\ n \in Int
            /\ SectorSize \in Nat \ {0}
        BY <1>4, <3>4, Geometry
      <4>2. n % SectorSize = n
        BY <4>1, OneQuotient
      <4>. QED BY <1>2, <1>4, <3>2, <4>2, EntriesFill
    <3>. QED BY <3>3, <3>4
  <2>5. \A p \in 0 .. Taken(rd) - 1 : inode_read(image, EntryAt(rd.inode, p).inr) = ERR_NONE
    <3>1. \A p \in 0 .. Taken(d) - 1 : inode_read(image, EntryAt(i, p).inr) = ERR_NONE
      BY DEF Straight
    <3>. QED BY <1>1, <1>7, <3>1
  <2>6. \A off \in 0 .. rd.off - 1 : BlockSector(rd.inode, off) >= 0
    BY <1>1, <1>8
  <2>. QED BY <2>1, <2>2, <2>3, <2>4, <2>5, <2>6 DEF Straight
<1>11. rd.inode = i /\ rd.cur < rd.last
  BY <1>1, <1>6
<1>. QED BY <1>7, <1>10, <1>11 DEF rd

\* The next entry is taken from where the directory has it, or else the directory ends
\* in the middle of an entry.
LEMMA EntryTaken ==
    ASSUME Given, NEW d \in Readers, CursorsFit(d), Straight(d), HasEntry(d)
    PROVE  /\ After(d).inode = d.inode
           /\ \/ Stale(After(d))
              \/ /\ Taken(d) \in EntryPlaces(d.inode)
                 /\ EntryInr(d) = EntryAt(d.inode, Taken(d)).inr
                 /\ EntryName(d) = EntryAt(d.inode, Taken(d)).name
                 /\ Taken(After(d)) = Taken(d) + 1
                 /\ inode_read(image, EntryInr(d)) = ERR_NONE => Straight(After(d))
<1> DEFINE f == Filled(d)
<1>1. ~AtEnd(d) /\ ~Unreadable(d)
  BY DEF HasEntry
<1>2. f \in Readers /\ CursorsFit(f)
  <2>1. CASE d.cur = d.last
    BY <1>1, <2>1, Refilled DEF Filled
  <2>2. CASE d.cur # d.last
    BY <2>2 DEF Filled
  <2>. QED BY <2>1, <2>2
<1>3. \/ f.off = d.inode.size /\ d.inode.size % SectorSize \in 1 .. EntryWords - 1 /\ f.last = 0
         /\ f.inode = d.inode
      \/ Straight(f) /\ Taken(f) = Taken(d) /\ f.cur < f.last /\ f.inode = d.inode
  <2>1. CASE d.cur = d.last /\ BlockLength(d.inode, d.off) < EntryWords
    <3>1. f = Refill(d)
      BY <2>1 DEF Filled
    <3>. QED BY <1>1, <2>1, <3>1, ShortBlock
  <2>2. CASE d.cur = d.last /\ ~(BlockLength(d.inode, d.off) < EntryWords)
    <3>1. f = Refill(d)
      BY <2>2 DEF Filled
    <3>. QED BY <1>1, <2>2, <3>1, FullBlock
  <2>3. CASE d.cur # d.last
    <3>1. f = d
      BY <2>3 DEF Filled
    <3>2. d.cur < d.last
      BY <2>3, ReaderType DEF Straight
    <3>. QED BY <3>1, <3>2
  <2>. QED BY <2>1, <2>2, <2>3
<1>4. After(d) = [f EXCEPT !.cur = f.cur + 1]
  BY DEF After
<1>5. /\ EntryInr(d) = f.dirs[f.cur * EntryWords + 1]
      /\ EntryName(d) = f.dirs[f.cur * EntryWords + 2]
  BY DEF EntryInr, EntryName
<1> HIDE DEF f
<1>6. /\ After(d).inode = f.inode /\ After(d).off = f.off /\ After(d).dirs = f.dirs
      /\ After(d).last = f.last /\ After(d).cur = f.cur + 1
  <2>1. f = [inode |-> f.inode, off |-> f.off, dirs |-> f.dirs, cur |-> f.cur, last |-> f.last]
    BY <1>2 DEF Readers
  <2>2. After(d) = [inode |-> f.inode, off |-> f.off, dirs |-> f.dirs, cur |-> f.cur + 1,
                    last |-> f.last]
    BY <1>4, <2>1
  <2>. QED BY <2>2
<1>7. f.cur \in Nat /\ f.last \in Nat /\ f.off \div EntryWords \in Nat
  BY <1>2, ReaderType
<1>8. CASE f.off = d.inode.size /\ d.inode.size % SectorSize \in 1 .. EntryWords - 1 /\ f.last = 0
           /\ f.inode = d.inode
  <2>1. Stale(After(d))
    BY <1>6, <1>7, <1>8 DEF Stale
  <2>. QED BY <1>6, <1>8, <2>1
<1>9. CASE Straight(f) /\ Taken(f) = Taken(d) /\ f.cur < f.last /\ f.inode = d.inode
  <2>1. /\ Taken(f) \in EntryPlaces(f.inode)
        /\ f.dirs[f.cur * EntryWords + 1] = EntryAt(f.inode, Taken(f)).inr
        /\ f.dirs[f.cur * EntryWords + 2] = EntryAt(f.inode, Taken(f)).name
    BY <1>2, <1>9, NextHeld
  <2>2. Taken(After(d)) = Taken(f) + 1
    BY <1>6, <1>7 DEF Taken
  <2>3. ASSUME inode_read(image, EntryInr(d)) = ERR_NONE
        PROVE  Straight(After(d))
    <3>1. /\ f.off % SectorSize = 0 \/ f.off = f.inode.size
          /\ f.last <= f.off \div EntryWords
          /\ \A off \in 0 .. f.off - 1 : BlockSector(f.inode, off) >= 0
          /\ \A c \in 0 .. f.last - 1 :
                LET e == EntryAt(f.inode, f.off \div EntryWords - f.last + c)
                IN  f.dirs[c * EntryWords + 1] = e.inr /\ f.dirs[c * EntryWords + 2] = e.name
          /\ f.off = f.inode.size => f.inode.size % SectorSize \notin 1 .. EntryWords - 1
          /\ \A p \in 0 .. Taken(f) - 1 : inode_read(image, EntryAt(f.inode, p).inr) = ERR_NONE
      BY <1>9 DEF Straight
    <3>2. \A p \in 0 .. (Taken(f) + 1) - 1 : p = Taken(f) \/ p \in 0 .. Taken(f) - 1
      <4>1. Taken(f) \in Int
        BY <1>2, ReaderType
      <4> DEFINE t == Taken(f)
      <4> HIDE DEF t
      <4>2. \A p \in 0 .. (t + 1) - 1 : p = t \/ p \in 0 .. t - 1
        BY <4>1 DEF t
      <4>. QED BY <4>2 DEF t
    <3>3. \A p \in 0 .. Taken(After(d)) - 1 :
              inode_read(image, EntryAt(f.inode, p).inr) = ERR_NONE
      BY <1>5, <2>1, <2>2, <2>3, <3>1, <3>2
    <3>4. f.cur + 1 <= f.last
      BY <1>7, <1>9
    <3>. QED BY <1>6, <3>1, <3>3, <3>4 DEF Straight
  <2>. QED BY <1>5, <1>6, <1>9, <2>1, <2>2, <2>3
<1>. QED BY <1>3, <1>8, <1>9

\* A directory that has been read to its end has no other entries, and nothing stands
\* in the way of listing it.
LEMMA DirectoryEnds ==
    ASSUME Given, NEW d \in Readers, CursorsFit(d), Straight(d), AtEnd(d)
    PROVE  /\ Taken(d) \in Nat /\ \A p \in EntryPlaces(d.inode) : p \in Nat /\ p < Taken(d)
           /\ ~Spoiled(d.inode)
<1>1. /\ d.inode.size \in Nat /\ d.last \in Nat /\ d.off \div EntryWords \in Nat
      /\ d.inode \in StoredInode
  BY ReaderType
<1>2. d.cur = d.last /\ d.off = d.inode.size
  BY DEF AtEnd
<1>3. Taken(d) = d.inode.size \div EntryWords /\ Taken(d) \in Nat
  BY <1>1, <1>2 DEF Taken
<1>4. \A p \in EntryPlaces(d.inode) : p \in Nat /\ p < Taken(d)
  BY <1>1, <1>3, EntryType
<1>5. \A off \in 0 .. d.inode.size - 1 : BlockSector(d.inode, off) >= 0
  BY <1>2 DEF Straight
<1>6. \A off \in 0 .. d.inode.size - 1 : ~(BlockSector(d.inode, off) < 0)
  <2>1. SUFFICES ASSUME NEW off \in 0 .. d.inode.size - 1 PROVE ~(BlockSector(d.inode, off) < 0)
    OBVIOUS
  <2>2. off \in Int
    BY <1>1
  <2>3. BlockSector(d.inode, off) \in Int
    BY <1>1, <2>2, BlockSectorType
  <2>. QED BY <1>5, <2>3
<1>7. \A p \in EntryPlaces(d.inode) : inode_read(image, EntryAt(d.inode, p).inr) = ERR_NONE
  <2>1. \A p \in EntryPlaces(d.inode) : p \in 0 .. Taken(d) - 1
    BY <1>3, <1>4
  <2>. QED BY <2>1 DEF Straight
<1>8. d.inode.size % SectorSize \notin 1 .. EntryWords - 1
  BY <1>2 DEF Straight
<1>. QED BY <1>3, <1>4, <1>6, <1>7, <1>8 DEF Spoiled

\* readdir leaves its array only in a directory that ends in the middle of an entry.
LEMMA StrayIsHalf ==
    ASSUME Given, NEW d \in Readers, CursorsFit(d), Straight(d), Astray(d)
    PROVE  d.inode.size % SectorSize \in 1 .. EntryWords - 1
<1>1. ~AtEnd(d) /\ ~Unreadable(d) /\ ~((Filled(d).cur + 1) * EntryWords <= Len(Filled(d).dirs))
  BY DEF Astray, HasEntry
<1>2. ASSUME NEW f \in Readers, CursorsFit(f), f.cur < f.last
      PROVE  (f.cur + 1) * EntryWords <= Len(f.dirs)
  <2>1. f.cur \in Nat /\ f.last \in Nat /\ Len(f.dirs) \in Nat /\ f.last * EntryWords <= Len(f.dirs)
    BY ReaderType, <1>2 DEF CursorsFit
  <2>2. (f.cur + 1) * EntryWords <= f.last * EntryWords
        /\ (f.cur + 1) * EntryWords \in Int /\ f.last * EntryWords \in Int
    <3>1. f.cur + 1 \in Nat /\ f.cur + 1 <= f.last
      BY <1>2, <2>1
    <3> DEFINE x == f.cur + 1
               y == f.last
    <3> HIDE DEF x, y
    <3>2. x \in Nat /\ y \in Nat /\ x <= y /\ EntryWords \in Nat
      BY <2>1, <3>1, Geometry DEF x, y
    <3>3. x * EntryWords <= y * EntryWords /\ x * EntryWords \in Int /\ y * EntryWords \in Int
      BY <3>2, SMTT(30)
    <3>. QED BY <3>3 DEF x, y
  <2> DEFINE x == (f.cur + 1) * EntryWords
             y == f.last * EntryWords
  <2>3. x <= y /\ x \in Int /\ y \in Int /\ y <= Len(f.dirs)
    BY <2>1, <2>2
  <2> HIDE DEF x, y
  <2>4. x <= Len(f.dirs)
    BY <2>1, <2>3
  <2>. QED BY <2>4 DEF x
<1>3. d.cur = d.last
  <2>1. d.cur # d.last => d.cur < d.last /\ Filled(d) = d
    BY ReaderType DEF Straight, Filled
  <2>. QED BY <1>1, <1>2, <2>1
<1>4. Refill(d) \in Readers /\ CursorsFit(Refill(d)) /\ Filled(d) = Refill(d)
  BY <1>1, <1>3, Refilled DEF Filled
<1>5. CASE BlockLength(d.inode, d.off) < EntryWords
  BY <1>1, <1>3, <1>5, ShortBlock
<1>6. CASE ~(BlockLength(d.inode, d.off) < EntryWords)
  <2>1. Refill(d).cur < Refill(d).last
    BY <1>1, <1>3, <1>6, FullBlock
  <2>. QED BY <1>1, <1>2, <1>4, <2>1
<1>. QED BY <1>5, <1>6

\* Once cur has passed last the directory does not end.
LEMMA StaleStays ==
    ASSUME NEW d \in Readers, Stale(d)
    PROVE  ~AtEnd(d) /\ ~Unreadable(d) /\ Stale(After(d))
<1>1. d.cur \in Nat /\ d.cur # d.last
  BY DEF Readers, Stale
<1>2. ~AtEnd(d) /\ ~Unreadable(d) /\ Filled(d) = d
  BY <1>1 DEF AtEnd, Unreadable, Filled
<1>3. After(d) = [inode |-> d.inode, off |-> d.off, dirs |-> d.dirs, cur |-> d.cur + 1,
                  last |-> d.last]
  <2>1. d = [inode |-> d.inode, off |-> d.off, dirs |-> d.dirs, cur |-> d.cur, last |-> d.last]
    BY DEF Readers
  <2>2. After(d) = [d EXCEPT !.cur = d.cur + 1]
    BY <1>2 DEF After
  <2>. QED BY <2>1, <2>2
<1>4. Stale(After(d))
  BY <1>1, <1>3 DEF Stale
<1>. QED BY <1>2, <1>4

\* A directory just opened has had no entry taken.
LEMMA FreshReader ==
    ASSUME Given, NEW inr, image.itab[inr] \in StoredInode
    PROVE  /\ Straight(Reader(inr)) /\ Taken(Reader(inr)) = 0
           /\ Reader(inr).inode = image.itab[inr]
<1> DEFINE d == Reader(inr)
<1>1. /\ d.inode = image.itab[inr] /\ d.off = 0 /\ d.dirs = << >> /\ d.cur = 0 /\ d.last = 0
  BY DEF Reader
<1> HIDE DEF d
<1>2. 0 \div EntryWords = 0 /\ 0 % SectorSize = 0
  <2>1. 0 = EntryWords * 0 + 0 /\ 0 = SectorSize * 0 + 0 /\ 0 \in Int
        /\ 0 \in 0 .. EntryWords - 1 /\ 0 \in 0 .. SectorSize - 1
        /\ EntryWords \in Nat \ {0} /\ SectorSize \in Nat \ {0}
    BY Geometry
  <2>2. 0 \div EntryWords = 0
    BY <2>1, OneQuotient
  <2>3. 0 % SectorSize = 0
    BY <2>1, OneQuotient
  <2>. QED BY <2>2, <2>3
<1>3. Taken(d) = 0
  BY <1>1, <1>2 DEF Taken
<1>4. d.off = d.inode.size => d.inode.size % SectorSize \notin 1 .. EntryWords - 1
  BY <1>1, <1>2
<1>5. Straight(d)
  BY <1>1, <1>2, <1>3, <1>4 DEF Straight
<1>. QED BY <1>1, <1>3, <1>5 DEF d

-----------------------------------------------------------------------------------
(* What has been printed. *)

NodeLine(f) == Line(image.itab[f.inr].mode, f.path)

\* The lines are those of the nodes of S, each once and below its directory.
ListingOf(ls, S) ==
    /\ IsFiniteSet(S) /\ Len(ls) = Cardinality(S) /\ ToSet(ls) = {NodeLine(f) : f \in S}
    /\ \A k \in 2 .. Len(ls) : \E j \in 1 .. k - 1 : ls[j] = Line("dir", Front(ls[k].path))

Before(c) == {f \in AllFound : Precedes(f.at, c)}

\* What is in front of the last element.
LEMMA FrontOfAppend ==
    ASSUME NEW S, NEW s \in Seq(S), NEW x \in S
    PROVE  Front(Append(s, x)) = s
<1> DEFINE t == Append(s, x)
<1>1. /\ t \in Seq(S) /\ Len(t) = Len(s) + 1 /\ Len(s) \in Nat
      /\ \A j \in 1 .. Len(s) : t[j] = s[j]
  BY AppendProperties
<1> HIDE DEF t
<1>2. Front(t) = SubSeq(t, 1, Len(s))
  <2>1. Len(t) - 1 = Len(s)
    BY <1>1
  <2>. QED BY <2>1 DEF Front
<1>3. /\ SubSeq(t, 1, Len(s)) \in Seq(S) /\ Len(SubSeq(t, 1, Len(s))) = Len(s)
      /\ \A j \in 1 .. Len(s) : SubSeq(t, 1, Len(s))[j] = t[j]
  BY <1>1
<1>4. Front(t) = s
  BY <1>1, <1>2, <1>3, SeqEqual
<1>. QED BY <1>4 DEF t

\* One more line, of the node that comes next.
LEMMA ListNext ==
    ASSUME Given, NEW f \in AllFound, NEW T, NEW ls \in Seq(T), NodeLine(f) \in T,
           ListingOf(ls, Before(f.at))
    PROVE  ListingOf(Append(ls, NodeLine(f)), Before(f.at) \union {f})
<1> DEFINE l == NodeLine(f)
           S == Before(f.at)
           more == Append(ls, l)
<1>1. PICK n \in 0 .. StackDepth : f \in Found[n]
  BY DEF AllFound
<1>2. f.path \in Seq(Word) /\ f.at \in Seq(Nat)
  BY <1>1, NodeType
<1>3. f \notin S
  <2>1. Beneath(f.at, f.at)
    BY <1>2 DEF Beneath
  <2>. QED BY <1>2, <2>1, NotBefore DEF Before
<1>4. l.path = f.path
  BY DEF NodeLine, Line
<1>5. /\ IsFiniteSet(S) /\ Len(ls) = Cardinality(S) /\ ToSet(ls) = {NodeLine(g) : g \in S}
      /\ \A k \in 2 .. Len(ls) : \E j \in 1 .. k - 1 : ls[j] = Line("dir", Front(ls[k].path))
  BY DEF ListingOf
<1>6. /\ Len(more) = Len(ls) + 1 /\ Len(ls) \in Nat /\ more \in Seq(T)
      /\ \A j \in 1 .. Len(ls) : more[j] = ls[j]
      /\ more[Len(ls) + 1] = l
  BY AppendProperties
<1>7. DOMAIN more = 1 .. Len(ls) + 1 /\ DOMAIN ls = 1 .. Len(ls)
  BY <1>6, LenProperties
<1>8. n # 0 => \E j \in 1 .. Len(ls) : ls[j] = Line("dir", Front(f.path))
  <2>1. SUFFICES ASSUME n # 0 PROVE \E j \in 1 .. Len(ls) : ls[j] = Line("dir", Front(f.path))
    OBVIOUS
  <2>2. n \in 1 .. StackDepth /\ n - 1 \in 0 .. StackDepth
    BY <2>1, Geometry
  <2>3. PICK g \in Found[n - 1] : \E p \in EntryPlaces(image.itab[g.inr]) :
              /\ IsDir(g.inr) /\ f = Child(g, p) /\ p \in Nat
              /\ EntryAt(image.itab[g.inr], p).name \in Word
    BY <1>1, <2>2, ChildOf
  <2>4. PICK p \in EntryPlaces(image.itab[g.inr]) :
              /\ IsDir(g.inr) /\ f = Child(g, p) /\ p \in Nat
              /\ EntryAt(image.itab[g.inr], p).name \in Word
    BY <2>3
  <2>5. g \in AllFound /\ g.at \in Seq(Nat) /\ g.path \in Seq(Word)
    BY <2>2, NodeType DEF AllFound
  <2>6. f.at = Append(g.at, p) /\ f.path = Append(g.path, EntryAt(image.itab[g.inr], p).name)
    BY <2>4 DEF Child
  <2>7. Front(f.path) = g.path
    BY <2>4, <2>5, <2>6, FrontOfAppend
  <2>8. Precedes(g.at, f.at)
    BY <2>4, <2>5, <2>6, BeforeEntry
  <2>9. g \in S
    BY <2>5, <2>8 DEF Before
  <2>10. NodeLine(g) = Line("dir", g.path)
    BY <2>4, Openable DEF NodeLine
  <2>11. NodeLine(g) \in ToSet(ls)
    BY <1>5, <2>9
  <2>. QED BY <1>7, <2>7, <2>10, <2>11 DEF ToSet
<1>9. n = 0 => Len(ls) = 0
  <2>1. SUFFICES ASSUME n = 0 PROVE Len(ls) = 0
    OBVIOUS
  <2>2. Len(f.at) = 0
    BY <1>1, <2>1, NodeType
  <2>3. S = {}
    BY <2>2 DEF Before, Precedes
  <2> HIDE DEF S
  <2>. QED BY <1>5, <2>3, FS_EmptySet
<1>10. IsFiniteSet(S \union {f}) /\ Cardinality(S \union {f}) = Cardinality(S) + 1
  <2> HIDE DEF S
  <2>. QED BY <1>3, <1>5, FS_AddElement
<1>11. ToSet(more) = {NodeLine(g) : g \in S \union {f}}
  <2>1. ToSet(more) = {more[j] : j \in 1 .. Len(ls) + 1}
    BY <1>7 DEF ToSet
  <2>2. ToSet(ls) = {ls[j] : j \in 1 .. Len(ls)}
    BY <1>7 DEF ToSet
  <2>3. 1 .. Len(ls) + 1 = 1 .. Len(ls) \union {Len(ls) + 1}
    BY <1>6
  <2> HIDE DEF more
  <2>4. ToSet(more) = ToSet(ls) \union {l}
    BY <1>6, <2>1, <2>2, <2>3
  <2> HIDE DEF S
  <2>. QED BY <1>5, <2>4
<1>12. ASSUME NEW k \in 2 .. Len(more)
       PROVE  \E j \in 1 .. k - 1 : more[j] = Line("dir", Front(more[k].path))
  <2> HIDE DEF more, l
  <2>1. CASE k \in 2 .. Len(ls)
    <3>1. PICK j \in 1 .. k - 1 : ls[j] = Line("dir", Front(ls[k].path))
      BY <1>5, <2>1
    <3>2. more[k] = ls[k] /\ more[j] = ls[j]
      BY <1>6, <2>1
    <3>. QED BY <3>1, <3>2
  <2>2. CASE k = Len(ls) + 1
    <3>1. n # 0
      BY <1>6, <1>9, <2>2
    <3>2. PICK j \in 1 .. Len(ls) : ls[j] = Line("dir", Front(f.path))
      BY <1>8, <3>1
    <3>3. j \in 1 .. k - 1 /\ more[j] = ls[j] /\ more[k].path = f.path
      BY <1>4, <1>6, <2>2
    <3>. QED BY <3>2, <3>3
  <2>. QED BY <1>6, <2>1, <2>2
<1> HIDE DEF S
<1>13. Len(more) = Cardinality(S \union {f})
  BY <1>5, <1>6, <1>10
<1>. QED BY <1>10, <1>11, <1>12, <1>13 DEF ListingOf, S

\* The image stays, and with it what is found on it.
LEMMA FoundStays ==
    ASSUME image' = image
    PROVE  Found' = Found
BY DEF Found, Children, Child, EntryAt, EntryPlaces, Content, BlockSector, IsDir, opendir,
       inode_read

-----------------------------------------------------------------------------------
(* The calls under way, and where in the tree they are. *)

\* The entries that lead to the directory of call k: each call before it is at the one
\* it has taken last.
Address(s, k) == [j \in 1 .. k - 1 |-> Taken(s[j].reader) - 1]

\* The node that comes next: what the innermost call has not printed of its directory.
Cursor(s) ==
    LET m == Len(s)
    IN  IF s[m].shown THEN Append(Address(s, m), Taken(s[m].reader)) ELSE Address(s, m)

\* Call k is reading the directory found at its address.
OnPath(s, k) ==
    /\ Straight(s[k].reader)
    /\ ~s[k].shown => k = Len(s) /\ Taken(s[k].reader) = 0
    /\ \E f \in Found[k - 1] :
          /\ f.at = Address(s, k) /\ f.path = s[k].path /\ IsDir(f.inr)
          /\ s[k].reader.inode = image.itab[f.inr]

\* The listing of a directory is over, and nothing stood in its way.
Settled(f) == IsDir(f.inr) => ~Spoiled(image.itab[f.inr]) /\ Len(f.at) < StackDepth

\* What has been printed is what comes before the cursor, and there all directories
\* are settled but those being read.
ListedTo(s, ls, c) ==
    /\ ListingOf(ls, Before(c))
    /\ \A f \in Before(c) : Settled(f) \/ \E k \in 1 .. Len(s) : f.at = Address(s, k)

Walking(s, ls) == (\A k \in 1 .. Len(s) : OnPath(s, k)) /\ ListedTo(s, ls, Cursor(s))

\* A directory found ends in the middle of an entry.
HalfEntry ==
    \E f \in AllFound : IsDir(f.inr) /\ image.itab[f.inr].size % SectorSize \in 1 .. EntryWords - 1

\* No listing will come of it: a call reads on behind a directory that ends in the
\* middle of an entry.
Doomed(s) == HalfEntry /\ \E k \in 1 .. Len(s) : Stale(s[k].reader)

TreeInv ==
    command.op = "tree" =>
        IF pc = "running" THEN ret = ERR_NONE /\ (Walking(stack, lines) \/ Doomed(stack))
        ELSE TreeIsTrue /\ AstrayOnHalfEntry

\* Such a directory is in the way of success.
LEMMA HalfIsSpoiled == HalfEntry => ~Listable
BY DEF HalfEntry, Listable, Spoiled

\* Addresses depend on the readers above alone.
LEMMA SameAddress ==
    ASSUME NEW s, NEW t, NEW k \in Nat, \A j \in 1 .. k - 1 : t[j].reader = s[j].reader
    PROVE  Address(t, k) = Address(s, k)
BY DEF Address

\* The address of the directory that the last entry taken leads to.
LEMMA NextAddress ==
    ASSUME NEW s, NEW m \in Nat \ {0}, NEW t \in Nat, Taken(s[m].reader) = t + 1,
           Address(s, m) \in Seq(Nat), Len(Address(s, m)) = m - 1
    PROVE  Address(s, m + 1) = Append(Address(s, m), t)
<1> DEFINE a == Address(s, m)
           b == Address(s, m + 1)
<1>1. b = [j \in 1 .. m |-> Taken(s[j].reader) - 1]
  <2>1. (m + 1) - 1 = m
    OBVIOUS
  <2>. QED BY <2>1 DEF Address
<1>2. \A j \in 1 .. m - 1 : a[j] = Taken(s[j].reader) - 1
  BY DEF Address
<1>3. a \in Seq(Nat) /\ Len(a) = m - 1
  OBVIOUS
<1> HIDE DEF a
<1>4. /\ Append(a, t) \in Seq(Nat) /\ Len(Append(a, t)) = m
      /\ \A j \in 1 .. m - 1 : Append(a, t)[j] = a[j]
      /\ Append(a, t)[m] = t
  BY <1>3, AppendProperties
<1>5. \A j \in 1 .. m : Append(a, t)[j] = Taken(s[j].reader) - 1
  <2>1. \A j \in 1 .. m - 1 : Append(a, t)[j] = Taken(s[j].reader) - 1
    BY <1>2, <1>4
  <2>2. Append(a, t)[m] = Taken(s[m].reader) - 1
    BY <1>4
  <2>3. \A j \in 1 .. m : j \in 1 .. m - 1 \/ j = m
    OBVIOUS
  <2>. QED BY <2>1, <2>2, <2>3
<1>6. b \in Seq(Nat)
  <2>1. \A j \in 1 .. m : Append(a, t)[j] \in Nat
    BY <1>4, ElementOfSeq
  <2>2. \A j \in 1 .. m : Taken(s[j].reader) - 1 \in Nat
    BY <1>5, <2>1
  <2>3. b \in [1 .. m -> Nat]
    BY <1>1, <2>2
  <2> HIDE DEF b
  <2>. QED BY <2>3
<1>7. Len(b) = m /\ \A j \in 1 .. m : b[j] = Append(a, t)[j]
  <2>1. \A j \in 1 .. m : b[j] = Taken(s[j].reader) - 1
    BY <1>1
  <2>2. DOMAIN b = 1 .. m
    BY <1>1
  <2> HIDE DEF b
  <2>3. Len(b) = m
    BY <1>6, <2>2, LenProperties
  <2>. QED BY <1>5, <2>1, <2>3
<1> HIDE DEF b
<1>8. b = Append(a, t)
  BY <1>4, <1>6, <1>7, SeqEqual
<1>. QED BY <1>8 DEF a, b

\* The node a call is at.
LEMMA NodeOfCall ==
    ASSUME Given, NEW s, Len(s) \in Nat, Len(s) <= StackDepth, NEW k \in 1 .. Len(s), OnPath(s, k)
    PROVE  \E f \in Found[k - 1] :
              /\ f.at = Address(s, k) /\ f.path = s[k].path /\ IsDir(f.inr)
              /\ s[k].reader.inode = image.itab[f.inr]
              /\ k - 1 \in 0 .. StackDepth - 1 /\ f \in AllFound
              /\ f.at \in Seq(Nat) /\ Len(f.at) = k - 1
              /\ f.path \in Seq(Word)
              /\ NodeLine(f) = Line("dir", s[k].path)
<1>1. PICK f \in Found[k - 1] :
          /\ f.at = Address(s, k) /\ f.path = s[k].path /\ IsDir(f.inr)
          /\ s[k].reader.inode = image.itab[f.inr]
  BY DEF OnPath
<1>2. k - 1 \in 0 .. StackDepth - 1 /\ k - 1 \in 0 .. StackDepth
  BY Geometry
<1>3. f \in AllFound /\ f.at \in Seq(Nat) /\ Len(f.at) = k - 1 /\ f.path \in Seq(Word)
  BY <1>2, NodeType DEF AllFound
<1>4. NodeLine(f) = Line("dir", s[k].path)
  BY <1>1, Openable DEF NodeLine
<1>. QED BY <1>1, <1>2, <1>3, <1>4

\* The innermost call.
LEMMA TopOfStack ==
    ASSUME Given, TypeOK, InTree
    PROVE  /\ Len(stack) \in Nat \ {0} /\ Len(stack) <= StackDepth
           /\ Top = stack[Len(stack)] /\ lines \in Seq(Printed)
           /\ Top.reader \in Readers /\ CursorsFit(Top.reader) /\ Top.shown \in BOOLEAN
           /\ Len(Front(stack)) = Len(stack) - 1
           /\ \A j \in 1 .. Len(stack) - 1 : Front(stack)[j] = stack[j]
           /\ TopAfter.reader = After(Top.reader) /\ TopAfter.path = Top.path /\ TopAfter.shown
           /\ \A j \in 1 .. Len(stack) - 1 : Append(Front(stack), TopAfter)[j] = stack[j]
           /\ Append(Front(stack), TopAfter)[Len(stack)] = TopAfter
           /\ Len(Append(Front(stack), TopAfter)) = Len(stack)
<1>1. /\ stack # << >> /\ StackOK(stack) /\ Len(stack) \in Nat \ {0}
      /\ Top \in Frames /\ Top.reader \in Readers /\ CursorsFit(Top.reader)
      /\ StackOK(Front(stack)) /\ Len(Front(stack)) = Len(stack) - 1
  BY TheTop
<1>2. /\ stack \in Seq(Frames) /\ Len(stack) <= StackDepth /\ Front(stack) \in Seq(Frames)
      /\ lines \in Seq(Printed)
  BY <1>1 DEF StackOK, TypeOK
<1>3. Top = stack[Len(stack)]
  BY DEF Top, Last
<1>4. \A j \in 1 .. Len(stack) - 1 : Front(stack)[j] = stack[j]
  <2>1. \A j \in 1 .. Len(stack) - 1 : SubSeq(stack, 1, Len(stack) - 1)[j] = stack[j]
    BY <1>1, <1>2
  <2>. QED BY <2>1 DEF Front
<1>5. TopAfter.reader = After(Top.reader) /\ TopAfter.path = Top.path /\ TopAfter.shown
  <2>1. Top = [path |-> Top.path, reader |-> Top.reader, shown |-> Top.shown]
    BY <1>1 DEF Frames
  <2>2. TopAfter = [path |-> Top.path, reader |-> After(Top.reader), shown |-> TRUE]
    <3>1. TopAfter = [Top EXCEPT !.reader = After(Top.reader), !.shown = TRUE]
      BY DEF TopAfter
    <3>. QED BY <2>1, <3>1
  <2>. QED BY <2>2
<1>6. /\ Len(Append(Front(stack), TopAfter)) = Len(stack)
      /\ \A j \in 1 .. Len(stack) - 1 : Append(Front(stack), TopAfter)[j] = Front(stack)[j]
      /\ Append(Front(stack), TopAfter)[Len(stack)] = TopAfter
  <2> DEFINE u == Front(stack)
             x == TopAfter
  <2>1. u \in Seq(Frames) /\ Len(u) = Len(stack) - 1
    BY <1>1, <1>2
  <2> HIDE DEF u, x
  <2>2. u \in Seq(Frames \union {x}) /\ x \in Frames \union {x}
    BY <2>1
  <2>3. /\ Len(Append(u, x)) = Len(u) + 1 /\ \A j \in 1 .. Len(u) : Append(u, x)[j] = u[j]
        /\ Append(u, x)[Len(u) + 1] = x
    BY <2>2, AppendProperties
  <2>4. (Len(stack) - 1) + 1 = Len(stack)
    BY <1>1
  <2>5. Len(Append(u, x)) = Len(stack) /\ Append(u, x)[Len(stack)] = x
        /\ \A j \in 1 .. Len(stack) - 1 : Append(u, x)[j] = u[j]
    BY <2>1, <2>3, <2>4
  <2>. QED BY <2>5 DEF u, x
<1>7. Top.shown \in BOOLEAN
  BY <1>1 DEF Frames
<1>. QED BY <1>1, <1>2, <1>3, <1>4, <1>5, <1>6, <1>7

\* Once its directory has a line, the innermost call is at its next entry.
LEMMA HeadedListing ==
    ASSUME Given, TypeOK, InTree, Walking(stack, lines)
    PROVE  LET m == Len(stack)
           IN  ListedTo(stack, lines \o Heading, Append(Address(stack, m), Taken(Top.reader)))
<1> DEFINE m == Len(stack)
           A == Address(stack, m)
           T == Taken(Top.reader)
<1>1. m \in Nat \ {0} /\ m <= StackDepth /\ Top = stack[m] /\ lines \in Seq(Printed) /\ m \in 1 .. m
  BY TopOfStack
<1>2. OnPath(stack, m) /\ ListedTo(stack, lines, Cursor(stack))
  BY <1>1 DEF Walking
<1>3. CASE Top.shown
  <2>1. Heading = << >> /\ Cursor(stack) = Append(A, T)
    BY <1>1, <1>3 DEF Heading, Cursor
  <2>2. lines \o << >> = lines
    BY <1>1
  <2>. QED BY <1>2, <2>1, <2>2
<1>4. CASE ~Top.shown
  <2>1. Cursor(stack) = A /\ T = 0
    BY <1>1, <1>2, <1>4 DEF Cursor, OnPath
  <2>2. Heading = <<Line("dir", Top.path)>>
    BY <1>4 DEF Heading
  <2>3. PICK f \in Found[m - 1] :
              /\ f.at = A /\ f.path = Top.path /\ IsDir(f.inr)
              /\ f \in AllFound /\ f.at \in Seq(Nat) /\ f.path \in Seq(Word)
              /\ NodeLine(f) = Line("dir", Top.path)
    BY <1>1, <1>2, NodeOfCall
  <2>4. NodeLine(f) \in Printed
    BY <2>3 DEF Line, Printed
  <2>5. ListingOf(lines, Before(f.at))
    BY <1>2, <2>1, <2>3 DEF ListedTo
  <2>6. ListingOf(Append(lines, NodeLine(f)), Before(f.at) \union {f})
    BY <1>1, <2>3, <2>4, <2>5, ListNext
  <2>7. lines \o Heading = Append(lines, NodeLine(f))
    BY <1>1, <2>2, <2>3, <2>4, AppendIsConcat
  <2>8. Before(Append(A, T)) = Before(f.at) \union {f}
    <3>1. ASSUME NEW g \in AllFound
          PROVE  Precedes(g.at, Append(A, 0)) <=> Precedes(g.at, A) \/ g = f
      <4>1. g.at \in Seq(Nat)
        BY NodeType DEF AllFound
      <4>2. Precedes(g.at, Append(A, 0)) <=>
              \/ Precedes(g.at, A) \/ g.at = A
              \/ Beneath(g.at, A) /\ Len(g.at) > Len(A) /\ g.at[Len(A) + 1] < 0
        BY <2>3, <4>1, BeforeEntry
      <4>3. ~(Len(g.at) > Len(A) /\ g.at[Len(A) + 1] < 0)
        <5>1. A \in Seq(Nat) /\ Len(A) \in Nat /\ Len(g.at) \in Nat
          BY <2>3, <4>1
        <5> HIDE DEF A
        <5>2. Len(g.at) > Len(A) => Len(A) + 1 \in 1 .. Len(g.at)
          BY <5>1
        <5>3. Len(g.at) > Len(A) => g.at[Len(A) + 1] \in Nat
          BY <4>1, <5>2, ElementOfSeq
        <5>. QED BY <5>3
      <4>4. g.at = A <=> g = f
        BY <2>3, OneNode
      <4>. QED BY <4>2, <4>3, <4>4
    <3>. QED BY <2>1, <2>3, <3>1 DEF Before
  <2>9. ASSUME NEW g \in Before(Append(A, T))
        PROVE  Settled(g) \/ \E k \in 1 .. Len(stack) : g.at = Address(stack, k)
    <3>1. CASE g \in Before(A)
      BY <1>2, <2>1, <3>1 DEF ListedTo
    <3>2. CASE g = f
      BY <1>1, <2>3, <3>2
    <3>. QED BY <2>3, <2>8, <2>9, <3>1, <3>2
  <2>. QED BY <2>6, <2>7, <2>8, <2>9 DEF ListedTo
<1>. QED BY <1>1, <1>3, <1>4

\* What taking an entry comes to: the node it leads to is found and comes next, or all
\* is lost.
LEMMA EntryFollowed ==
    ASSUME Given, TypeOK, InTree, Walking(stack, lines), HasEntry(Top.reader)
    PROVE  LET m == Len(stack)
               A == Address(stack, m)
               T == Taken(Top.reader)
           IN  \/ Stale(After(Top.reader)) /\ HalfEntry
               \/ inode_read(image, ChildInr) # ERR_NONE /\ ~Listable
               \/ /\ inode_read(image, ChildInr) = ERR_NONE
                  /\ \E c \in Found[m] : c.inr = ChildInr /\ c.path = ChildPath /\ c.at = Append(A, T)
                                         /\ c \in AllFound /\ c.path \in Seq(Word)
                  /\ T \in Nat /\ A \in Seq(Nat) /\ Len(A) = m - 1
                  /\ Straight(After(Top.reader)) /\ Taken(After(Top.reader)) = T + 1
                  /\ After(Top.reader).inode = Top.reader.inode
<1> DEFINE m == Len(stack)
           A == Address(stack, m)
           d == Top.reader
           T == Taken(d)
<1>1. m \in Nat \ {0} /\ m <= StackDepth /\ Top = stack[m] /\ m \in 1 .. m
      /\ d \in Readers /\ CursorsFit(d)
  BY TopOfStack
<1>2. OnPath(stack, m)
  BY <1>1 DEF Walking
<1>3. PICK f \in Found[m - 1] :
              /\ f.at = A /\ f.path = Top.path /\ IsDir(f.inr)
              /\ d.inode = image.itab[f.inr] /\ m - 1 \in 0 .. StackDepth - 1
              /\ f \in AllFound /\ f.at \in Seq(Nat) /\ Len(f.at) = m - 1
  BY <1>1, <1>2, NodeOfCall
<1>4. Straight(d)
  BY <1>1, <1>2 DEF OnPath
<1>5. /\ After(d).inode = d.inode
      /\ \/ Stale(After(d))
         \/ /\ T \in EntryPlaces(d.inode)
            /\ ChildInr = EntryAt(d.inode, T).inr
            /\ EntryName(d) = EntryAt(d.inode, T).name
            /\ Taken(After(d)) = T + 1
            /\ inode_read(image, ChildInr) = ERR_NONE => Straight(After(d))
  BY <1>1, <1>4, EntryTaken DEF ChildInr
<1>6. ASSUME Spoiled(d.inode) PROVE ~Listable
  BY <1>3, <1>6 DEF Listable
<1>7. CASE Stale(After(d))
  <2>1. d.inode.size % SectorSize \in 1 .. EntryWords - 1
    BY <1>5, <1>7 DEF Stale
  <2>2. HalfEntry
    BY <1>3, <2>1 DEF HalfEntry
  <2>. QED BY <1>7, <2>2
<1>8. CASE ~Stale(After(d)) /\ inode_read(image, ChildInr) # ERR_NONE
  <2>1. Spoiled(d.inode)
    BY <1>5, <1>8 DEF Spoiled
  <2>. QED BY <1>6, <1>8, <2>1
<1>9. CASE ~Stale(After(d)) /\ inode_read(image, ChildInr) = ERR_NONE
  <2> DEFINE c == Child(f, T)
  <2>1. c.inr = ChildInr /\ c.path = Append(f.path, EntryAt(d.inode, T).name) /\ c.at = Append(A, T)
    BY <1>3, <1>5, <1>9 DEF Child
  <2>2. c.path = ChildPath
    BY <1>3, <1>5, <1>9, <2>1 DEF ChildPath
  <2>3. c \in Found[(m - 1) + 1]
    BY <1>3, <1>5, <1>9, ChildFound
  <2>4. (m - 1) + 1 = m /\ m \in 0 .. StackDepth
    BY <1>1, Geometry
  <2>5. d.inode \in StoredInode /\ T \in Nat
    BY <1>1, <1>5, <1>9, ReaderType, EntryType
  <2> HIDE DEF c
  <2>6. c \in Found[m] /\ c \in AllFound
    BY <2>3, <2>4 DEF AllFound
  <2>7. c.path \in Seq(Word)
    BY <2>4, <2>6, NodeType
  <2>. QED BY <1>3, <1>5, <1>9, <2>1, <2>2, <2>5, <2>6, <2>7
<1>. QED BY <1>7, <1>8, <1>9

-----------------------------------------------------------------------------------
(* The steps of direntv6_print_tree. *)

\* A call that goes on above another is where it was.
LEMMA CallsAbove ==
    ASSUME NEW s, NEW t, NEW k \in Nat, k # Len(s), OnPath(s, k), t[k] = s[k],
           \A j \in 1 .. k - 1 : t[j] = s[j]
    PROVE  OnPath(t, k) /\ Address(t, k) = Address(s, k)
<1>1. Address(t, k) = Address(s, k)
  BY SameAddress
<1>2. s[k].shown
  BY DEF OnPath
<1>. QED BY <1>1, <1>2 DEF OnPath

\* So is the innermost, with one entry more taken.
LEMMA CallsStay ==
    ASSUME Given, TypeOK, InTree, Walking(stack, lines),
           Straight(After(Top.reader)), After(Top.reader).inode = Top.reader.inode,
           NEW t, t[Len(stack)] = TopAfter, \A j \in 1 .. Len(stack) - 1 : t[j] = stack[j]
    PROVE  \A k \in 1 .. Len(stack) : OnPath(t, k) /\ Address(t, k) = Address(stack, k)
<1> DEFINE m == Len(stack)
<1>1. m \in Nat \ {0} /\ Top = stack[m] /\ m \in 1 .. m
      /\ TopAfter.reader = After(Top.reader) /\ TopAfter.path = Top.path /\ TopAfter.shown
  BY TopOfStack
<1>2. \A k \in 1 .. m : OnPath(stack, k)
  BY DEF Walking
<1>3. ASSUME NEW k \in 1 .. m, k # m PROVE OnPath(t, k) /\ Address(t, k) = Address(stack, k)
  <2>1. k \in Nat /\ k \in 1 .. m - 1 /\ \A j \in 1 .. k - 1 : j \in 1 .. m - 1
    BY <1>1, <1>3
  <2>2. t[k] = stack[k] /\ \A j \in 1 .. k - 1 : t[j] = stack[j]
    BY <2>1
  <2>. QED BY <1>2, <1>3, <2>1, <2>2, CallsAbove
<1>4. OnPath(t, m) /\ Address(t, m) = Address(stack, m)
  <2>1. Address(t, m) = Address(stack, m)
    BY <1>1, SameAddress
  <2>2. PICK f \in Found[m - 1] :
            /\ f.at = Address(stack, m) /\ f.path = Top.path /\ IsDir(f.inr)
            /\ Top.reader.inode = image.itab[f.inr]
    BY <1>1, <1>2 DEF OnPath
  <2>. QED BY <1>1, <2>1, <2>2 DEF OnPath
<1>. QED BY <1>3, <1>4

\* A call that reads on behind the end of its directory goes on doing so.
LEMMA StillDoomed ==
    ASSUME Given, TypeOK, InTree, Doomed(stack),
           NEW t, Len(t) \in Nat, Len(t) >= Len(stack), t[Len(stack)].reader = After(Top.reader),
           \A j \in 1 .. Len(stack) - 1 : t[j] = stack[j]
    PROVE  Doomed(t)
<1> DEFINE m == Len(stack)
<1>1. m \in Nat \ {0} /\ Top = stack[m] /\ Top.reader \in Readers
  BY TopOfStack
<1>2. PICK k \in 1 .. m : Stale(stack[k].reader)
  BY DEF Doomed
<1>3. k \in 1 .. Len(t)
  BY <1>1
<1>4. Stale(t[k].reader)
  <2>1. CASE k = m
    BY <1>1, <1>2, <2>1, StaleStays
  <2>2. CASE k # m
    <3>1. k \in 1 .. m - 1
      BY <1>1, <2>2
    <3>. QED BY <1>2, <3>1
  <2>. QED BY <2>1, <2>2
<1>. QED BY <1>3, <1>4 DEF Doomed

\* A file is listed behind all that comes before it.
LEMMA FileStep ==
    ASSUME Given, TypeOK, Walking(stack, lines) \/ Doomed(stack), TreeFile
    PROVE  Walking(stack', lines') \/ Doomed(stack')
<1> DEFINE m == Len(stack)
           A == Address(stack, m)
           d == Top.reader
           T == Taken(d)
           t == Append(Front(stack), TopAfter)
           ls == lines \o Heading
<1>1. /\ InTree /\ HasEntry(d) /\ inode_read(image, ChildInr) = ERR_NONE
      /\ image.itab[ChildInr].mode = "file" /\ stack' = t
      /\ lines' = ls \o <<Line("file", ChildPath)>>
  BY DEF TreeFile
<1>2. /\ m \in Nat \ {0} /\ m <= StackDepth /\ Top = stack[m] /\ m \in 1 .. m
      /\ d \in Readers /\ TopAfter.reader = After(d) /\ TopAfter.shown
      /\ Len(t) = m /\ t[m] = TopAfter /\ \A j \in 1 .. m - 1 : t[j] = stack[j]
  BY <1>1, TopOfStack
<1>3. CASE Doomed(stack)
  <2> HIDE DEF t
  <2>1. Len(t) \in Nat /\ Len(t) >= m /\ t[m].reader = After(d)
    BY <1>2
  <2>2. Doomed(t)
    BY <1>1, <1>2, <1>3, <2>1, StillDoomed
  <2>. QED BY <1>1, <2>2
<1>4. CASE Walking(stack, lines)
  <2>1. CASE Stale(After(d)) /\ HalfEntry
    BY <1>1, <1>2, <2>1 DEF Doomed
  <2>2. CASE ~(Stale(After(d)) /\ HalfEntry)
    <3>1. /\ \E c \in Found[m] : c.inr = ChildInr /\ c.path = ChildPath /\ c.at = Append(A, T)
                                 /\ c \in AllFound /\ c.path \in Seq(Word)
          /\ T \in Nat /\ A \in Seq(Nat) /\ Len(A) = m - 1
          /\ Straight(After(d)) /\ Taken(After(d)) = T + 1
          /\ After(d).inode = d.inode
      BY <1>1, <1>4, <2>2, EntryFollowed
    <3>2. PICK c \in Found[m] : c.inr = ChildInr /\ c.path = ChildPath /\ c.at = Append(A, T)
                                /\ c \in AllFound /\ c.path \in Seq(Word)
      BY <3>1
    <3>3. ListedTo(stack, ls, c.at)
      BY <1>1, <1>4, <3>2, HeadedListing
    <3>4. NodeLine(c) = Line("file", ChildPath) /\ NodeLine(c) \in Printed
      BY <1>1, <3>2 DEF NodeLine, Line, Printed
    <3>5. ls \in Seq(Printed)
      BY <1>1, TreeLines
    <3>6. ListingOf(Append(ls, NodeLine(c)), Before(c.at) \union {c})
      BY <3>2, <3>3, <3>4, <3>5, ListNext DEF ListedTo
    <3>7. lines' = Append(ls, NodeLine(c))
      <4> HIDE DEF ls
      <4>. QED BY <1>1, <3>4, <3>5, AppendIsConcat
    <3>8. ~IsDir(c.inr)
      BY <1>1, <3>2 DEF IsDir, opendir, ERR_INVALID_DIRECTORY_INODE, ERR_NONE
    <3>9. Before(Append(A, T + 1)) = Before(c.at) \union {c}
      <4>1. ASSUME NEW g \in AllFound
            PROVE  Precedes(g.at, Append(A, T + 1)) <=> Precedes(g.at, c.at) \/ g = c
        <5>1. g.at \in Seq(Nat) /\ c.at \in Seq(Nat)
          BY <3>2, NodeType DEF AllFound
        <5>2. Precedes(g.at, Append(A, T + 1)) <=> Precedes(g.at, c.at) \/ Beneath(g.at, c.at)
          BY <3>1, <3>2, <5>1, BeforeNextEntry
        <5>3. Beneath(g.at, c.at) => g = c
          <6>1. SUFFICES ASSUME Beneath(g.at, c.at) PROVE g = c
            OBVIOUS
          <6>2. ~(Len(g.at) > Len(c.at))
            BY <3>2, <3>8, <6>1, BelowEntry
          <6>3. Len(c.at) = Len(g.at) /\ \A j \in 1 .. Len(c.at) : g.at[j] = c.at[j]
            BY <5>1, <6>1, <6>2 DEF Beneath
          <6>4. g.at = c.at
            BY <5>1, <6>3, SeqEqual
          <6>. QED BY <3>2, <6>4, OneNode
        <5>4. g = c => Beneath(g.at, c.at)
          BY <5>1 DEF Beneath
        <5>. QED BY <5>2, <5>3, <5>4
      <4>. QED BY <3>2, <4>1 DEF Before
    <3>10. \A k \in 1 .. m : OnPath(t, k) /\ Address(t, k) = Address(stack, k)
      <4> HIDE DEF t
      <4>. QED BY <1>1, <1>2, <1>4, <3>1, CallsStay
    <3> HIDE DEF t, ls
    <3>11. Cursor(t) = Append(A, T + 1)
      BY <1>2, <3>1, <3>10 DEF Cursor
    <3>12. ASSUME NEW f \in Before(Append(A, T + 1))
           PROVE  Settled(f) \/ \E k \in 1 .. Len(t) : f.at = Address(t, k)
      <4>1. CASE f = c
        BY <3>8, <4>1 DEF Settled
      <4>2. CASE f \in Before(c.at)
        BY <1>2, <3>3, <3>10, <4>2 DEF ListedTo
      <4>. QED BY <3>9, <3>12, <4>1, <4>2
    <3>13. ListedTo(t, lines', Append(A, T + 1))
      BY <3>6, <3>7, <3>9, <3>12 DEF ListedTo
    <3>14. Walking(t, lines')
      BY <1>2, <3>10, <3>11, <3>13 DEF Walking
    <3>. QED BY <1>1, <3>14
  <2>. QED BY <2>1, <2>2
<1>. QED BY <1>3, <1>4

\* What the recursive call finds: the calls above it and the new one.
LEMMA Deeper ==
    ASSUME Given, TypeOK, InTree, HasEntry(Top.reader), NEW x
    PROVE  LET m == Len(stack)
               t == Front(stack) \o <<TopAfter, x>>
           IN  /\ Len(t) = m + 1 /\ t[m + 1] = x /\ t[m] = TopAfter
               /\ \A j \in 1 .. m - 1 : t[j] = stack[j]
<1> DEFINE m == Len(stack)
           s == Append(Front(stack), TopAfter)
           t == Front(stack) \o <<TopAfter, x>>
<1>1. /\ m \in Nat \ {0} /\ Len(s) = m /\ s[m] = TopAfter /\ \A j \in 1 .. m - 1 : s[j] = stack[j]
  BY TopOfStack
<1>2. Front(stack) \in Seq(Frames)
  BY TheTop DEF StackOK
<1> DEFINE u == Front(stack)
           y == TopAfter
           A == Frames \union {y, x}
<1>3. u \in Seq(A) /\ y \in A /\ x \in A
  BY <1>2
<1>4. s = Append(u, y) /\ t = u \o <<y, x>>
  OBVIOUS
<1> HIDE DEF u, y, A, s, t
<1>5. t = Append(s, x) /\ s \in Seq(A)
  BY <1>3, <1>4
<1>6. /\ Len(t) = Len(s) + 1 /\ t[Len(s) + 1] = x
      /\ \A j \in 1 .. Len(s) : t[j] = s[j]
  BY <1>3, <1>5, AppendProperties
<1>7. m \in 1 .. Len(s) /\ \A j \in 1 .. m - 1 : j \in 1 .. Len(s)
  BY <1>1
<1>8. /\ Len(t) = m + 1 /\ t[m + 1] = x /\ t[m] = y
      /\ \A j \in 1 .. m - 1 : t[j] = stack[j]
  BY <1>1, <1>6, <1>7 DEF y
<1>. QED BY <1>8 DEF t, y

\* The recursive call begins where the listing has come to.
LEMMA DescendStep ==
    ASSUME Given, TypeOK, Walking(stack, lines) \/ Doomed(stack), TreeDescends,
           Len(stack) < StackDepth
    PROVE  Walking(stack', lines') \/ Doomed(stack')
<1> DEFINE m == Len(stack)
           A == Address(stack, m)
           d == Top.reader
           T == Taken(d)
           x == Frame(ChildPath, ChildInr)
           t == Front(stack) \o <<TopAfter, x>>
           ls == lines \o Heading
<1>1. /\ InTree /\ HasEntry(d) /\ inode_read(image, ChildInr) = ERR_NONE
      /\ image.itab[ChildInr].mode = "dir" /\ stack' = t /\ lines' = ls
  BY DEF TreeDescends
<1>2. /\ m \in Nat \ {0} /\ m <= StackDepth /\ Top = stack[m] /\ m \in 1 .. m
      /\ d \in Readers /\ TopAfter.reader = After(d) /\ TopAfter.shown
  BY <1>1, TopOfStack
<1>3. Len(t) = m + 1 /\ t[m + 1] = x /\ t[m] = TopAfter /\ \A j \in 1 .. m - 1 : t[j] = stack[j]
  BY <1>1, Deeper
<1>4. x.path = ChildPath /\ x.reader = Reader(ChildInr) /\ ~x.shown
  BY DEF Frame
<1> HIDE DEF t, x
<1>5. CASE Doomed(stack)
  <2>1. Len(t) \in Nat /\ Len(t) >= m /\ t[m].reader = After(d)
    BY <1>2, <1>3
  <2>2. Doomed(t)
    BY <1>1, <1>3, <1>5, <2>1, StillDoomed
  <2>. QED BY <1>1, <2>2
<1>6. CASE Walking(stack, lines)
  <2>1. CASE Stale(After(d)) /\ HalfEntry
    <3>1. m \in 1 .. Len(t) /\ t[m].reader = After(d)
      BY <1>2, <1>3
    <3>. QED BY <1>1, <2>1, <3>1 DEF Doomed
  <2>2. CASE ~(Stale(After(d)) /\ HalfEntry)
    <3>1. /\ \E c \in Found[m] : c.inr = ChildInr /\ c.path = ChildPath /\ c.at = Append(A, T)
                                 /\ c \in AllFound /\ c.path \in Seq(Word)
          /\ T \in Nat /\ A \in Seq(Nat) /\ Len(A) = m - 1
          /\ Straight(After(d)) /\ Taken(After(d)) = T + 1
          /\ After(d).inode = d.inode
      BY <1>1, <1>6, <2>2, EntryFollowed
    <3>2. PICK c \in Found[m] : c.inr = ChildInr /\ c.path = ChildPath /\ c.at = Append(A, T)
      BY <3>1
    <3>3. ListedTo(stack, ls, Append(A, T))
      BY <1>1, <1>6, HeadedListing
    <3>4. \A k \in 1 .. m : OnPath(t, k) /\ Address(t, k) = Address(stack, k)
      BY <1>1, <1>3, <1>6, <3>1, CallsStay
    <3>5. Address(t, m + 1) = Append(A, T)
      <4>1. Taken(t[m].reader) = T + 1 /\ Address(t, m) = A
        BY <1>2, <1>3, <3>1, <3>4
      <4>. QED BY <1>2, <3>1, <4>1, NextAddress
    <3>6. IsDir(c.inr)
      BY <1>1, <3>2 DEF IsDir, opendir, ERR_NONE
    <3>7. OnPath(t, m + 1)
      <4>1. image.itab[ChildInr] \in StoredInode
        BY <1>1, Readable
      <4>2. /\ Straight(t[m + 1].reader) /\ Taken(t[m + 1].reader) = 0
            /\ t[m + 1].reader.inode = image.itab[c.inr] /\ t[m + 1].path = c.path
        BY <1>3, <1>4, <3>2, <4>1, FreshReader
      <4>3. (m + 1) - 1 = m
        BY <1>2
      <4>. QED BY <1>3, <3>2, <3>5, <3>6, <4>2, <4>3 DEF OnPath
    <3>8. \A k \in 1 .. Len(t) : OnPath(t, k)
      <4>1. \A k \in 1 .. Len(t) : k \in 1 .. m \/ k = m + 1
        BY <1>2, <1>3
      <4>. QED BY <3>4, <3>7, <4>1
    <3>9. Cursor(t) = Append(A, T)
      BY <1>3, <1>4, <3>5 DEF Cursor
    <3>10. \A k \in 1 .. m : k \in 1 .. Len(t)
      BY <1>2, <1>3
    <3>11. ListedTo(t, ls, Append(A, T))
      <4> HIDE DEF ls
      <4>. QED BY <3>3, <3>4, <3>10 DEF ListedTo
    <3>12. Walking(t, ls)
      BY <3>8, <3>9, <3>11 DEF Walking
    <3>. QED BY <1>1, <3>12
  <2>. QED BY <2>1, <2>2
<1>. QED BY <1>5, <1>6

\* What an outcome is to say.
Outcome(p, r, ls) ==
    /\ (p = "ended" /\ r = ERR_NONE) = (Listable /\ \A f \in Found[StackDepth] : ~IsDir(f.inr))
    /\ Listable => p = "killed" \/ (p = "ended" /\ r = ERR_NONE)
    /\ p = "ended" /\ r = ERR_NONE => ListingOf(ls, AllFound)
    /\ p = "astray" => HalfEntry

\* The innermost call reads a directory that is found.
LEMMA TopHalf ==
    ASSUME Given, TypeOK, InTree, Walking(stack, lines),
           Top.reader.inode.size % SectorSize \in 1 .. EntryWords - 1
    PROVE  HalfEntry
<1>1. /\ Len(stack) \in 1 .. Len(stack) /\ Len(stack) \in Nat /\ Len(stack) <= StackDepth
      /\ Top = stack[Len(stack)]
  BY TopOfStack
<1>2. \E f \in AllFound : IsDir(f.inr) /\ Top.reader.inode = image.itab[f.inr]
  BY <1>1, NodeOfCall DEF Walking
<1>. QED BY <1>2 DEF HalfEntry

\* A directory that cannot be listed is in the way of success.
LEMMA TopSpoiled ==
    ASSUME Given, TypeOK, InTree, Walking(stack, lines), Spoiled(Top.reader.inode)
    PROVE  ~Listable
<1>1. /\ Len(stack) \in 1 .. Len(stack) /\ Len(stack) \in Nat /\ Len(stack) <= StackDepth
      /\ Top = stack[Len(stack)]
  BY TopOfStack
<1>2. \E f \in AllFound : IsDir(f.inr) /\ Top.reader.inode = image.itab[f.inr]
  BY <1>1, NodeOfCall DEF Walking
<1>. QED BY <1>2 DEF Listable

\* There is no room for the recursive call.
LEMMA KilledStep ==
    ASSUME Given, TypeOK, Walking(stack, lines) \/ Doomed(stack), TreeDescends,
           ~(Len(stack) < StackDepth)
    PROVE  Outcome(pc', ret', lines')
<1>1. /\ InTree /\ HasEntry(Top.reader) /\ inode_read(image, ChildInr) = ERR_NONE
      /\ image.itab[ChildInr].mode = "dir" /\ pc' = "killed"
  BY DEF TreeDescends, Unwind
<1>2. ~Listable \/ ~\A f \in Found[StackDepth] : ~IsDir(f.inr)
  <2>1. SUFFICES ASSUME Listable PROVE \E f \in Found[StackDepth] : IsDir(f.inr)
    OBVIOUS
  <2>2. Walking(stack, lines)
    BY <2>1, HalfIsSpoiled DEF Doomed
  <2>3. PICK c \in Found[Len(stack)] : c.inr = ChildInr
    BY <1>1, <2>1, <2>2, EntryFollowed, HalfIsSpoiled
  <2>4. Len(stack) = StackDepth
    BY <1>1, TopOfStack, Geometry
  <2>5. IsDir(c.inr)
    BY <1>1, <2>3 DEF IsDir, opendir, ERR_NONE
  <2>. QED BY <2>3, <2>4, <2>5
<1>. QED BY <1>1, <1>2 DEF Outcome

\* A block that cannot be read, or an entry without an inode.
LEMMA FailStep ==
    ASSUME Given, TypeOK, Walking(stack, lines) \/ Doomed(stack), TreeFails
    PROVE  Outcome(pc', ret', lines')
<1> DEFINE d == Top.reader
<1>1. InTree /\ pc' = "ended"
  BY DEF TreeFails, Unwind
<1>2. /\ Len(stack) \in 1 .. Len(stack) /\ Top = stack[Len(stack)]
      /\ d \in Readers /\ CursorsFit(d)
  BY <1>1, TopOfStack
<1>3. CASE Unreadable(d) /\ ret' = BlockSector(d.inode, d.off)
  <2>1. BlockSector(d.inode, d.off) < 0 /\ d.off # d.inode.size
    BY <1>3 DEF Unreadable
  <2>2. ret' # ERR_NONE
    BY <1>3, <2>1 DEF ERR_NONE
  <2>3. d.off \in 0 .. d.inode.size - 1
    BY <1>2, <2>1, ReaderType
  <2>4. Spoiled(d.inode)
    BY <2>1, <2>3 DEF Spoiled
  <2>5. ~Listable
    BY <1>1, <2>4, TopSpoiled, HalfIsSpoiled DEF Doomed
  <2>. QED BY <1>1, <2>2, <2>5 DEF Outcome
<1>4. CASE /\ HasEntry(d) /\ inode_read(image, ChildInr) # ERR_NONE
           /\ ret' = inode_read(image, ChildInr)
  <2>1. ~Listable
    BY <1>1, <1>4, EntryFollowed, HalfIsSpoiled DEF Doomed
  <2>. QED BY <1>1, <1>4, <2>1 DEF Outcome
<1>. QED BY <1>3, <1>4 DEF TreeFails

\* readdir leaves its array.
LEMMA StrayStep ==
    ASSUME Given, TypeOK, Walking(stack, lines) \/ Doomed(stack), TreeStrays
    PROVE  Outcome(pc', ret', lines')
<1>1. InTree /\ pc' = "astray" /\ Astray(Top.reader)
  BY DEF TreeStrays, Unwind
<1>2. /\ Len(stack) \in 1 .. Len(stack) /\ Top = stack[Len(stack)]
      /\ Top.reader \in Readers /\ CursorsFit(Top.reader)
  BY <1>1, TopOfStack
<1>3. HalfEntry
  <2>1. CASE Walking(stack, lines)
    <3>1. Straight(Top.reader)
      BY <1>2, <2>1 DEF Walking, OnPath
    <3>2. Top.reader.inode.size % SectorSize \in 1 .. EntryWords - 1
      BY <1>1, <1>2, <3>1, StrayIsHalf
    <3>. QED BY <1>1, <2>1, <3>2, TopHalf
  <2>. QED BY <2>1 DEF Doomed
<1>. QED BY <1>1, <1>3, HalfIsSpoiled DEF Outcome

\* At the end of its directory all there is below it has been listed.
LEMMA DirectoryListed ==
    ASSUME Given, TypeOK, InTree, Walking(stack, lines), AtEnd(Top.reader)
    PROVE  LET m == Len(stack)
               A == Address(stack, m)
               T == Taken(Top.reader)
           IN  /\ T \in Nat /\ A \in Seq(Nat) /\ Len(A) = m - 1
               /\ ListingOf(lines \o Heading, Before(Append(A, T)))
               /\ \A g \in Before(Append(A, T)) :
                     Settled(g) \/ \E k \in 1 .. m - 1 : g.at = Address(stack, k)
               /\ \A g \in AllFound :
                     Precedes(g.at, Append(A, T)) <=> Precedes(g.at, A) \/ Beneath(g.at, A)
<1> DEFINE m == Len(stack)
           A == Address(stack, m)
           d == Top.reader
           T == Taken(d)
<1>1. /\ m \in Nat \ {0} /\ m <= StackDepth /\ Top = stack[m] /\ m \in 1 .. m
      /\ d \in Readers /\ CursorsFit(d)
  BY TopOfStack
<1>2. OnPath(stack, m)
  BY <1>1 DEF Walking
<1>3. PICK f \in Found[m - 1] :
              /\ f.at = A /\ IsDir(f.inr) /\ d.inode = image.itab[f.inr]
              /\ f \in AllFound /\ f.at \in Seq(Nat) /\ Len(f.at) = m - 1
  BY <1>1, <1>2, NodeOfCall
<1>4. Straight(d)
  BY <1>1, <1>2 DEF OnPath
<1>5. /\ T \in Nat /\ \A p \in EntryPlaces(d.inode) : p \in Nat /\ p < T
      /\ ~Spoiled(d.inode)
  BY <1>1, <1>4, DirectoryEnds
<1>6. ListedTo(stack, lines \o Heading, Append(A, T))
  BY HeadedListing
<1>7. Settled(f)
  <2>1. m - 1 < StackDepth
    BY <1>1, Geometry
  <2>2. Len(f.at) < StackDepth
    BY <1>3, <2>1
  <2>. QED BY <1>3, <1>5, <2>2 DEF Settled
<1>8. ASSUME NEW g \in Before(Append(A, T))
      PROVE  Settled(g) \/ \E k \in 1 .. m - 1 : g.at = Address(stack, k)
  <2>1. CASE Settled(g)
    BY <2>1
  <2>2. CASE ~Settled(g)
    <3>1. PICK k \in 1 .. m : g.at = Address(stack, k)
      BY <1>6, <1>8, <2>2 DEF ListedTo
    <3>2. k # m
      <4>1. SUFFICES ASSUME k = m PROVE FALSE
        OBVIOUS
      <4>2. g \in AllFound /\ g.at = f.at
        BY <1>3, <3>1, <4>1 DEF Before
      <4>. QED BY <1>3, <1>7, <2>2, <4>2, OneNode
    <3>3. k \in 1 .. m - 1
      BY <1>1, <3>2
    <3>. QED BY <3>1, <3>3
  <2>. QED BY <2>1, <2>2
<1>9. ASSUME NEW g \in AllFound
      PROVE  Precedes(g.at, Append(A, T)) <=> Precedes(g.at, A) \/ Beneath(g.at, A)
  <2>1. g.at \in Seq(Nat) /\ Len(g.at) \in Nat
    BY NodeType DEF AllFound
  <2>2. Precedes(g.at, Append(A, T)) <=>
              \/ Precedes(g.at, A) \/ g.at = A
              \/ Beneath(g.at, A) /\ Len(g.at) > Len(A) /\ g.at[Len(A) + 1] < T
    BY <1>3, <1>5, <2>1, BeforeEntry
  <2>3. g.at = A => Beneath(g.at, A)
    BY <2>1 DEF Beneath
  <2>4. ASSUME Beneath(g.at, A), g.at # A
        PROVE  Len(g.at) > Len(A) /\ g.at[Len(A) + 1] < T
    <3>1. Len(g.at) > Len(A)
      <4>1. SUFFICES ASSUME ~(Len(g.at) > Len(A)) PROVE FALSE
        OBVIOUS
      <4>2. A \in Seq(Nat) /\ Len(A) \in Nat
        BY <1>3
      <4> HIDE DEF A
      <4>3. Len(g.at) = Len(A) /\ \A j \in 1 .. Len(g.at) : g.at[j] = A[j]
        BY <2>1, <2>4, <4>1, <4>2 DEF Beneath
      <4>. QED BY <2>1, <2>4, <4>2, <4>3, SeqEqual
    <3>2. g.at[Len(A) + 1] \in EntryPlaces(d.inode)
      BY <1>3, <2>4, <3>1, BelowEntry
    <3>. QED BY <1>5, <3>1, <3>2
  <2>. QED BY <2>2, <2>3, <2>4
<1>. QED BY <1>3, <1>5, <1>6, <1>8, <1>9 DEF ListedTo

\* The caller goes on where the call has left off, or the listing is complete.
LEMMA ReturnStep ==
    ASSUME Given, TypeOK, Walking(stack, lines) \/ Doomed(stack), TreeReturns, ret = ERR_NONE
    PROVE  IF pc' = "running" THEN Walking(stack', lines') \/ Doomed(stack')
           ELSE Outcome(pc', ret', lines')
<1> DEFINE m == Len(stack)
           A == Address(stack, m)
           d == Top.reader
           T == Taken(d)
           t == Front(stack)
           ls == lines \o Heading
<1>1. /\ InTree /\ AtEnd(d) /\ stack' = t /\ lines' = ls /\ ret' = ret
      /\ pc' = IF t = << >> THEN "ended" ELSE "running"
  BY DEF TreeReturns, InTree
<1>2. /\ m \in Nat \ {0} /\ m <= StackDepth /\ Top = stack[m] /\ m \in 1 .. m /\ d \in Readers
      /\ Len(t) = m - 1 /\ \A j \in 1 .. m - 1 : t[j] = stack[j]
  BY <1>1, TopOfStack
<1>3. t \in Seq(Frames)
  BY <1>1, TheTop DEF StackOK
<1> HIDE DEF t, ls
<1>4. CASE Doomed(stack)
  <2>1. PICK k \in 1 .. m : Stale(stack[k].reader)
    BY <1>4 DEF Doomed
  <2>2. k # m
    BY <1>1, <1>2, <2>1, StaleStays
  <2>3. k \in 1 .. m - 1
    BY <1>2, <2>2
  <2>4. k \in 1 .. Len(t) /\ Stale(t[k].reader)
    BY <1>2, <2>1, <2>3
  <2>5. Doomed(t)
    BY <1>4, <2>4 DEF Doomed
  <2>6. t # << >>
    BY <1>2, <2>3
  <2>. QED BY <1>1, <2>5, <2>6
<1>5. CASE Walking(stack, lines)
  <2>1. /\ T \in Nat /\ A \in Seq(Nat) /\ Len(A) = m - 1
        /\ ListingOf(ls, Before(Append(A, T)))
        /\ \A g \in Before(Append(A, T)) :
              Settled(g) \/ \E k \in 1 .. m - 1 : g.at = Address(stack, k)
        /\ \A g \in AllFound :
              Precedes(g.at, Append(A, T)) <=> Precedes(g.at, A) \/ Beneath(g.at, A)
    BY <1>1, <1>5, DirectoryListed DEF ls
  <2>2. \A k \in 1 .. m : OnPath(stack, k)
    BY <1>5 DEF Walking
  <2>3. CASE m = 1
    <3>1. t = << >>
      BY <1>2, <1>3, <2>3, EmptySeq
    <3>2. 1 - 1 = 0 /\ 0 \in 0 .. StackDepth /\ StackDepth \in 0 .. StackDepth
      BY Geometry
    <3>3. PICK f \in Found[m - 1] : f.at = A /\ IsDir(f.inr)
      BY <1>2, <2>2, NodeOfCall
    <3>4. f = Root
      BY <2>3, <3>2, <3>3, FoundLevels
    <3>5. A = << >> /\ IsDir(ROOT_INUMBER)
      BY <3>3, <3>4 DEF Root
    <3>6. Before(Append(A, T)) = AllFound
      <4>1. ASSUME NEW g \in AllFound PROVE Precedes(g.at, Append(A, T))
        <5>1. Len(g.at) \in Nat
          BY NodeType DEF AllFound
        <5>2. Len(A) = 0 /\ 1 .. 0 = {}
          BY <2>1, <2>3
        <5>3. Beneath(g.at, A)
          <6> HIDE DEF A
          <6>. QED BY <5>1, <5>2 DEF Beneath
        <5>. QED BY <2>1, <5>3
      <4>. QED BY <4>1 DEF Before
    <3>7. \A g \in AllFound : Settled(g)
      <4>1. 1 .. m - 1 = {}
        BY <2>3
      <4>. QED BY <2>1, <3>6, <4>1
    <3>8. Listable
      BY <3>5, <3>7 DEF Listable, Settled
    <3>9. ASSUME NEW f1 \in Found[StackDepth] PROVE ~IsDir(f1.inr)
      <4>1. f1 \in AllFound /\ Len(f1.at) = StackDepth
        BY <3>2, NodeType DEF AllFound
      <4>2. ~(Len(f1.at) < StackDepth)
        BY <4>1, Geometry
      <4>. QED BY <3>7, <4>1, <4>2 DEF Settled
    <3>10. pc' = "ended" /\ ret' = ERR_NONE
      BY <1>1, <3>1
    <3>. QED BY <1>1, <2>1, <3>6, <3>8, <3>9, <3>10 DEF Outcome
  <2>4. CASE m # 1
    <3> DEFINE n == m - 1
               B == Address(stack, n)
               q == Taken(stack[n].reader) - 1
    <3>1. /\ n \in 1 .. m /\ n \in Nat \ {0} /\ n # m /\ n + 1 = m /\ n \in 1 .. m - 1
          /\ m \in Nat
      BY <1>2, <2>4
    <3>2. B \in Seq(Nat) /\ Len(B) = n - 1
      <4>1. OnPath(stack, n)
        BY <2>2, <3>1
      <4> HIDE DEF n
      <4>. QED BY <1>2, <3>1, <4>1, NodeOfCall
    <3>3. q \in Nat /\ Taken(stack[n].reader) = q + 1
      <4>1. A[n] \in Nat
        <5>1. n \in 1 .. Len(A)
          BY <2>1, <3>1
        <5> HIDE DEF A, n
        <5>. QED BY <2>1, <5>1, ElementOfSeq
      <4>2. A[n] = q
        BY <3>1 DEF Address
      <4>3. Taken(stack[n].reader) \in Int
        <5>1. n \in DOMAIN stack /\ stack \in Seq(Frames)
          BY <1>2, <3>1 DEF TypeOK
        <5>2. stack[n] \in Frames /\ CursorsFit(stack[n].reader)
          <6> HIDE DEF n
          <6>. QED BY <5>1 DEF TypeOK
        <5>3. stack[n].reader \in Readers
          <6> HIDE DEF n
          <6>. QED BY <5>2 DEF Frames, Readers
        <5> HIDE DEF n
        <5>. QED BY <5>2, <5>3, ReaderType
      <4>4. q \in Nat
        BY <4>1, <4>2
      <4> HIDE DEF n
      <4>. QED BY <4>3, <4>4
    <3>4. A = Append(B, q)
      <4> HIDE DEF n, q
      <4>1. Address(stack, n + 1) = Append(Address(stack, n), q)
        <5> HIDE DEF A, T
        <5>. QED BY <3>1, <3>2, <3>3, NextAddress
      <4>. QED BY <3>1, <4>1
    <3>5. \A k \in 1 .. n : OnPath(t, k) /\ Address(t, k) = Address(stack, k)
      <4>1. SUFFICES ASSUME NEW k \in 1 .. n
                     PROVE  OnPath(t, k) /\ Address(t, k) = Address(stack, k)
        OBVIOUS
      <4>2. /\ k \in Nat /\ k # m /\ k \in 1 .. m /\ k \in 1 .. m - 1
            /\ \A j \in 1 .. k - 1 : j \in 1 .. m - 1
        <5>1. m \in Nat /\ k \in 1 .. m - 1
          BY <1>2
        <5> DEFINE mm == m
        <5> HIDE DEF mm
        <5>2. mm \in Nat /\ k \in 1 .. mm - 1
          BY <5>1 DEF mm
        <5>3. /\ k \in Nat /\ k # mm /\ k \in 1 .. mm
              /\ \A j \in 1 .. k - 1 : j \in 1 .. mm - 1
          BY <5>2
        <5>. QED BY <5>1, <5>3 DEF mm
      <4>3. t[k] = stack[k] /\ \A j \in 1 .. k - 1 : t[j] = stack[j]
        BY <1>2, <4>2
      <4>. QED BY <2>2, <4>2, <4>3, CallsAbove
    <3>6. t[n] = stack[n] /\ t[n].shown
      BY <1>2, <2>2, <3>1 DEF OnPath
    <3>7. Cursor(t) = Append(B, q + 1)
      <4>1. n \in 1 .. n
        BY <3>1
      <4> HIDE DEF n, q
      <4>2. Len(t) = n
        BY <1>2 DEF n
      <4>. QED BY <3>3, <3>5, <3>6, <4>1, <4>2 DEF Cursor
    <3>8. Before(Append(B, q + 1)) = Before(Append(A, T))
      <4>1. ASSUME NEW g \in AllFound
            PROVE  Precedes(g.at, Append(B, q + 1)) <=> Precedes(g.at, Append(A, T))
        <5>1. g.at \in Seq(Nat)
          BY NodeType DEF AllFound
        <5>2. Precedes(g.at, Append(B, q + 1)) <=>
                  Precedes(g.at, Append(B, q)) \/ Beneath(g.at, Append(B, q))
          BY <3>2, <3>3, <5>1, BeforeNextEntry
        <5>. QED BY <2>1, <3>4, <5>2
      <4>. QED BY <4>1 DEF Before
    <3>9. ListedTo(t, ls, Append(B, q + 1))
      <4>1. \A k \in 1 .. m - 1 : k \in 1 .. Len(t) /\ k \in 1 .. n
        BY <1>2
      <4>2. ASSUME NEW g \in Before(Append(B, q + 1))
            PROVE  Settled(g) \/ \E k \in 1 .. Len(t) : g.at = Address(t, k)
        BY <2>1, <3>5, <3>8, <4>1, <4>2
      <4>. QED BY <2>1, <3>8, <4>2 DEF ListedTo
    <3>10. Walking(t, ls)
      <4>1. \A k \in 1 .. Len(t) : k \in 1 .. n
        BY <1>2
      <4>. QED BY <3>5, <3>7, <3>9, <4>1 DEF Walking
    <3>11. t # << >>
      BY <1>2, <3>1
    <3>. QED BY <1>1, <3>10, <3>11
  <2>. QED BY <2>3, <2>4
<1>. QED BY <1>4, <1>5

-----------------------------------------------------------------------------------
(* The invariant of `tree'. *)

\* What is found on the image stays as it is.
LEMMA OutcomeStays ==
    ASSUME UNCHANGED image, Outcome(pc', ret', lines')
    PROVE  TreeIsTrue' /\ AstrayOnHalfEntry'
<1>1. Found' = Found
  BY FoundStays
<1>2. AllFound' = AllFound
  BY <1>1 DEF AllFound
<1>3. \A inr : IsDir(inr)' <=> IsDir(inr)
  BY DEF IsDir, opendir, inode_read
<1>4. \A i : Spoiled(i)' <=> Spoiled(i)
  BY DEF Spoiled, EntryPlaces, EntryAt, Content, BlockSector, inode_read
<1>5. Listable' <=> Listable
  BY <1>2, <1>3, <1>4 DEF Listable
<1>6. (\A f \in Found[StackDepth] : ~IsDir(f.inr))' <=> \A f \in Found[StackDepth] : ~IsDir(f.inr)
  BY <1>1, <1>3
<1>7. ListingOf(lines', AllFound) =>
        /\ ToSet(lines') = {Line(image.itab[f.inr].mode, f.path) : f \in AllFound}
        /\ Len(lines') = Cardinality(AllFound)
        /\ \A k \in 2 .. Len(lines') :
              \E j \in 1 .. k - 1 : lines'[j] = Line("dir", Front(lines'[k].path))
  BY DEF ListingOf, NodeLine
<1>8. AstrayOnHalfEntry'
  BY <1>2, <1>3 DEF AstrayOnHalfEntry, HalfEntry, Outcome
<1>. QED BY <1>2, <1>5, <1>6, <1>7, <1>8 DEF TreeIsTrue, Outcome

\* So is where the calls are.
LEMMA WalkingStays ==
    ASSUME UNCHANGED image, NEW s, NEW ls, s = stack', ls = lines',
           Walking(s, ls) \/ Doomed(s)
    PROVE  (Walking(stack, lines) \/ Doomed(stack))'
<1>1. Found' = Found
  BY FoundStays
<1>2. AllFound' = AllFound
  BY <1>1 DEF AllFound
<1>3. \A inr : IsDir(inr)' <=> IsDir(inr)
  BY DEF IsDir, opendir, inode_read
<1>4. \A i : Spoiled(i)' <=> Spoiled(i)
  BY DEF Spoiled, EntryPlaces, EntryAt, Content, BlockSector, inode_read
<1>5. HalfEntry' <=> HalfEntry
  BY <1>2, <1>3 DEF HalfEntry
<1>6. CASE Walking(s, ls)
  <2>1. \A k \in 1 .. Len(s) : OnPath(stack, k)' <=> OnPath(s, k)
    <3>1. \A d : Straight(d)' <=> Straight(d)
      BY DEF Straight, EntryAt, Content, BlockSector, inode_read, Taken
    <3>2. \A k : Address(stack, k)' = Address(s, k)
      BY DEF Address, Taken
    <3>. QED BY <1>1, <1>3, <3>1, <3>2 DEF OnPath, Taken
  <2>2. Cursor(stack)' = Cursor(s)
    BY DEF Cursor, Address, Taken
  <2>3. Before(Cursor(stack))' = Before(Cursor(s))
    BY <1>2, <2>2 DEF Before, Precedes
  <2>4. ListingOf(lines, Before(Cursor(stack)))' <=> ListingOf(ls, Before(Cursor(s)))
    BY <2>3 DEF ListingOf, NodeLine
  <2>5. \A f : (Settled(f) \/ \E k \in 1 .. Len(stack) : f.at = Address(stack, k))'
                <=> (Settled(f) \/ \E k \in 1 .. Len(s) : f.at = Address(s, k))
    <3>1. \A f : Settled(f)' <=> Settled(f)
      BY <1>3, <1>4 DEF Settled
    <3>2. \A k : Address(stack, k)' = Address(s, k)
      BY DEF Address, Taken
    <3>. QED BY <3>1, <3>2
  <2>6. ListedTo(stack, lines, Cursor(stack))'
    <3>1. ListedTo(s, ls, Cursor(s))
      BY <1>6 DEF Walking
    <3>. QED BY <2>3, <2>4, <2>5, <3>1 DEF ListedTo
  <2>7. (\A k \in 1 .. Len(stack) : OnPath(stack, k))'
    BY <1>6, <2>1 DEF Walking
  <2>. QED BY <2>6, <2>7 DEF Walking
<1>7. CASE Doomed(s)
  BY <1>5, <1>7 DEF Doomed, Stale
<1>. QED BY <1>6, <1>7

\* The first call is at the root, or there is none to make.
LEMMA TreeStarts == Init => TreeInv
<1> SUFFICES ASSUME Init, command.op = "tree" PROVE TreeInv
  BY DEF TreeInv
<1>1. Given /\ lines = << >> /\ ret = opendir(image, ROOT_INUMBER)
      /\ pc = IF ret = ERR_NONE THEN "running" ELSE "ended"
  BY DEF Init, Given
<1>2. CASE ~IsDir(ROOT_INUMBER)
  <2>1. pc = "ended" /\ ret # ERR_NONE
    BY <1>1, <1>2 DEF IsDir
  <2>2. ~Listable
    BY <1>2 DEF Listable
  <2>. QED BY <2>1, <2>2 DEF TreeInv, TreeIsTrue, AstrayOnHalfEntry
<1>3. CASE IsDir(ROOT_INUMBER)
  <2> DEFINE x == Frame(<< >>, ROOT_INUMBER)
  <2>1. pc = "running" /\ ret = ERR_NONE
    BY <1>1, <1>3 DEF IsDir
  <2>2. stack = <<x>>
    BY <2>1 DEF Init
  <2>3. x.path = << >> /\ x.reader = Reader(ROOT_INUMBER) /\ ~x.shown
    BY DEF Frame
  <2>4. image.itab[ROOT_INUMBER] \in StoredInode
    BY <1>1, <1>3, Openable
  <2>5. /\ Straight(x.reader) /\ Taken(x.reader) = 0
        /\ x.reader.inode = image.itab[ROOT_INUMBER]
    BY <1>1, <2>3, <2>4, FreshReader
  <2> HIDE DEF x
  <2>6. Len(stack) = 1 /\ stack[1] = x
    BY <2>2
  <2>7. Address(stack, 1) = << >>
    <3>1. 1 .. 1 - 1 = {}
      OBVIOUS
    <3>. QED BY <3>1 DEF Address
  <2>8. OnPath(stack, 1)
    <3>1. Root \in Found[0] /\ 1 - 1 = 0
      BY FoundLevels
    <3>2. \E f \in Found[1 - 1] :
              /\ f.at = Address(stack, 1) /\ f.path = stack[1].path /\ IsDir(f.inr)
              /\ stack[1].reader.inode = image.itab[f.inr]
      BY <1>3, <2>3, <2>5, <2>6, <2>7, <3>1 DEF Root
    <3>. QED BY <2>5, <2>6, <3>2 DEF OnPath
  <2>9. Cursor(stack) = << >>
    BY <2>3, <2>6, <2>7 DEF Cursor
  <2>10. Before(<< >>) = {}
    <3>1. \A a : ~Precedes(a, << >>)
      <4>1. 1 .. Len(<< >>) = {}
        OBVIOUS
      <4>. QED BY <4>1 DEF Precedes
    <3>. QED BY <3>1 DEF Before
  <2>11. ListingOf(lines, {})
    <3>1. Len(lines) = 0 /\ ToSet(lines) = {} /\ 2 .. 0 = {}
      BY <1>1 DEF ToSet
    <3>2. {NodeLine(f) : f \in {}} = {}
      OBVIOUS
    <3>. QED BY <3>1, <3>2, FS_EmptySet DEF ListingOf
  <2>12. ListedTo(stack, lines, << >>)
    BY <2>10, <2>11 DEF ListedTo
  <2>13. Walking(stack, lines)
    BY <2>6, <2>8, <2>9, <2>12 DEF Walking
  <2>. QED BY <2>1, <2>13 DEF TreeInv
<1>. QED BY <1>2, <1>3

\* Every step preserves it.
LEMMA TreePreserved == IInv /\ TreeInv /\ [Step \/ Ended]_vars => TreeInv'
<1> SUFFICES ASSUME IInv, TreeInv, [Step \/ Ended]_vars, command.op = "tree"
             PROVE  TreeInv'
  <2>1. [Step \/ Ended]_vars => UNCHANGED command
    BY DEF Step, Ended, vars, TreeFile, TreeDescends, TreeReturns, TreeFails, TreeStrays,
           ScanInode, ShaFile, ShaEnds, CatFirst
  <2>. QED BY <2>1 DEF TreeInv
<1>1. Given /\ TypeOK
  BY DEF IInv
<1>2. UNCHANGED image
  BY DEF Step, Ended, vars, TreeFile, TreeDescends, TreeReturns, TreeFails, TreeStrays,
         ScanInode, ShaFile, ShaEnds, CatFirst
<1>3. ASSUME InTree
      PROVE  ret = ERR_NONE /\ (Walking(stack, lines) \/ Doomed(stack))
  BY <1>3 DEF InTree, TreeInv
<1>4. ASSUME Outcome(pc', ret', lines'), pc' # "running" PROVE TreeInv'
  BY <1>2, <1>4, OutcomeStays DEF TreeInv
<1>5. ASSUME Walking(stack', lines') \/ Doomed(stack'), pc' = "running", ret' = ERR_NONE
      PROVE  TreeInv'
  <2>1. (Walking(stack, lines) \/ Doomed(stack))'
    <3>1. PICK s : s = stack'
      OBVIOUS
    <3>2. PICK ls : ls = lines'
      OBVIOUS
    <3>3. Walking(s, ls) \/ Doomed(s)
      BY <1>5, <3>1, <3>2
    <3>. QED BY <1>2, <3>1, <3>2, <3>3, WalkingStays
  <2>. QED BY <1>5, <2>1 DEF TreeInv
<1>6. CASE TreeFile
  <2>1. InTree /\ pc' = "running" /\ ret' = ret
    BY <1>6 DEF TreeFile, InTree
  <2>. QED BY <1>1, <1>3, <1>5, <1>6, <2>1, FileStep
<1>7. CASE TreeDescends
  <2>1. InTree
    BY <1>7 DEF TreeDescends
  <2>2. CASE Len(stack) < StackDepth
    <3>1. pc' = "running" /\ ret' = ret
      BY <1>7, <2>2 DEF TreeDescends, InTree
    <3>. QED BY <1>1, <1>3, <1>5, <1>7, <2>1, <2>2, <3>1, DescendStep
  <2>3. CASE ~(Len(stack) < StackDepth)
    <3>1. pc' = "killed"
      BY <1>7, <2>3 DEF TreeDescends, Unwind
    <3>. QED BY <1>1, <1>3, <1>4, <1>7, <2>1, <2>3, <3>1, KilledStep
  <2>. QED BY <2>2, <2>3
<1>8. CASE TreeReturns
  <2>1. InTree /\ ret' = ret
    BY <1>8 DEF TreeReturns
  <2>. QED BY <1>1, <1>3, <1>4, <1>5, <1>8, <2>1, ReturnStep
<1>9. CASE TreeFails
  <2>1. InTree /\ pc' = "ended"
    BY <1>9 DEF TreeFails, Unwind
  <2>. QED BY <1>1, <1>3, <1>4, <1>9, <2>1, FailStep
<1>10. CASE TreeStrays
  <2>1. InTree /\ pc' = "astray"
    BY <1>10 DEF TreeStrays, Unwind
  <2>. QED BY <1>1, <1>3, <1>4, <1>10, <2>1, StrayStep
<1>11. CASE ScanInode \/ ShaFile \/ ShaEnds \/ CatFirst
  BY <1>11 DEF ScanInode, ShaFile, ShaEnds, CatFirst, Running
<1>12. CASE UNCHANGED vars
  <2>1. stack' = stack /\ lines' = lines /\ pc' = pc /\ ret' = ret
    BY <1>12 DEF vars
  <2>2. CASE pc = "running"
    <3>1. InTree
      BY <2>2 DEF InTree
    <3>2. Walking(stack', lines') \/ Doomed(stack')
      BY <1>3, <2>1, <3>1
    <3>. QED BY <1>3, <1>5, <2>1, <2>2, <3>1, <3>2
  <2>3. CASE pc # "running"
    <3>1. TreeIsTrue /\ AstrayOnHalfEntry
      BY <2>3 DEF TreeInv
    <3>2. pc' # "running" /\ TreeIsTrue' /\ AstrayOnHalfEntry'
      <4>1. Found' = Found
        BY <1>2, FoundStays
      <4>2. AllFound' = AllFound
        BY <4>1 DEF AllFound
      <4>3. Listable' <=> Listable
        BY <1>2, <4>2 DEF Listable, IsDir, opendir, inode_read, Spoiled, EntryPlaces, EntryAt,
                          Content, BlockSector
      <4>4. (\A f \in Found[StackDepth] : ~IsDir(f.inr))'
                <=> \A f \in Found[StackDepth] : ~IsDir(f.inr)
        BY <1>2, <4>1 DEF IsDir, opendir, inode_read
      <4>5. AstrayOnHalfEntry'
        BY <1>2, <2>1, <3>1, <4>2 DEF AstrayOnHalfEntry, IsDir, opendir, inode_read
      <4>. QED BY <1>2, <2>1, <2>3, <3>1, <4>2, <4>3, <4>4, <4>5 DEF TreeIsTrue
    <3>. QED BY <3>2 DEF TreeInv
  <2>. QED BY <2>2, <2>3
<1>. QED BY <1>6, <1>7, <1>8, <1>9, <1>10, <1>11, <1>12 DEF Step, Ended

\* It holds in every state.
LEMMA TreeInvariant == Spec => []TreeInv
<1>. QED BY Invariant, TreeStarts, TreePreserved, PTL DEF Spec

\* `tree' succeeds if and only if every directory it finds can be listed and none is too
\* deep for the stack; it then has listed every entry once, each below its directory.
\* Whatever the image, it never answers success for a listing that is not complete
\* (src/done/direntv6.c:32-100).
THEOREM TreeListsAll == Spec => []TreeIsTrue
<1>1. IInv /\ TreeInv => TreeIsTrue
  BY DEF TreeInv, TreeIsTrue
<1>. QED BY <1>1, Invariant, TreeInvariant, PTL

\* readdir leaves its array on no image but those with a directory that ends in the middle
\* of an entry: neither circles nor entries without an inode nor sectors beyond the image
\* bring it there (src/done/direntv6.c:37-48).
THEOREM StrayingIsHalfEntry == Spec => []AstrayOnHalfEntry
<1>1. IInv /\ TreeInv => AstrayOnHalfEntry
  BY DEF IInv, Scanning, TreeInv, AstrayOnHalfEntry
<1>. QED BY <1>1, Invariant, TreeInvariant, PTL
===================================================================================
