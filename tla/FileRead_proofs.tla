------------------------------- MODULE FileRead_proofs -------------------------------
(***********************************************************************************)
(* Proofs about reading a file, for every file, image and geometry: the cursor     *)
(* stays on a boundary, fs_read is complete, and what is read is the content of    *)
(* the file unless its size is that of AddrSmall full sectors.                     *)
(***********************************************************************************)
EXTENDS FileRead, Format_proofs

\* Words put behind words.
LEMMA Concatenation ==
    ASSUME NEW s \in Seq(Word), NEW u \in Seq(Word)
    PROVE  /\ s \o u \in Seq(Word) /\ Len(s \o u) = Len(s) + Len(u)
           /\ \A k \in 1 .. Len(s) : (s \o u)[k] = s[k]
           /\ \A k \in 1 .. Len(u) : (s \o u)[Len(s) + k] = u[k]
OBVIOUS

-----------------------------------------------------------------------------------
(* What the operators answer in a state that is well typed. *)

\* The file that is open, as RequestAssumption has it.
LEMMA OpenFile ==
    ASSUME TypeOK
    PROVE  /\ inode \in Inodes(inode.size) /\ inode.mode # "free" /\ inode.size \in Nat
           /\ inode.addr \in [0 .. AddrSmall - 1 -> Word]
           /\ \A s \in DOMAIN words : words[s] \in [0 .. SectorSize - 1 -> Word]
           /\ offset \in 0 .. inode.size /\ start \in 0 .. inode.size
           /\ buf \in Seq(Word) /\ Len(buf) \in Nat
           /\ request.size \in 0 .. MaxRequest
<1> DEFINE f == <<inode, words>>
<1>1. f \in Files /\ f[1] = inode /\ f[2] = words
  BY DEF TypeOK
<1> HIDE DEF f
<1>2. /\ inode \in Inodes(inode.size) /\ inode.mode # "free" /\ inode.size \in Nat
      /\ \A s \in DOMAIN words : words[s] \in [0 .. SectorSize - 1 -> Word]
  BY <1>1, RequestAssumption
<1>3. inode.addr \in [0 .. AddrSmall - 1 -> Word]
  BY <1>2 DEF Inodes
<1>4. /\ offset \in 0 .. inode.size /\ start \in 0 .. inode.size
      /\ buf \in Seq(Word) /\ request.size \in 0 .. MaxRequest
  BY DEF TypeOK
<1>. QED BY <1>2, <1>3, <1>4

\* A seek that succeeds is to a boundary, or to the end of the file.
LEMMA SeekAnswer ==
    ASSUME TypeOK, NEW off \in Int
    PROVE  /\ lseek(off) \in error_codes \union {ERR_NONE}
           /\ lseek(off) = ERR_NONE =>
                 /\ off \in 0 .. inode.size
                 /\ off = inode.size \/ off % SectorSize = 0
<1>1. inode.size \in Nat
  BY OpenFile
<1>2. CASE off > inode.size \/ off < 0
  <2>1. lseek(off) = ERR_OFFSET_OUT_OF_RANGE
    BY <1>1, <1>2 DEF lseek
  <2>. QED BY <2>1 DEF ERR_OFFSET_OUT_OF_RANGE, ERR_NONE, error_codes
<1>3. CASE off \in 0 .. inode.size - 1 /\ off % SectorSize # 0
  <2>1. lseek(off) = ERR_BAD_PARAMETER
    BY <1>1, <1>3 DEF lseek
  <2>. QED BY <2>1 DEF ERR_BAD_PARAMETER, ERR_NONE, error_codes
<1>4. CASE off = inode.size \/ (off \in 0 .. inode.size - 1 /\ off % SectorSize = 0)
  <2>1. lseek(off) = ERR_NONE
    BY <1>1, <1>4 DEF lseek
  <2>. QED BY <1>1, <1>4, <2>1
<1>. QED BY <1>1, <1>2, <1>3, <1>4

\* The cast of an offset is an integer.
LEMMA Int32Type ==
    ASSUME NEW off \in Offsets
    PROVE  Int32(off) \in Int
<1>1. off \in Int /\ IntValues \in Nat \ {0}
  BY RequestAssumption
<1>2. off % IntValues \in Int
  BY <1>1, Division
<1>. QED BY <1>1, <1>2 DEF Int32

\* A block read is a sector or what is left of the file, and comes from a sector of
\* the image; only at the end of the file is it empty.
LEMMA BlockAnswer ==
    ASSUME TypeOK
    PROVE  /\ readblock \in Int /\ readblock \in error_codes \union -WordValues .. inode.size
           /\ readblock = 0 <=> offset = inode.size
           /\ readblock > 0 =>
                 /\ readblock <= SectorSize /\ offset + readblock <= inode.size
                 /\ readblock = SectorSize \/ offset + readblock = inode.size
                 /\ BlockSector >= 0 /\ BlockSector \in DOMAIN words
                 /\ BlockSector = inode_findsector(words, inode, offset \div SectorSize)
<1>1. /\ inode.size \in Nat /\ offset \in 0 .. inode.size
      /\ SectorSize \in Nat \ {0} /\ WordValues \in Nat \ {0}
  BY OpenFile, GeometryAssumption
<1> DEFINE s == inode_findsector(words, inode, offset \div SectorSize)
<1>2. s \in error_codes \union -WordValues .. WordValues - 1
  <2>1. offset \div SectorSize \in Int
    BY <1>1, Division
  <2>2. /\ inode.addr \in [0 .. AddrSmall - 1 -> Word]
        /\ \A x \in DOMAIN words : words[x] \in [0 .. SectorSize - 1 -> Word]
    BY OpenFile
  <2>. QED BY <1>1, <2>1, <2>2, FindSectorType
<1>3. BlockSector = IF s >= 0 /\ s \notin DOMAIN words THEN ERR_IO ELSE s
  BY DEF BlockSector
<1>4. /\ BlockSector \in error_codes \union -WordValues .. WordValues - 1
      /\ BlockSector >= 0 => BlockSector = s /\ s \in DOMAIN words
  <2> HIDE DEF s
  <2>. QED BY <1>1, <1>2, <1>3 DEF ERR_IO, error_codes
<1>5. BlockLength = IF inode.size - offset <= SectorSize THEN inode.size - offset ELSE SectorSize
  BY <1>1, MinOfTwo DEF BlockLength
<1>6. readblock = IF offset = inode.size THEN 0
                  ELSE IF BlockSector < 0 THEN BlockSector ELSE BlockLength
  BY DEF readblock
<1> HIDE DEF s
<1>7. readblock \in Int /\ readblock \in error_codes \union -WordValues .. inode.size
  BY <1>1, <1>4, <1>5, <1>6 DEF error_codes
<1>8. readblock = 0 <=> offset = inode.size
  BY <1>1, <1>4, <1>5, <1>6 DEF error_codes
<1>9. ASSUME readblock > 0
      PROVE  /\ offset # inode.size /\ BlockSector >= 0 /\ readblock = BlockLength
  BY <1>1, <1>4, <1>6, <1>9 DEF error_codes
<1>. QED BY <1>1, <1>4, <1>5, <1>7, <1>8, <1>9 DEF s

\* A part of a block is a sequence of words of its sector.
LEMMA BlockPart ==
    ASSUME TypeOK, readblock > 0, NEW n \in 0 .. readblock
    PROVE  /\ Block(n) \in Seq(Word) /\ Len(Block(n)) = n
           /\ \A k \in 1 .. n : Block(n)[k] = words[BlockSector][k - 1]
<1>1. readblock \in Int /\ readblock <= SectorSize /\ BlockSector \in DOMAIN words
  BY BlockAnswer
<1>2. words[BlockSector] \in [0 .. SectorSize - 1 -> Word]
  BY <1>1, OpenFile
<1>3. n \in Nat /\ \A k \in 1 .. n : words[BlockSector][k - 1] \in Word
  BY <1>1, <1>2, GeometryAssumption
<1>4. Block(n) = [k \in 1 .. n |-> words[BlockSector][k - 1]]
  BY DEF Block
<1>5. Block(n) \in [1 .. n -> Word]
  BY <1>3, <1>4
<1>. QED BY <1>3, <1>4, <1>5
-----------------------------------------------------------------------------------
(* The invariant.  TypeOK needs Copied, for the length fs_read answers, and Copied  *)
(* needs TypeOK; with OffsetOnBoundary they are inductive.                          *)

\* What has been copied is what the cursor has passed, as far as there was room.
Copied ==
    /\ start + Len(buf) <= inode.size
    /\ pc = "api" => offset = start + Len(buf)
    /\ pc = "fs_read" =>
          /\ start <= offset /\ Len(buf) <= request.size
          /\ Len(buf) = IF offset - start <= request.size THEN offset - start ELSE request.size

IInv == TypeOK /\ OffsetOnBoundary /\ Copied

\* It holds of a file just opened.
LEMMA Initially == Init => IInv
<1>1. SUFFICES ASSUME Init PROVE IInv
  OBVIOUS
<1>2. /\ <<inode, words>> \in Files /\ inode.size \in Nat /\ MaxRequest \in Nat
      /\ SectorSize \in Nat \ {0} /\ WordValues \in Nat \ {0}
  <2>1. PICK f \in Files : inode = f[1] /\ words = f[2]
    BY <1>1 DEF Init
  <2>2. f = <<f[1], f[2]>>
    BY <2>1, RequestAssumption
  <2>. QED BY <2>1, <2>2, RequestAssumption, GeometryAssumption
<1>3. TypeOK
  BY <1>1, <1>2 DEF Init, TypeOK, ERR_NONE
<1>4. OffsetOnBoundary
  BY <1>1, <1>2 DEF Init, OffsetOnBoundary
<1>5. Copied
  BY <1>1, <1>2 DEF Init, Copied
<1>. QED BY <1>3, <1>4, <1>5 DEF IInv
\* Every step preserves it.
LEMMA Step == IInv /\ [Next]_vars => IInv'
<1> SUFFICES ASSUME IInv, [Next]_vars PROVE IInv'
  OBVIOUS
<1> USE DEF IInv
<1>1. /\ <<inode, words>> \in Files /\ inode.size \in Nat
      /\ offset \in 0 .. inode.size /\ start \in 0 .. inode.size
      /\ buf \in Seq(Word) /\ Len(buf) \in Nat /\ request.size \in 0 .. MaxRequest
      /\ MaxRequest \in Nat /\ WordValues \in Nat \ {0} /\ SectorSize \in Nat \ {0}
  BY OpenFile, RequestAssumption, GeometryAssumption DEF TypeOK
\* The cursor of a seek that succeeds is on a boundary, and zero is one.
<1>2. ASSUME NEW off \in Offsets, Lseek(Int32(off)) PROVE IInv'
  <2> DEFINE o == Int32(off)
  <2>1. o \in Int
    BY Int32Type
  <2> HIDE DEF o
  <2>2. /\ lseek(o) \in error_codes \union {ERR_NONE}
        /\ lseek(o) = ERR_NONE => o \in 0 .. inode.size /\ (o = inode.size \/ o % SectorSize = 0)
    BY <2>1, SeekAnswer
  <2>3. /\ pc = "api" /\ ret' = lseek(o) /\ UNCHANGED <<inode, words, pc, request>>
        /\ \/ lseek(o) = ERR_NONE /\ offset' = o /\ start' = o /\ buf' = << >>
           \/ lseek(o) # ERR_NONE /\ UNCHANGED <<offset, start, buf>>
    BY <1>2 DEF Lseek, o
  <2>4. TypeOK'
    <3>1. ret' \in error_codes \union -WordValues .. inode.size + MaxRequest
      BY <1>1, <2>2, <2>3 DEF ERR_NONE
    <3>2. offset' \in 0 .. inode.size /\ start' \in 0 .. inode.size /\ buf' \in Seq(Word)
      <4>1. CASE lseek(o) = ERR_NONE
        BY <2>2, <2>3, <4>1
      <4>2. CASE lseek(o) # ERR_NONE
        BY <1>1, <2>3, <4>2
      <4>. QED BY <4>1, <4>2
    <3>. QED BY <2>3, <3>1, <3>2 DEF TypeOK
  <2>5. OffsetOnBoundary'
    BY <2>2, <2>3 DEF OffsetOnBoundary
  <2>6. Copied'
    BY <1>1, <2>2, <2>3 DEF Copied
  <2>. QED BY <2>4, <2>5, <2>6
\* A block ends on a boundary, for it starts on one, or at the end of the file.
<1>3. ASSUME readblock > 0
      PROVE  /\ readblock \in Nat /\ offset + readblock \in 0 .. inode.size
             /\ offset + readblock = inode.size \/ (offset + readblock) % SectorSize = 0
  <2>1. /\ readblock \in Nat /\ offset + readblock \in 0 .. inode.size /\ offset # inode.size
        /\ readblock = SectorSize \/ offset + readblock = inode.size
    <3>1. /\ readblock \in Int /\ offset + readblock <= inode.size
          /\ readblock = SectorSize \/ offset + readblock = inode.size
      BY <1>3, BlockAnswer
    <3>2. readblock = 0 <=> offset = inode.size
      BY BlockAnswer
    <3>. QED BY <1>1, <1>3, <3>1, <3>2
  <2>2. offset % SectorSize = 0
    BY <2>1 DEF OffsetOnBoundary
  <2>3. ASSUME readblock = SectorSize PROVE (offset + readblock) % SectorSize = 0
    <3>1. offset \in Nat /\ SectorSize \in Nat \ {0}
      BY <1>1
    <3>. QED BY <2>2, <2>3, <3>1, NextBoundary
  <2>. QED BY <2>1, <2>3
<1>4. ASSUME ReadBlock PROVE IInv'
  <2>1. /\ pc = "api" /\ ret' = readblock /\ UNCHANGED <<inode, words, pc, start, request>>
        /\ \/ readblock > 0 /\ offset' = offset + readblock /\ buf' = buf \o Block(readblock)
           \/ ~(readblock > 0) /\ UNCHANGED <<offset, buf>>
    BY <1>4 DEF ReadBlock
  <2>2. readblock \in Int /\ readblock \in error_codes \union -WordValues .. inode.size + MaxRequest
    <3>1. readblock \in Int /\ readblock \in error_codes \union -WordValues .. inode.size
      BY BlockAnswer
    <3>. QED BY <1>1, <3>1
  <2>3. ASSUME readblock > 0
        PROVE  buf' \in Seq(Word) /\ Len(buf') = Len(buf) + readblock
    <3>1. Block(readblock) \in Seq(Word) /\ Len(Block(readblock)) = readblock
      BY <1>3, <2>3, BlockPart
    <3>. QED BY <1>1, <2>1, <2>3, <3>1, Concatenation
  <2>4. TypeOK'
    <3> USE DEF TypeOK
    <3>1. CASE readblock > 0
      BY <1>3, <2>1, <2>2, <2>3, <3>1
    <3>2. CASE ~(readblock > 0)
      BY <1>1, <2>1, <2>2, <3>2
    <3>. QED BY <3>1, <3>2
  <2>5. OffsetOnBoundary'
    BY <1>3, <2>1 DEF OffsetOnBoundary
  <2>6. Copied'
    <3>1. CASE readblock > 0
      <4>1. offset = start + Len(buf)
        BY <2>1 DEF Copied
      <4>2. readblock \in Nat /\ offset + readblock <= inode.size
        BY <1>3, <3>1
      <4>3. offset' = offset + readblock /\ start' = start /\ Len(buf') = Len(buf) + readblock
        BY <2>1, <2>3, <3>1
      <4>4. offset' = start' + Len(buf') /\ start' + Len(buf') <= inode.size
        BY <1>1, <4>1, <4>2, <4>3
      <4>. QED BY <2>1, <4>4 DEF Copied
    <3>2. CASE ~(readblock > 0)
      BY <1>1, <2>1, <3>2 DEF Copied
    <3>. QED BY <3>1, <3>2
  <2>. QED BY <2>4, <2>5, <2>6
<1>5. ASSUME NEW n \in 0 .. MaxRequest, NEW off \in Offsets, FsReadOpen(n, off) PROVE IInv'
  <2> DEFINE o == Int32(off)
  <2>1. o \in Int
    BY Int32Type
  <2> HIDE DEF o
  <2>2. /\ lseek(o) \in error_codes \union {ERR_NONE}
        /\ lseek(o) = ERR_NONE => o \in 0 .. inode.size /\ (o = inode.size \/ o % SectorSize = 0)
    BY <2>1, SeekAnswer
  <2>3. /\ ret' = lseek(o) /\ UNCHANGED <<inode, words>>
        /\ request' = [size |-> n, offset |-> off] /\ buf' = << >>
        /\ \/ lseek(o) = ERR_NONE /\ pc' = "fs_read" /\ offset' = o /\ start' = o
           \/ lseek(o) # ERR_NONE /\ pc' = "reply" /\ offset' = 0 /\ start' = 0
    BY <1>5 DEF FsReadOpen, o
  <2>4. TypeOK'
    BY <1>1, <2>2, <2>3 DEF TypeOK, ERR_NONE
  <2>5. OffsetOnBoundary'
    BY <1>1, <2>2, <2>3 DEF OffsetOnBoundary
  <2>6. Copied'
    BY <1>1, <2>2, <2>3 DEF Copied
  <2>. QED BY <2>4, <2>5, <2>6
\* The room left bounds what is copied of a block.
<1>6. ASSUME FsReadLoop PROVE IInv'
  <2> DEFINE m == Min({readblock, request.size - Len(buf)})
  <2>1. /\ pc = "fs_read" /\ readblock > 0 /\ Len(buf) < request.size
        /\ offset' = offset + readblock /\ buf' = buf \o Block(m)
        /\ UNCHANGED <<inode, words, pc, start, request, ret>>
    BY <1>6 DEF FsReadLoop, FsReadGoesOn
  <2>2. m = IF readblock <= request.size - Len(buf) THEN readblock ELSE request.size - Len(buf)
    <3>1. readblock \in Int /\ request.size - Len(buf) \in Int
      BY <1>1, <1>3, <2>1
    <3>. QED BY <3>1, MinOfTwo
  <2> HIDE DEF m
  <2>3. m \in 0 .. readblock
    BY <1>1, <1>3, <2>1, <2>2
  <2>4. Block(m) \in Seq(Word) /\ Len(Block(m)) = m
    BY <2>1, <2>3, BlockPart
  <2>5. buf' \in Seq(Word) /\ Len(buf') = Len(buf) + m
    BY <1>1, <2>1, <2>4, Concatenation
  <2>6. TypeOK'
    BY <1>1, <1>3, <2>1, <2>5 DEF TypeOK
  <2>7. OffsetOnBoundary'
    BY <1>3, <2>1 DEF OffsetOnBoundary
  <2>8. Copied'
    <3>1. readblock \in Nat /\ offset + readblock <= inode.size
      BY <1>3, <2>1
    <3>2. Len(buf) = offset - start
      BY <1>1, <2>1 DEF Copied
    <3>3. Len(buf') = IF offset' - start <= request.size THEN offset' - start ELSE request.size
      <4>1. Len(buf') = Len(buf) + m /\ offset' - start = Len(buf) + readblock
        BY <1>1, <2>1, <2>5, <3>1, <3>2
      <4>2. Len(buf) \in Int /\ request.size \in Int
        BY <1>1
      <4>3. CASE readblock <= request.size - Len(buf)
        BY <2>2, <3>1, <4>1, <4>2, <4>3
      <4>4. CASE ~(readblock <= request.size - Len(buf))
        BY <2>2, <3>1, <4>1, <4>2, <4>4
      <4>. QED BY <4>3, <4>4
    <3>4. start <= offset' /\ Len(buf') <= request.size /\ start + Len(buf') <= inode.size
      BY <1>1, <2>1, <3>1, <3>2, <3>3
    <3>. QED BY <2>1, <3>3, <3>4 DEF Copied
  <2>. QED BY <2>6, <2>7, <2>8
<1>7. ASSUME FsReadDone PROVE IInv'
  <2>1. /\ pc = "fs_read" /\ pc' = "reply" /\ UNCHANGED <<inode, words, start, request, buf>>
        /\ ret' = IF readblock < 0 THEN readblock ELSE Len(buf)
        /\ offset' = IF readblock > 0 THEN offset + readblock ELSE offset
    BY <1>7 DEF FsReadDone
  <2>2. ret' \in error_codes \union -WordValues .. inode.size + MaxRequest
    <3>1. readblock \in Int /\ readblock \in error_codes \union -WordValues .. inode.size
      BY BlockAnswer
    <3>2. Len(buf) \in 0 .. MaxRequest
      BY <1>1, <2>1 DEF Copied
    <3>. QED BY <1>1, <2>1, <3>1, <3>2
  <2>3. TypeOK'
    BY <1>1, <1>3, <2>1, <2>2 DEF TypeOK
  <2>4. OffsetOnBoundary'
    BY <1>3, <2>1 DEF OffsetOnBoundary
  <2>5. Copied'
    BY <1>1, <2>1 DEF Copied
  <2>. QED BY <2>3, <2>4, <2>5
<1>8. ASSUME Open PROVE IInv'
  <2>1. TypeOK'
    BY <1>1, <1>8 DEF Open, TypeOK, ERR_NONE
  <2>2. OffsetOnBoundary'
    BY <1>1, <1>8 DEF Open, OffsetOnBoundary
  <2>3. Copied'
    BY <1>1, <1>8 DEF Open, Copied
  <2>. QED BY <2>1, <2>2, <2>3
<1>9. ASSUME UNCHANGED vars PROVE IInv'
  BY <1>9 DEF vars, TypeOK, OffsetOnBoundary, Copied
<1>. QED BY <1>2, <1>4, <1>5, <1>6, <1>7, <1>8, <1>9 DEF Next

\* And so always.
LEMMA Invariance == Spec => []IInv
BY Initially, Step, PTL DEF Spec

\* Every state of the reader is well typed: no cursor leaves the file, no answer is
\* longer than what was asked for (src/done/filev6.c:26-69, src/done/u6fs_fuse.c:
\* 123-154).
THEOREM Typing == Spec => []TypeOK
<1>1. IInv => TypeOK
  BY DEF IInv
<1>. QED BY Invariance, <1>1, PTL

\* The cursor of every open file is on a sector boundary or at its end, whatever is
\* sought and read (src/done/filev6.c:44-69).
THEOREM Boundaries == Spec => []OffsetOnBoundary
<1>1. IInv => OffsetOnBoundary
  BY DEF IInv
<1>. QED BY Invariance, <1>1, PTL

\* A read of the FUSE server that succeeds is complete (src/done/u6fs_fuse.c:
\* 138-154), for every file, image, offset and length.
THEOREM Complete == Spec => FsReadComplete
<1> DEFINE Whole == pc = "fs_read" /\ pc' = "reply" /\ ret' >= 0
                      => ret' = Len(buf) /\ ret' = Min({request.size, inode.size - start})
<1>1. IInv /\ [Next]_vars => [Whole]_vars
  <2> SUFFICES ASSUME IInv, Next, pc = "fs_read", pc' = "reply", ret' >= 0
               PROVE  ret' = Len(buf) /\ ret' = Min({request.size, inode.size - start})
    BY DEF vars
  <2> USE DEF IInv
  <2>1. ~FsReadGoesOn /\ ret' = IF readblock < 0 THEN readblock ELSE Len(buf)
    BY DEF Next, Lseek, ReadBlock, FsReadOpen, FsReadLoop, FsReadDone, Open
  <2>2. /\ readblock \in Int /\ (readblock = 0 <=> offset = inode.size)
        /\ inode.size \in Nat /\ offset \in 0 .. inode.size /\ start \in 0 .. inode.size
        /\ Len(buf) \in Nat /\ request.size \in Nat
    BY BlockAnswer, OpenFile, RequestAssumption
  <2>3. /\ start <= offset /\ Len(buf) <= request.size
        /\ Len(buf) = IF offset - start <= request.size THEN offset - start ELSE request.size
    BY DEF Copied
  <2>4. readblock >= 0 /\ ret' = Len(buf)
    BY <2>1, <2>2
  <2>5. readblock = 0 \/ Len(buf) = request.size
    BY <2>1, <2>2, <2>3, <2>4 DEF FsReadGoesOn
  <2>6. Len(buf) = IF request.size <= inode.size - start THEN request.size ELSE inode.size - start
    BY <2>2, <2>3, <2>5
  <2>. QED BY <2>2, <2>4, <2>6, MinOfTwo
<1>2. [Whole]_vars => [Whole]_vars
  OBVIOUS
<1>. QED BY Invariance, <1>1, PTL DEF Spec, FsReadComplete
-----------------------------------------------------------------------------------
(* What is read.  The code looks for the sectors of a file of exactly AddrSmall full *)
(* sectors in tables it does not have; for every other file it finds the sectors the *)
(* format says.                                                                      *)

NoneFillsItsInode == \A f \in Files : f[1].size # AddrSmall * SectorSize

\* The file that is open is one of those.
LEMMA SizeIsSound ==
    ASSUME TypeOK, NoneFillsItsInode
    PROVE  inode.size # AddrSmall * SectorSize
<1> DEFINE f == <<inode, words>>
<1>1. f \in Files /\ f[1] = inode
  BY DEF TypeOK
<1> HIDE DEF f
<1>. QED BY <1>1 DEF NoneFillsItsInode

\* Whether a file is small is decided as the format has it.
LEMMA SmallFile ==
    ASSUME TypeOK, NoneFillsItsInode
    PROVE  /\ SizeTot(inode.size) \in Nat /\ AddrSmall * SectorSize \in Nat
           /\ SizeTot(inode.size) <= AddrSmall <=> inode.size <= AddrSmall * SectorSize
<1>1. inode.size \in Nat /\ SectorSize \in Nat \ {0} /\ AddrSmall \in Nat
  BY OpenFile, GeometryAssumption
<1>2. /\ SizeTot(inode.size) \in Nat
      /\ SizeTot(inode.size) <= AddrSmall <=> inode.size < AddrSmall * SectorSize
  BY <1>1, Quotient DEF SizeTot
<1>3. AddrSmall * SectorSize \in Nat
  BY <1>1, SMTT(30)
<1>. QED BY <1>1, <1>2, <1>3, SizeIsSound

\* If inode_findsector answers a sector, it is the one of the format.
LEMMA FoundSector ==
    ASSUME TypeOK, NoneFillsItsInode, NEW k \in Nat, inode_findsector(words, inode, k) >= 0
    PROVE  inode_findsector(words, inode, k) = FileSector(k)
<1> DEFINE s == inode_findsector(words, inode, k)
<1>1. /\ inode.size \in Nat /\ inode.mode # "free"
      /\ inode.addr \in [0 .. AddrSmall - 1 -> Word]
  BY OpenFile
<1>2. WordValues \in Nat \ {0} /\ SectorSize \in Nat \ {0} /\ AddrSmall \in Nat
  BY GeometryAssumption
<1>3. /\ SizeTot(inode.size) \in Nat /\ AddrSmall * SectorSize \in Nat
      /\ SizeTot(inode.size) <= AddrSmall <=> inode.size <= AddrSmall * SectorSize
  BY SmallFile
<1>4. CASE k \notin 0 .. SizeTot(inode.size) - 1
  <2>1. s = ERR_OFFSET_OUT_OF_RANGE
    BY <1>1, <1>4 DEF inode_findsector
  <2>. QED BY <2>1 DEF ERR_OFFSET_OUT_OF_RANGE
<1>5. CASE k \in 0 .. SizeTot(inode.size) - 1 /\ SizeTot(inode.size) <= AddrSmall
  <2>1. s = inode.addr[k]
    BY <1>1, <1>5 DEF inode_findsector
  <2>. QED BY <1>3, <1>5, <2>1 DEF FileSector
<1>6. CASE /\ k \in 0 .. SizeTot(inode.size) - 1
           /\ ~(SizeTot(inode.size) <= AddrSmall) /\ SizeTot(inode.size) <= MediumSize
  <2> DEFINE table == inode.addr[k \div AddressesPerSector]
             w == words[table][k % AddressesPerSector]
  <2>1. s = IF table \notin DOMAIN words THEN ERR_IO ELSE Int16(w)
    BY <1>1, <1>6 DEF inode_findsector, inode_findsector_bigfile
  <2>2. table \in DOMAIN words /\ Int16(w) >= 0 /\ s = Int16(w)
    BY <2>1 DEF ERR_IO
  <2>3. w \in Word
    <3>1. words[table] \in [0 .. SectorSize - 1 -> Word]
      BY <2>2, OpenFile
    <3>2. k % SectorSize \in 0 .. SectorSize - 1
      BY <1>2, Division
    <3>. QED BY <3>1, <3>2 DEF AddressesPerSector
  <2> HIDE DEF w, s
  <2>4. Int16(w) = w
    BY <1>2, <2>2, <2>3 DEF Int16, Word
  <2>5. FileSector(k) = w
    BY <1>3, <1>6 DEF FileSector, w
  <2>. QED BY <2>2, <2>4, <2>5 DEF s
<1>7. CASE /\ k \in 0 .. SizeTot(inode.size) - 1
           /\ ~(SizeTot(inode.size) <= AddrSmall) /\ ~(SizeTot(inode.size) <= MediumSize)
  <2>1. s = ERR_FILE_TOO_LARGE
    BY <1>1, <1>7 DEF inode_findsector
  <2>. QED BY <2>1 DEF ERR_FILE_TOO_LARGE
<1>. QED BY <1>4, <1>5, <1>6, <1>7

\* The block at the cursor is the content of the file there.
LEMMA BlockIsContent ==
    ASSUME TypeOK, OffsetOnBoundary, NoneFillsItsInode, readblock > 0, NEW j \in 1 .. readblock
    PROVE  words[BlockSector][j - 1] = Content(offset + j - 1)
<1>1. /\ offset \in Nat /\ SectorSize \in Nat \ {0}
  BY OpenFile, GeometryAssumption
<1>2. /\ readblock \in Int /\ readblock <= SectorSize /\ BlockSector >= 0
      /\ BlockSector = inode_findsector(words, inode, offset \div SectorSize)
  BY BlockAnswer
<1>3. offset % SectorSize = 0
  BY BlockAnswer DEF OffsetOnBoundary
<1>4. offset \div SectorSize \in Nat
  BY <1>1, Quotient
<1>5. BlockSector = FileSector(offset \div SectorSize)
  BY <1>2, <1>4, FoundSector
<1> DEFINE i == j - 1
<1>6. i \in 0 .. SectorSize - 1 /\ offset + j - 1 = offset + i
  BY <1>1, <1>2
<1> HIDE DEF i
<1>7. (offset + i) \div SectorSize = offset \div SectorSize /\ (offset + i) % SectorSize = i
  <2>1. i \in 0 .. SectorSize - 1
    BY <1>6
  <2>. QED BY <1>1, <1>3, <2>1, InBlock, ZenonT(30)
<1>8. words[BlockSector][i] = Content(offset + j - 1)
  BY <1>5, <1>6, <1>7 DEF Content
<1>. QED BY <1>8 DEF i

Held == \A k \in 1 .. Len(buf) : buf[k] = Content(start + k - 1)

\* Adding the first m words of the block keeps what is held the content.
LEMMA Extends ==
    ASSUME IInv, Held, NoneFillsItsInode, readblock > 0, NEW m \in 0 .. readblock,
           Len(buf) = offset - start, buf' = buf \o Block(m), UNCHANGED <<inode, words, start>>
    PROVE  Held'
<1>1. /\ buf \in Seq(Word) /\ Len(buf) \in Nat /\ start \in Int /\ offset \in Int
      /\ readblock \in Int
  BY OpenFile, BlockAnswer DEF IInv
<1>2. /\ Block(m) \in Seq(Word) /\ Len(Block(m)) = m
      /\ \A k \in 1 .. m : Block(m)[k] = words[BlockSector][k - 1]
  BY BlockPart DEF IInv
<1>3. /\ Len(buf') = Len(buf) + m
      /\ \A k \in 1 .. Len(buf) : buf'[k] = buf[k]
      /\ \A k \in 1 .. m : buf'[Len(buf) + k] = Block(m)[k]
  <2> DEFINE u == Block(m)
  <2>1. u \in Seq(Word) /\ Len(u) = m /\ buf' = buf \o u
    BY <1>2
  <2> HIDE DEF u
  <2>2. /\ Len(buf \o u) = Len(buf) + Len(u)
        /\ \A k \in 1 .. Len(buf) : (buf \o u)[k] = buf[k]
        /\ \A k \in 1 .. Len(u) : (buf \o u)[Len(buf) + k] = u[k]
    BY <1>1, <2>1, Concatenation
  <2>. QED BY <2>1, <2>2 DEF u
<1>4. ASSUME NEW p PROVE Content(p)' = Content(p)
  BY DEF Content, FileSector
<1>5. ASSUME NEW k \in 1 .. Len(buf') PROVE buf'[k] = Content(start + k - 1)
  <2>1. CASE k \in 1 .. Len(buf)
    BY <1>3, <2>1 DEF Held
  <2>2. CASE k \notin 1 .. Len(buf)
    <3> DEFINE j == k - Len(buf)
    <3>1. j \in 1 .. m /\ k = Len(buf) + j /\ j \in 1 .. readblock
      BY <1>1, <1>3, <2>2
    <3>2. start + k - 1 = offset + j - 1
      BY <1>1, <3>1
    <3> HIDE DEF j
    <3>3. buf'[k] = words[BlockSector][j - 1]
      BY <1>2, <1>3, <3>1
    <3>4. words[BlockSector][j - 1] = Content(offset + j - 1)
      BY <3>1, BlockIsContent DEF IInv
    <3>. QED BY <3>2, <3>3, <3>4
  <2>. QED BY <2>1, <2>2
<1>. QED BY <1>4, <1>5 DEF Held
\* No step makes what is held anything but the content.
LEMMA HeldStep ==
    ASSUME NoneFillsItsInode, IInv, Held, [Next]_vars
    PROVE  Held'
<1>1. ASSUME buf' = << >> PROVE Held'
  BY <1>1 DEF Held
<1>2. ASSUME UNCHANGED <<inode, words, start, buf>> PROVE Held'
  BY <1>2 DEF Held, Content, FileSector
<1>3. ASSUME NEW off, Lseek(off) PROVE Held'
  BY <1>1, <1>2, <1>3 DEF Lseek
<1>4. ASSUME ReadBlock PROVE Held'
  <2>1. CASE readblock > 0
    <3>1. Len(buf) = offset - start
      <4>1. offset = start + Len(buf)
        BY <1>4 DEF ReadBlock, IInv, Copied
      <4>. QED BY <4>1, OpenFile DEF IInv
    <3>2. buf' = buf \o Block(readblock) /\ UNCHANGED <<inode, words, start>>
      BY <1>4, <2>1 DEF ReadBlock
    <3>3. readblock \in 0 .. readblock
      BY <2>1, BlockAnswer DEF IInv
    <3>. QED BY <2>1, <3>1, <3>2, <3>3, Extends
  <2>2. CASE ~(readblock > 0)
    BY <1>2, <1>4, <2>2 DEF ReadBlock
  <2>. QED BY <2>1, <2>2
<1>5. ASSUME NEW n, NEW off, FsReadOpen(n, off) PROVE Held'
  BY <1>1, <1>5 DEF FsReadOpen
<1>6. ASSUME FsReadLoop PROVE Held'
  <2> DEFINE m == Min({readblock, request.size - Len(buf)})
  <2>1. /\ pc = "fs_read" /\ readblock > 0 /\ Len(buf) < request.size
        /\ buf' = buf \o Block(m) /\ UNCHANGED <<inode, words, start>>
    BY <1>6 DEF FsReadLoop, FsReadGoesOn
  <2>2. readblock \in Int /\ request.size \in Int /\ Len(buf) \in Nat
    BY BlockAnswer, OpenFile, RequestAssumption DEF IInv
  <2>3. m \in 0 .. readblock
    <3>1. m = IF readblock <= request.size - Len(buf) THEN readblock ELSE request.size - Len(buf)
      BY <2>2, MinOfTwo
    <3>. QED BY <2>1, <2>2, <3>1
  <2>4. Len(buf) = offset - start
    <3>1. Len(buf) = IF offset - start <= request.size THEN offset - start ELSE request.size
      BY <2>1 DEF IInv, Copied
    <3>. QED BY <2>1, <2>2, <3>1
  <2> HIDE DEF m
  <2>. QED BY <2>1, <2>3, <2>4, Extends
<1>7. ASSUME FsReadDone PROVE Held'
  BY <1>2, <1>7 DEF FsReadDone
<1>8. ASSUME Open PROVE Held'
  BY <1>1, <1>8 DEF Open
<1>9. ASSUME UNCHANGED vars PROVE Held'
  BY <1>2, <1>9 DEF vars
<1>. QED BY <1>3, <1>4, <1>5, <1>6, <1>7, <1>8, <1>9 DEF Next

\* Whatever is sought and read, and through whichever tables, the caller holds exactly
\* the content of the file from where it began to read (src/done/filev6.c:26-54,
\* src/done/inode.c:76-106), as long as no file has just the size at which
\* inode_findsector counts a sector too many.
THEOREM ReadsContent ==
    ASSUME NoneFillsItsInode
    PROVE  Spec => []ReadIsContent
<1>1. Init => Held
  BY DEF Init, Held
<1>2. IInv /\ Held /\ [Next]_vars => Held'
  BY HeldStep
<1>3. IInv /\ Held => ReadIsContent
  BY DEF IInv, Copied, Held, ReadIsContent
<1>. QED BY Invariance, <1>1, <1>2, <1>3, PTL DEF Spec
-----------------------------------------------------------------------------------
(* Which files can be read. *)

\* Not of the size above, not larger than the tables of an inode reach, and on an
\* image whose sector numbers do not turn negative in an int16_t.
WithinReach ==
    /\ NoneFillsItsInode
    /\ \A f \in Files : /\ SizeTot(f[1].size) <= MediumSize
                        /\ DOMAIN f[2] \subseteq 0 .. WordValues \div 2 - 1

\* Every sector of such a file that is stored is found.
LEMMA FindsSector ==
    ASSUME TypeOK, WithinReach, NEW k \in 0 .. SizeTot(inode.size) - 1, Stored(k)
    PROVE  /\ inode_findsector(words, inode, k) = FileSector(k)
           /\ FileSector(k) \in DOMAIN words /\ FileSector(k) \in Nat
<1>1. /\ SizeTot(inode.size) <= MediumSize
      /\ DOMAIN words \subseteq 0 .. WordValues \div 2 - 1
  <2> DEFINE f == <<inode, words>>
  <2>1. f \in Files /\ f[1] = inode /\ f[2] = words
    BY DEF TypeOK
  <2> HIDE DEF f
  <2>. QED BY <2>1 DEF WithinReach
<1>2. /\ inode.size \in Nat /\ inode.mode # "free"
      /\ WordValues \in Nat \ {0} /\ SectorSize \in Nat \ {0} /\ AddrSmall \in Nat
  BY OpenFile, GeometryAssumption
<1>3. /\ SizeTot(inode.size) \in Nat /\ AddrSmall * SectorSize \in Nat
      /\ SizeTot(inode.size) <= AddrSmall <=> inode.size <= AddrSmall * SectorSize
  BY SmallFile DEF WithinReach
<1>4. /\ FileSector(k) \in DOMAIN words /\ FileSector(k) \in Nat
      /\ FileSector(k) < WordValues \div 2
  <2>1. WordValues \div 2 \in Int
    BY <1>2, Division
  <2>. QED BY <1>1, <2>1 DEF Stored
<1>5. CASE SizeTot(inode.size) <= AddrSmall
  <2>1. inode_findsector(words, inode, k) = inode.addr[k]
    BY <1>2, <1>5 DEF inode_findsector
  <2>. QED BY <1>3, <1>4, <1>5, <2>1 DEF FileSector
<1>6. CASE ~(SizeTot(inode.size) <= AddrSmall)
  <2> DEFINE table == inode.addr[k \div AddressesPerSector]
  <2>1. inode.size > AddrSmall * SectorSize
    BY <1>2, <1>3, <1>6
  <2>2. FileSector(k) = words[table][k % AddressesPerSector]
    BY <1>2, <1>3, <2>1 DEF FileSector
  <2>3. table \in DOMAIN words
    BY <2>1 DEF Stored
  <2>4. inode_findsector(words, inode, k) = Int16(FileSector(k))
    BY <1>1, <1>2, <1>6, <2>2, <2>3 DEF inode_findsector, inode_findsector_bigfile
  <2>5. Int16(FileSector(k)) = FileSector(k)
    BY <1>2, <1>4, Division DEF Int16
  <2>. QED BY <1>4, <2>4, <2>5
<1>. QED BY <1>5, <1>6

\* A file within the reach of the code, all of whose sectors are stored, can be read
\* at every cursor a client can bring about (src/done/filev6.c:26-54).
THEOREM Readability ==
    ASSUME WithinReach
    PROVE  Spec => []BlockReadable
<1>1. IInv => BlockReadable
  <2> SUFFICES ASSUME TypeOK, \A p \in 0 .. inode.size - 1 : Stored(p \div SectorSize)
               PROVE  readblock >= 0
    BY DEF IInv, BlockReadable
  <2>1. /\ inode.size \in Nat /\ offset \in 0 .. inode.size /\ SectorSize \in Nat \ {0}
    BY OpenFile, GeometryAssumption
  <2>2. CASE offset = inode.size
    BY <2>2 DEF readblock
  <2>3. CASE offset # inode.size
    <3> DEFINE k == offset \div SectorSize
    <3>1. Stored(k)
      BY <2>1, <2>3
    <3>2. k \in 0 .. SizeTot(inode.size) - 1
      <4>1. SizeTot(inode.size) \in Nat
        BY <2>1, Quotient DEF SizeTot
      <4>2. inode.size < SizeTot(inode.size) * SectorSize
        BY <2>1, <4>1, Quotient DEF SizeTot
      <4>3. SizeTot(inode.size) * SectorSize \in Nat
        BY <2>1, <4>1, SMTT(30)
      <4>4. k \in Nat /\ (k + 1 <= SizeTot(inode.size) <=> offset < SizeTot(inode.size) * SectorSize)
        BY <2>1, <4>1, Quotient
      <4> HIDE DEF k
      <4>. QED BY <2>1, <4>1, <4>2, <4>3, <4>4
    <3> HIDE DEF k
    <3>3. /\ inode_findsector(words, inode, k) = FileSector(k)
          /\ FileSector(k) \in DOMAIN words /\ FileSector(k) \in Nat
      BY <3>1, <3>2, FindsSector
    <3>4. BlockSector \in Nat
      BY <3>3 DEF BlockSector, k
    <3>5. BlockLength >= 0
      <4>1. inode.size - offset \in Int /\ SectorSize \in Int
        BY <2>1
      <4>2. BlockLength = IF inode.size - offset <= SectorSize THEN inode.size - offset
                                                              ELSE SectorSize
        BY <4>1, MinOfTwo DEF BlockLength
      <4>. QED BY <2>1, <4>2
    <3>. QED BY <2>3, <3>4, <3>5 DEF readblock
  <2>. QED BY <2>2, <2>3
<1>. QED BY Invariance, <1>1, PTL
======================================================================================
