---------------------------------- MODULE FileRead ----------------------------------
(***********************************************************************************)
(* Reading one file: filev6_open, filev6_lseek, filev6_readblock (src/done/        *)
(* filev6.c) under any sequence of calls, and fs_read of the FUSE server (src/     *)
(* done/u6fs_fuse.c), which opens, seeks and reads block by block.                 *)
(*                                                                                 *)
(* The file and the image do not change while it is read: the server only reads,   *)
(* and runs single-threaded.  A unit is two bytes and its value is the word stored *)
(* there, so that a data sector and a table of addresses are the same thing on     *)
(* disk, as in the code.                                                           *)
(***********************************************************************************)
EXTENDS Inode, FiniteSetsExt, Sequences

CONSTANTS
    Files,      \* pairs <<inode, words>>: a file and the image it is stored on
    MaxRequest, \* bound on the length a caller asks fs_read for
    Offsets,    \* the offsets callers ask for
    IntValues   \* the number of values of an int, 2^32 in the code

ASSUME RequestAssumption ==
    /\ \A f \in Files : f = <<f[1], f[2]>>
    /\ \A f \in Files : f[1] \in Inodes(f[1].size) /\ f[1].mode # "free" /\ f[1].size \in Nat
    /\ \A f \in Files : \A s \in DOMAIN f[2] : f[2][s] \in [0 .. SectorSize - 1 -> Word]
    /\ MaxRequest \in Nat /\ Offsets \subseteq Int
    /\ IntValues \in Nat \ {0} /\ IntValues % SectorSize = 0

VARIABLES
    inode,      \* fv6.i_node
    words,      \* the image
    offset,     \* fv6.offset
    pc,         \* "api": a client between two calls; "fs_read": inside its loop;
                \* "reply": fs_read has returned and its fv6 is gone
    start,      \* the offset the reading under way, or last done, began at
    request,    \* [size, offset]: what the fs_read under way was asked for
    buf,        \* what has been copied to the caller
    ret         \* the last answer

vars == <<inode, words, offset, pc, start, request, buf, ret>>

TypeOK ==
    /\ <<inode, words>> \in Files
    /\ offset \in 0 .. inode.size
    /\ pc \in {"api", "fs_read", "reply"}
    /\ start \in 0 .. inode.size
    /\ request \in [size : 0 .. MaxRequest, offset : Offsets \union {0}]
    /\ buf \in Seq(Word)
    /\ ret \in error_codes \union -WordValues .. inode.size + MaxRequest

\* filev6_open has just succeeded.
Init ==
    /\ \E f \in Files : inode = f[1] /\ words = f[2]
    /\ offset = 0 /\ start = 0 /\ request = [size |-> 0, offset |-> 0]
    /\ pc = "api" /\ buf = << >> /\ ret = ERR_NONE

\* Mutant: the end of the file is one too far.
lseek_far(off) ==
    CASE off > inode.size + 1 \/ off < 0                 -> ERR_OFFSET_OUT_OF_RANGE
      [] off \in 0 .. inode.size - 1 /\ off % SectorSize # 0 -> ERR_BAD_PARAMETER
      [] OTHER                                           -> ERR_NONE

\* Mutant: any offset in the file will do.
lseek_anywhere(off) == IF off \in 0 .. inode.size THEN ERR_NONE ELSE ERR_OFFSET_OUT_OF_RANGE

\* filev6_lseek, without its effect on the cursor.
lseek(off) ==
    CASE off > inode.size \/ off < 0                     -> ERR_OFFSET_OUT_OF_RANGE
      [] off \in 0 .. inode.size - 1 /\ off % SectorSize # 0 -> ERR_BAD_PARAMETER
      [] OTHER                                           -> ERR_NONE

\* The sector filev6_readblock is about to read, or why it cannot.
BlockSector ==
    LET s == inode_findsector(words, inode, offset \div SectorSize)
    IN  IF s >= 0 /\ s \notin DOMAIN words THEN ERR_IO ELSE s

\* How much filev6_readblock answers, at most a sector and never past the end.
BlockLength == Min({inode.size - offset, SectorSize})

readblock == IF offset = inode.size THEN 0
             ELSE IF BlockSector < 0 THEN BlockSector ELSE BlockLength

\* The first n units of the block.
Block(n) == [k \in 1 .. n |-> words[BlockSector][k - 1]]

-----------------------------------------------------------------------------------
(* A client of the file layer: direntv6.c and u6fs_utils.c only read in sequence. *)

Lseek(off) ==
    /\ pc = "api"
    /\ ret' = lseek(off)
    /\ IF ret' = ERR_NONE THEN offset' = off /\ start' = off /\ buf' = << >>
                          ELSE UNCHANGED <<offset, start, buf>>
    /\ UNCHANGED <<inode, words, pc, request>>

ReadBlock ==
    /\ pc = "api"
    /\ ret' = readblock
    /\ IF ret' > 0 THEN offset' = offset + ret' /\ buf' = buf \o Block(ret')
                   ELSE UNCHANGED <<offset, buf>>
    /\ UNCHANGED <<inode, words, pc, start, request>>

-----------------------------------------------------------------------------------
(* fs_read(path, buf, size, offset): the path has been looked up. *)

\* The cast of the 64-bit offset to an int.
Int32(off) ==
    IF off % IntValues < IntValues \div 2 THEN off % IntValues ELSE (off % IntValues) - IntValues

\* The copy of the first block begins at offset % SECTOR_SIZE in it, which is zero
\* whenever there is a block, for the cast is taken modulo a number of sectors.
FsReadOpen(n, off) ==
    /\ pc = "api"
    /\ ret' = lseek(Int32(off))
    /\ IF ret' = ERR_NONE
         THEN pc' = "fs_read" /\ offset' = Int32(off) /\ start' = Int32(off)
         ELSE pc' = "reply" /\ offset' = 0 /\ start' = 0
    /\ request' = [size |-> n, offset |-> off]
    /\ buf' = << >>
    /\ UNCHANGED <<inode, words>>

\* Mutant: a block of length zero does not end the loop.
FsReadGoesOn_atEnd == readblock >= 0 /\ Len(buf) < request.size

\* The loop condition reads a block before it looks whether any room is left.
FsReadGoesOn == readblock > 0 /\ Len(buf) < request.size

\* Mutant: the last block is copied without regard to the room left.
FsReadLoop_overrun ==
    /\ pc = "fs_read" /\ FsReadGoesOn
    /\ offset' = offset + readblock
    /\ buf' = buf \o Block(readblock)
    /\ UNCHANGED <<inode, words, pc, start, request, ret>>

FsReadLoop ==
    /\ pc = "fs_read" /\ FsReadGoesOn
    /\ offset' = offset + readblock
    /\ buf' = buf \o Block(Min({readblock, request.size - Len(buf)}))
    /\ UNCHANGED <<inode, words, pc, start, request, ret>>

FsReadDone ==
    /\ pc = "fs_read" /\ ~FsReadGoesOn
    /\ ret' = IF readblock < 0 THEN readblock ELSE Len(buf)
    /\ offset' = IF readblock > 0 THEN offset + readblock ELSE offset
    /\ pc' = "reply"
    /\ UNCHANGED <<inode, words, start, request, buf>>

\* filev6_open: a new fv6 for the next client, which begins at zero.
Open ==
    /\ pc = "reply"
    /\ pc' = "api" /\ offset' = 0 /\ start' = 0 /\ buf' = << >> /\ ret' = ERR_NONE
    /\ request' = [size |-> 0, offset |-> 0]
    /\ UNCHANGED <<inode, words>>

Next ==
    \/ \E off \in Offsets : Lseek(Int32(off))
    \/ ReadBlock
    \/ \E n \in 0 .. MaxRequest, off \in Offsets : FsReadOpen(n, off)
    \/ FsReadLoop
    \/ FsReadDone
    \/ Open

\* Once called, fs_read runs to its end; nothing obliges anybody to call it.
Spec == Init /\ [][Next]_vars /\ WF_vars(FsReadLoop \/ FsReadDone)

-----------------------------------------------------------------------------------
(* What the file contains, according to the on-disk format (src/handouts/04.      *)
(* unixv6.md:91): a file of at most AddrSmall sectors has their numbers in its     *)
(* inode, a larger one has there the numbers of sectors full of sector numbers.    *)

FileSector(k) ==
    IF inode.size <= AddrSmall * SectorSize
      THEN inode.addr[k]
      ELSE words[inode.addr[k \div AddressesPerSector]][k % AddressesPerSector]

Stored(k) ==
    /\ inode.size > AddrSmall * SectorSize =>
          inode.addr[k \div AddressesPerSector] \in DOMAIN words
    /\ FileSector(k) \in DOMAIN words

Content(p) == words[FileSector(p \div SectorSize)][p % SectorSize]

\* The cursor is on a sector boundary or at the end of the file: otherwise the next
\* block would be cut out of one sector although it straddles two
\* (src/done/filev6.c:56-69 with 44-53, and fs_read's cur_offset_in_sector).
OffsetOnBoundary == offset = inode.size \/ offset % SectorSize = 0

\* Whatever was sought before, and through whichever table of addresses, the caller
\* holds exactly the file's content from where the reading began: blocks come in
\* order, without gap, overlap or foreign sector, and a cursor at the end means that
\* nothing is missing (filev6.c:26-54, u6fs_fuse.c:138-148).
ReadIsContent ==
    /\ start + Len(buf) <= inode.size
    /\ pc = "api" => offset = start + Len(buf)
    /\ \A k \in 1 .. Len(buf) : buf[k] = Content(start + k - 1)

\* A file whose sectors are all on the image can be read, block after block, up to
\* its end (src/handouts/04.unixv6.md:91: a file of at most 4 KB is small).
BlockReadable ==
    (\A p \in 0 .. inode.size - 1 : Stored(p \div SectorSize))
        => readblock >= 0

\* A read that succeeds is complete: it answers as much as was asked for, or all
\* there is from the offset on (the contract of a FUSE read under direct_io).
FsReadComplete ==
    [][pc = "fs_read" /\ pc' = "reply" /\ ret' >= 0
         => ret' = Len(buf) /\ ret' = Min({request.size, inode.size - start})]_vars

\* The loop of fs_read ends, on every file and whatever is asked of it.
FsReadEnds == pc = "fs_read" ~> pc = "reply"
====================================================================================
