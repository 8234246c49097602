---------------------------------- MODULE Serving ----------------------------------
(***********************************************************************************)
(* The FUSE server (src/done/u6fs_fuse.c) on an image that other processes write   *)
(* to: `u6fs disk fuse dir' keeps running while `u6fs disk mkdir' and `add' come   *)
(* and go.  Nothing locks the image.  The server is single-threaded and only       *)
(* reads: every request looks its path up from the root, one sector after the      *)
(* other, and between two of them a writer may do anything.                        *)
(*                                                                                 *)
(* A step of the server is one sector access.  It goes through a C stream of its   *)
(* own, with a buffer of one page (module SectorIO): a page that is in the buffer  *)
(* is not read again, however old it is.  That a page is read in one piece is      *)
(* taken from the kernel.                                                          *)
(***********************************************************************************)
EXTENDS U6fsProperties

CONSTANTS
    SectorsPerPage,  \* 8 in the build: 4096 bytes
    Requests         \* what may be asked: records [op, path]

ASSUME ServingAssumption ==
    /\ SectorsPerPage \in Nat \ {0}
    /\ Requests \subseteq [op : {"getattr", "readdir", "read"}, path : Seq(Names)]
    /\ s_isize <= s_block_start

VARIABLES
    buffer,  \* the page in the buffer of the stream, as it was when it was read:
             \* [page, itab, data]
    request, \* [op, path, pc, rest, inr, inode, off]; pc says what comes next:
             \*   idle    nothing is asked; reply is the last answer
             \*   inode   inode_read of inr, whose path below is rest
             \*   block   filev6_readblock at off
    reply,   \* [ret, out, attr]
    due,     \* the path asked for has to be there, see NoNameIsMissed
    served   \* the paths that have been answered for

svars == <<buffer, request, reply, due, served>>
allvars == <<vars, svars>>

-----------------------------------------------------------------------------------
(* The stream of the server. *)

PageOf(s) == s \div SectorsPerPage
InodeSector(inr) == s_block_start - s_isize + inr \div InodesPerSector

PageNow(p) ==
    [page |-> p,
     itab |-> [inr \in {n \in InodeNumbers : PageOf(InodeSector(n)) = p} |-> disk.itab[inr]],
     data |-> [s \in {x \in DOMAIN disk.data : PageOf(x) = p} |-> disk.data[s]]]

\* The buffer b after a sector_read of s.
Fetch(b, s) == IF b.page = PageOf(s) THEN b ELSE PageNow(PageOf(s))

-----------------------------------------------------------------------------------
(* What a file tells. *)

\* Mutant: the size is taken for an unsigned number.
st_blocks_unsigned(size) == IF size = 0 THEN WordValues ELSE (size - 1) \div SectorSize + 1

\* (st_size - 1) / SECTOR_SIZE + 1, where C rounds towards zero: an empty file has
\* one block.
st_blocks(size) == IF size = 0 THEN 1 ELSE (size - 1) \div SectorSize + 1

Stat(i) == [mode |-> i.mode, size |-> i.size, blocks |-> st_blocks(i.size)]
NoStat == [mode |-> "free", size |-> 0, blocks |-> 0]

\* How much of inode i filev6_readblock gives at off.
BlockSize(i, off) == Min({SectorSize, i.size - off})

\* The table of a larger file is read through the buffer first.
WithTable(b, i, off) ==
    IF SizeTot(i.size) \in AddrSmall + 1 .. MediumSize
      THEN Fetch(b, i.addr[(off \div SectorSize) \div AddressesPerSector]) ELSE b

-----------------------------------------------------------------------------------
(* The steps of a request. *)

NoRequest == [op |-> "getattr", path |-> << >>, pc |-> "idle", rest |-> << >>, inr |-> 0,
              inode |-> NoFile.inode, off |-> 0]

\* u6fs_fuse_main: the server has been mounted, which ends with one page or another
\* in the buffer.
SInit ==
    /\ \E s \in Volume : buffer = PageNow(PageOf(s))
    /\ request = NoRequest /\ reply = [ret |-> ERR_NONE, out |-> << >>, attr |-> NoStat]
    /\ due = FALSE /\ served = {}

Ask(q) ==
    /\ request.pc = "idle"
    /\ request' = [NoRequest EXCEPT !.op = q.op, !.path = q.path, !.pc = "inode",
                                    !.rest = q.path, !.inr = ROOT_INUMBER]
    /\ reply' = [ret |-> ERR_NONE, out |-> << >>, attr |-> NoStat]
    /\ due' = (\/ q.path \in served
               \/ /\ buffer.page # PageOf(InodeSector(ROOT_INUMBER))
                  /\ \E c \in acked \ ignored : c.path = q.path)
    /\ UNCHANGED <<buffer, served>>

Answer(r) ==
    /\ reply' = r
    /\ request' = [NoRequest EXCEPT !.op = request.op, !.path = request.path]
    /\ served' = IF r.ret = ERR_NONE THEN served \union {request.path} ELSE served
    /\ UNCHANGED due

AnswerError(err) == Answer([reply EXCEPT !.ret = err])

\* inode_read: in direntv6_opendir for a directory of the path, at the end of it in
\* fs_getattr itself, direntv6_opendir or filev6_open.
ReadInode ==
    /\ request.pc = "inode"
    /\ \E b \in {IF request.inr \in InodeNumbers \ {0} THEN Fetch(buffer, InodeSector(request.inr))
                 ELSE buffer} :
          LET isdir == request.rest # << >> \/ request.op = "readdir"
              err   == IF isdir THEN opendir(b, request.inr) ELSE inode_read(b, request.inr)
          IN  /\ buffer' = b
              /\ IF err # ERR_NONE THEN AnswerError(err)
                 ELSE IF request.rest = << >> /\ request.op = "getattr"
                   THEN Answer([reply EXCEPT !.attr = Stat(b.itab[request.inr])])
                 ELSE /\ request' = [request EXCEPT !.pc = "block", !.off = 0,
                                                    !.inode = b.itab[request.inr]]
                      /\ UNCHANGED <<reply, due, served>>

\* Mutant: a whole sector is stepped over, whatever was read of it.
Advanced_sector(n) == [request EXCEPT !.off = @ + SectorSize]

Advanced(n) == [request EXCEPT !.off = @ + n]

\* direntv6_dirlookup goes on to the next component, when the block has its name.
Descend(cells) ==
    LET k == Min({n \in 1 .. Len(cells) : cells[n].name = Head(request.rest)})
    IN  /\ request' = [request EXCEPT !.pc = "inode", !.rest = Tail(@), !.inr = cells[k].inr]
        /\ UNCHANGED <<reply, due, served>>

\* A block is read: scanned for the name looked up, or given to the caller.  The
\* read asks for the whole file; FileRead has the other offsets and lengths.
ReadBlock ==
    /\ request.pc = "block" /\ request.off < request.inode.size
    /\ \E b \in {WithTable(buffer, request.inode, request.off)} :
       \E s \in {inode_findsector(Words(b), request.inode, request.off \div SectorSize)} :
          IF s < 0 THEN buffer' = b /\ AnswerError(s)
          ELSE IF s \notin DOMAIN disk.data THEN buffer' = b /\ AnswerError(ERR_IO)
          ELSE /\ buffer' = Fetch(b, s)
               /\ \E cells \in {[k \in 1 .. BlockSize(request.inode, request.off) |->
                                   buffer'.data[s][k - 1]]} :
                     IF request.rest = << >>
                       THEN /\ reply' = [reply EXCEPT !.out = @ \o cells]
                            /\ request' = Advanced(Len(cells))
                            /\ UNCHANGED <<due, served>>
                     ELSE IF \E k \in 1 .. Len(cells) : cells[k].name = Head(request.rest)
                       THEN Descend(cells)
                     ELSE request' = Advanced(Len(cells)) /\ UNCHANGED <<reply, due, served>>

\* Mutant: a sector that is not full is taken for the end.
ReadEnd_early ==
    /\ request.pc = "block" /\ request.inode.size - request.off < SectorSize
    /\ IF request.rest # << >> THEN AnswerError(ERR_NO_SUCH_FILE) ELSE Answer(reply)
    /\ UNCHANGED buffer

\* Mutant: fs_read waits for content.
ReadEnd_waits ==
    /\ request.pc = "block" /\ request.off = request.inode.size
    /\ request.op = "read" /\ request.rest = << >> => reply.out # << >>
    /\ IF request.rest # << >> THEN AnswerError(ERR_NO_SUCH_FILE) ELSE Answer(reply)
    /\ UNCHANGED buffer

\* The end of the file, where filev6_readblock answers 0.
ReadEnd ==
    /\ request.pc = "block" /\ request.off = request.inode.size
    /\ IF request.rest # << >> THEN AnswerError(ERR_NO_SUCH_FILE) ELSE Answer(reply)
    /\ UNCHANGED buffer

\* filler refuses an entry, or "." or "..": its buffer is full.
FillerRefuses ==
    /\ request.pc = "block" /\ request.rest = << >> /\ request.op = "readdir"
    /\ reply.out # << >> \/ request.off = request.inode.size
    /\ AnswerError(ERR_NOMEM)
    /\ UNCHANGED buffer

Server == ReadInode \/ ReadBlock \/ ReadEnd \/ FillerRefuses

SNext ==
    \/ Next /\ UNCHANGED svars
    \/ (\E q \in Requests : Ask(q)) /\ UNCHANGED vars
    \/ Server /\ UNCHANGED vars

\* The server works off what it is asked; the processes that write need not go on.
SSpec == Init /\ SInit /\ [][SNext]_allvars /\ WF_allvars(Server /\ UNCHANGED vars)

-----------------------------------------------------------------------------------
(* Properties. *)

ServerTypeOK ==
    /\ buffer.page \in Nat
    /\ \A inr \in DOMAIN buffer.itab :
          buffer.itab[inr] \in Inodes(MaxSize) /\ PageOf(InodeSector(inr)) = buffer.page
    /\ \A s \in DOMAIN buffer.data : buffer.data[s] \in Sectors /\ PageOf(s) = buffer.page
    /\ request.pc \in {"idle", "inode", "block"}
    /\ request.path \in {<<>>} \union {q.path : q \in Requests}
    /\ \E n \in 0 .. Len(request.path) :
          request.rest = SubSeq(request.path, n + 1, Len(request.path))
    /\ request.inr \in Word /\ request.inode \in Inodes(MaxSize)
    /\ request.off \in 0 .. request.inode.size
    /\ reply.ret \in error_codes \union {ERR_NONE} /\ reply.out \in Seq(Cells)
    /\ reply.attr \in [mode : Modes, size : 0 .. MaxSize, blocks : 0 .. MaxSize]
    /\ due \in BOOLEAN /\ served \subseteq {q.path : q \in Requests}

FileAt(path) == disk.itab[InumberOf(path)]

\* What has been answered is on the disk, and stays there through everything that
\* writers do later, although inode, blocks and entries were read at different times
\* and none of them from the disk itself (u6fs_fuse.c:31-154): attributes are those
\* of the file or of an earlier state of it, entries and contents are a beginning of
\* what the file contains.
ServedIsStored ==
    request.pc = "idle" /\ reply.ret = ERR_NONE /\ request.path \in served =>
        LET i == FileAt(request.path)
        IN  /\ InumberOf(request.path) \in Allocated
            /\ request.op = "getattr" =>
                  /\ reply.attr.mode = i.mode /\ reply.attr.size <= i.size
                  /\ reply.attr.blocks * SectorSize >= reply.attr.size
            /\ request.op # "getattr" =>
                  /\ Len(reply.out) <= i.size
                  /\ \A k \in 1 .. Len(reply.out) : reply.out[k] = CellAt(disk, i, k - 1)

\* A request fails only in ways a user may expect: a reader never falls between two
\* writes of a writer, on an entry without inode or a size without its sectors
\* (direntv6.c:214-240 against u6fs_fuse.c:36-43).
NoHalfState ==
    request.pc = "idle" =>
        /\ reply.ret \in {ERR_NONE, ERR_NO_SUCH_FILE, ERR_INVALID_DIRECTORY_INODE, ERR_NOMEM}
        /\ reply.ret = ERR_INVALID_DIRECTORY_INODE =>
              \E n \in 0 .. Len(request.path) :
                  InumberOf(SubSeq(request.path, 1, n)) \in Allocated \ Dirs

\* A name that was served once is not missed later, and a name whose writer had
\* reported success before the request began, without an error it ignored, is not
\* missed at all, unless the page with the root's inode was in the buffer then
\* (sector.c:10-13 does not read it again, so that the server may not see for long what
\* others have written).
NoNameIsMissed ==
    request.pc = "idle" /\ reply.ret = ERR_NO_SUCH_FILE => ~due

\* Every request is answered, however much is written meanwhile.
RequestEnds == request.pc # "idle" ~> request.pc = "idle"
===================================================================================
