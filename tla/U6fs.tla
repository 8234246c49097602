------------------------------------ MODULE U6fs ------------------------------------
(***********************************************************************************)
(* The writing commands of u6fs: `mkdir' and `add'.  Each invocation is a process  *)
(* of its own that mounts the image, performs one operation and unmounts           *)
(* (src/done/u6fs.c), and the image is all that survives it.                       *)
(*                                                                                 *)
(* The process is alone, so what it does between two sector_write calls is one     *)
(* step: nobody can see the difference.  A step ends with at most one sector       *)
(* write, which stays in the buffer of the C stream until the next access flushes  *)
(* it (module SectorIO): `image' is what the process reads through its stream,     *)
(* `disk' the image file, at most that one write behind.  The process may die      *)
(* between any two steps.  `pc' says which call comes next:                        *)
(*   idle      no process                                                          *)
(*   lookup    direntv6_create: split the path, look up the parent and the name    *)
(*   create    filev6_create: take an inode number, write the new inode            *)
(*   parent    create_dirent: open the parent and start writing the entry          *)
(*   residual  filev6_writesector_residual: fill up the last sector of the file    *)
(*   resinode  ... and write the inode back                                        *)
(*   sector    filev6_writesector: write a new sector                              *)
(*   secinode  ... and write the inode back                                        *)
(*   content   direntv6_addfile: open the new file and start writing the content   *)
(*   umount    umountv6                                                            *)
(*   exit      report ret                                                          *)
(***********************************************************************************)
EXTENDS U6Image, SequencesExt

CONSTANTS
    Commands,    \* the invocations: records [op, path, slash, buf], see below
    FirstImages, \* the images the first invocation may find
    FullNames,   \* names of exactly DIRENT_MAXLEN characters
    Garbage,     \* cells an uninitialised buffer may hold
    MaxCrashes,  \* bound: how often a process dies half-way
    MaxFaults    \* bound: how often a read or write of the disk fails

\* A command line: `path' is the sequence of the components of the path given,
\* `slash' whether slashes follow the last one, `buf' the content to be added.
CommandSet == [op : {"mkdir", "add"}, path : Seq(Names \union LongNames),
               slash : BOOLEAN, buf : Seq(Cells)]

ASSUME CommandsAssumption ==
    /\ Commands \subseteq CommandSet /\ FullNames \subseteq Names
    /\ Garbage \subseteq Cells /\ Garbage # {}
    /\ MaxCrashes \in Nat /\ MaxFaults \in Nat

VARIABLES
    image,    \* the disk image as the process sees it: [itab, data]
    disk,     \* the disk image in the file
    pc,
    cmd,      \* the command of the running process
    ibm, fbm, \* the bitmaps of the mounted file system
    parent,   \* inr_parent
    child,    \* the inode number given to the new file
    fv,       \* the filev6 being written and what is still to be written to it:
              \* [inr, inode, buf, size, entry], size being inode_size + written, and
              \* entry telling the parent's new entry from the file's content
    found,    \* free_sector, between the two writes of filev6_writesector
    ret,      \* what the process answers, or has answered last
    crashes, faults,
    acked,    \* the commands that have answered success
    ignored   \* those in which an error of filev6_writesector_residual was ignored

history == <<crashes, faults, acked, ignored>>
vars == <<image, disk, pc, cmd, ibm, fbm, parent, child, fv, found, ret, history>>

-----------------------------------------------------------------------------------
(* Helpers. *)

\* Mutant: the directory is always the root.
absolute_name_root == << >>

\* split_name_direntv6_create: what follows the last slash, and what precedes it
\* without the slashes at its end.
relative_name == IF cmd.slash \/ cmd.path = << >> THEN "" ELSE Last(cmd.path)
absolute_name == IF cmd.slash \/ cmd.path = << >> THEN cmd.path ELSE Front(cmd.path)

NoFile == [inr |-> 0, inode |-> [mode |-> "free", size |-> 0, addr |-> NoAddr],
           buf |-> << >>, size |-> 0, entry |-> TRUE]

NoCommand == [op |-> "mkdir", path |-> << >>, slash |-> FALSE, buf |-> << >>]

\* The limit `add' puts on the size of the source file, 4 KB.
MAX_SIZE == AddrSmall * SectorSize

\* filev6_writebytes starts on files below MediumSize only.  So no file grows past
\* this, 900 KB in the code, and the limit of inode_setsize, 16 MB, is never met.
MaxSize == MediumSize * SectorSize + MAX_SIZE

\* Mutant: the cells are put in at the beginning.
Overwrite_first(sector, p, cells) ==
    [k \in 0 .. SectorSize - 1 |-> IF k < Len(cells) THEN cells[k + 1] ELSE sector[k]]

\* Sector content with cells put in from position p on.
Overwrite(sector, p, cells) ==
    [k \in 0 .. SectorSize - 1 |->
        IF k \in p .. p + Len(cells) - 1 THEN cells[k - p + 1] ELSE sector[k]]

\* What every access to the stream begins with: fseek writes out what is pending.
Flush == disk' = image

\* sector_write, which extends the image file when s lies at its end.
WriteSector(s, content) ==
    image' = [image EXCEPT !.data =
                [x \in DOMAIN @ \union {s} |-> IF x = s THEN content ELSE @[x]]]

WriteInode(inr, inode) == image' = [image EXCEPT !.itab = inode_write(@, inr, inode)]

\* How much of the buffer the next sector of fv takes.
Portion == Min({Len(fv.buf), SectorSize - (fv.size % SectorSize)})

\* Mutant: the loop of filev6_writebytes forgets to count.
Written_uncounted(i) == [fv EXCEPT !.inode = i]

\* fv once that portion is written, i being its inode then.
Written(i) == [fv EXCEPT !.inode = i, !.buf = SubSeq(@, Portion + 1, Len(@)),
                         !.size = @ + Portion]

\* The process goes on to umount with answer r.
Leave(r) == pc' = "umount" /\ ret' = r

\* filev6_writebytes goes on with its loop, or returns.
Continue(f) ==
    /\ fv' = f
    /\ IF f.buf # << >> THEN pc' = "sector" /\ UNCHANGED ret
       ELSE IF f.entry /\ cmd.op = "add" THEN pc' = "content" /\ UNCHANGED ret
       ELSE Leave(ERR_NONE)

\* filev6_open, and filev6_writebytes up to its first write.
StartWriting(inr, buf, entry) ==
    LET i   == image.itab[inr]
        err == IF inode_read(image, inr) # ERR_NONE THEN inode_read(image, inr)
               ELSE IF SizeTot(i.size) > MediumSize THEN ERR_FILE_TOO_LARGE ELSE ERR_NONE
        f   == [inr |-> inr, inode |-> i, buf |-> buf, size |-> i.size, entry |-> entry]
    IN  IF err # ERR_NONE THEN Leave(err) /\ UNCHANGED fv
        ELSE IF i.size % SectorSize = 0 THEN Continue(f)
        ELSE fv' = f /\ pc' = "residual" /\ UNCHANGED ret

\* The memory of a process that has ended.
Forget ==
    /\ pc' = "idle" /\ cmd' = NoCommand
    /\ ibm' = InodeBitmap /\ fbm' = DataBitmap
    /\ parent' = 0 /\ child' = 0 /\ fv' = NoFile /\ found' = 0

-----------------------------------------------------------------------------------
(* The steps of a process. *)

Init ==
    /\ image \in FirstImages /\ disk = image
    /\ pc = "idle" /\ cmd = NoCommand
    /\ ibm = InodeBitmap /\ fbm = DataBitmap
    /\ parent = 0 /\ child = 0 /\ fv = NoFile /\ found = 0 /\ ret = ERR_NONE
    /\ crashes = 0 /\ faults = 0 /\ acked = {} /\ ignored = {}

\* A process starts and mounts.  If the bitmaps cannot be built it ends at once.
Mount(c) ==
    /\ pc = "idle"
    /\ LET filled == fill_bitmaps(image)
       IN  IF filled.ret # ERR_NONE
             THEN ret' = filled.ret /\ UNCHANGED <<pc, cmd, ibm, fbm>>
             ELSE /\ pc' = "lookup" /\ cmd' = c
                  /\ ibm' = filled.ibm /\ fbm' = filled.fbm
                  /\ UNCHANGED ret
    /\ UNCHANGED <<image, disk, parent, child, fv, found, history>>

\* `add' refuses a large source; direntv6_create up to the call of create_dirent.
Lookup ==
    /\ pc = "lookup"
    /\ \/ /\ cmd.op = "add" /\ Len(cmd.buf) > MAX_SIZE
          /\ Leave(ERR_BAD_PARAMETER) /\ UNCHANGED parent
       \/ /\ ~ (cmd.op = "add" /\ Len(cmd.buf) > MAX_SIZE) /\ relative_name \in LongNames
          /\ Leave(ERR_FILENAME_TOO_LONG) /\ UNCHANGED parent
       \/ /\ ~ (cmd.op = "add" /\ Len(cmd.buf) > MAX_SIZE) /\ relative_name \notin LongNames
          /\ \E dir \in {direntv6_dirlookup(image, ROOT_INUMBER, absolute_name)} :
             \E file \in {IF relative_name = "" THEN dir
                          ELSE direntv6_dirlookup(image, dir, <<relative_name>>)} :
                \/ dir < 0 /\ Leave(dir) /\ UNCHANGED parent
                \/ /\ dir >= 0 /\ file # ERR_NO_SUCH_FILE
                   /\ Leave(IF file >= 0 THEN ERR_FILENAME_ALREADY_EXISTS ELSE file)
                   /\ UNCHANGED parent
                \/ /\ dir >= 0 /\ file = ERR_NO_SUCH_FILE
                   /\ pc' = "create" /\ parent' = dir /\ UNCHANGED ret
    /\ UNCHANGED <<image, disk, cmd, ibm, fbm, child, fv, found, history>>

\* The number filev6_create takes, if it takes one.
Takes == inode_alloc(ibm).ret \in InodeNumbers \ {0}

\* Mutant: the new inode is not written.
Create_unwritten ==
    /\ pc = "create" /\ (Takes => relative_name \notin FullNames)
    /\ ibm' = inode_alloc(ibm).bm
    /\ child' = inode_alloc(ibm).ret /\ pc' = "parent"
    /\ UNCHANGED <<image, disk, cmd, fbm, parent, fv, found, ret, history>>

\* filev6_create: the inode is all zeros but for its mode.
Create ==
    /\ pc = "create" /\ (Takes => relative_name \notin FullNames)
    /\ ibm' = inode_alloc(ibm).bm
    /\ \E inr \in {inode_alloc(ibm).ret} :
          IF Takes
            THEN /\ WriteInode(inr, [mode |-> IF cmd.op = "mkdir" THEN "dir" ELSE "file",
                                     size |-> 0, addr |-> NoAddr])
                 /\ child' = inr /\ pc' = "parent" /\ UNCHANGED ret
            ELSE /\ Leave(IF inr < 0 THEN inr ELSE ERR_INODE_OUT_OF_RANGE)
                 /\ UNCHANGED <<image, child>>
    /\ Flush
    /\ UNCHANGED <<cmd, fbm, parent, fv, found, history>>

\* A name that fills d_name: once filev6_create has succeeded, the strcpy of
\* create_dirent writes its null one byte behind the entry, and the program as built
\* (-fsanitize=address) is aborted there.  The inode that filev6_create has just
\* written is still in the buffer of the stream, and is lost with the process.
NameOverflow ==
    /\ pc = "create" /\ Takes /\ relative_name \in FullNames
    /\ Forget
    /\ UNCHANGED <<image, disk, ret, history>>

\* create_dirent opens the parent and hands the new entry to filev6_writebytes.
Parent ==
    /\ pc = "parent"
    /\ StartWriting(parent, <<[inr |-> child, name |-> relative_name]>>, TRUE)
    /\ Flush
    /\ UNCHANGED <<image, cmd, ibm, fbm, parent, child, found, history>>

\* filev6_writesector_residual; what it returns is not looked at.
Residual ==
    /\ pc = "residual"
    /\ \E s \in {CellSector(image, fv.inode, fv.size)} :
          IF s < 0 THEN Continue(Written(fv.inode)) /\ UNCHANGED image
          ELSE /\ WriteSector(s, Overwrite(image.data[s], fv.size % SectorSize,
                                           SubSeq(fv.buf, 1, Portion)))
               /\ pc' = "resinode" /\ UNCHANGED <<fv, ret>>
    /\ Flush
    /\ UNCHANGED <<cmd, ibm, fbm, parent, child, found, history>>

\* Mutant: filev6_writesector_residual without inode_setsize.
Resized_not == fv.inode

Resized == [fv.inode EXCEPT !.size = fv.size + Portion]

ResInode ==
    /\ pc = "resinode"
    /\ WriteInode(fv.inr, Resized)
    /\ Continue(Written(Resized))
    /\ Flush
    /\ UNCHANGED <<cmd, ibm, fbm, parent, child, found, history>>

\* filev6_writesector: a free sector, which is not marked in the bitmap.  Behind the
\* portion the buffer written is uninitialised.
Sector ==
    /\ pc = "sector"
    /\ fbm' = bm_find_next(fbm).bm
    /\ \E s \in {bm_find_next(fbm).ret} :
          \/ s < 0 /\ Leave(s) /\ UNCHANGED <<image, disk, found>>
          \/ /\ s >= 0 /\ Flush
             /\ \E g \in Garbage :
                   WriteSector(s, Overwrite([k \in 0 .. SectorSize - 1 |-> g], 0,
                                            SubSeq(fv.buf, 1, Portion)))
             /\ found' = s /\ pc' = "secinode" /\ UNCHANGED ret
    /\ UNCHANGED <<cmd, ibm, parent, child, fv, history>>

\* Mutant: filev6_writesector without inode_setsize.
Extended_unsized ==
    [fv.inode EXCEPT !.addr = [k \in 0 .. AddrSmall - 1 |->
                                 IF k = (fv.size + Portion) \div SectorSize THEN found ELSE @[k]]]

\* Mutant: the sector goes one slot too far.
Extended_far ==
    LET size == fv.size + Portion
    IN  [fv.inode EXCEPT !.size = size,
                         !.addr = [k \in 0 .. AddrSmall - 1 |->
                                     IF k = size \div SectorSize + 1 THEN found ELSE @[k]]]

\* The sector goes into the slot computed from the size AFTER the write.  Slots past
\* i_addr fall into the times of the inode, which nothing reads.
Extended ==
    LET size == fv.size + Portion
    IN  [fv.inode EXCEPT !.size = size,
                         !.addr = [k \in 0 .. AddrSmall - 1 |->
                                     IF k = size \div SectorSize THEN found ELSE @[k]]]

SecInode ==
    /\ pc = "secinode"
    /\ WriteInode(fv.inr, Extended)
    /\ Continue(Written(Extended))
    /\ Flush
    /\ UNCHANGED <<cmd, ibm, fbm, parent, child, found, history>>

\* direntv6_addfile opens the file it has created and writes its content.
Content ==
    /\ pc = "content"
    /\ StartWriting(child, cmd.buf, FALSE)
    /\ Flush
    /\ UNCHANGED <<image, cmd, ibm, fbm, parent, child, found, history>>

\* umountv6 closes the stream, which writes out what is pending.
Umount ==
    /\ pc = "umount"
    /\ Flush
    /\ pc' = "exit"
    /\ UNCHANGED <<image, cmd, ibm, fbm, parent, child, fv, found, ret, history>>

\* Mutant: the answer is always success.
Exit_always ==
    /\ pc = "exit"
    /\ Forget
    /\ acked' = acked \union {cmd}
    /\ UNCHANGED <<image, disk, ret, crashes, faults, ignored>>

\* Mutant: the answer of umountv6 is not looked at.
CloseFailed_unseen == ret

\* The answer when umountv6 fails.
CloseFailed == IF ret = ERR_NONE THEN ERR_IO ELSE ret

\* The process reports its answer.
Exit ==
    /\ pc = "exit"
    /\ Forget
    /\ acked' = IF ret = ERR_NONE THEN acked \union {cmd} ELSE acked
    /\ UNCHANGED <<image, disk, ret, crashes, faults, ignored>>

Process ==
    \/ Lookup \/ Create \/ NameOverflow \/ Parent \/ Residual \/ ResInode
    \/ Sector \/ SecInode \/ Content \/ Umount \/ Exit

-----------------------------------------------------------------------------------
(* The environment. *)

\* The process is killed, and with it what its stream holds back.
Crash ==
    /\ pc # "idle" /\ crashes < MaxCrashes
    /\ crashes' = crashes + 1
    /\ Forget
    /\ image' = disk
    /\ UNCHANGED <<disk, ret, faults, acked, ignored>>

\* The first access of the next step fails.  If it fails in writing out what is
\* pending, the C library drops that write, and the error is reported by a call that
\* has nothing to do with it; otherwise what is pending is written and only the
\* access itself fails.  filev6_writesector_residual and its caller go on regardless,
\* with the inode in memory resized if it is the inode that could not be written.
IoError ==
    /\ faults < MaxFaults
    /\ faults' = faults + 1
    /\ \/ image' = disk /\ UNCHANGED disk
       \/ Flush /\ UNCHANGED image
    /\ \/ pc = "idle" /\ ret' = ERR_IO /\ UNCHANGED <<pc, fv>>
       \/ pc \in {"lookup", "create", "parent", "sector", "secinode", "content"}
          /\ Leave(ERR_IO) /\ UNCHANGED fv
       \/ pc = "residual" /\ Continue(Written(fv.inode))
       \/ pc = "resinode" /\ Continue(Written(Resized))
       \/ pc = "umount" /\ pc' = "exit" /\ ret' = CloseFailed /\ UNCHANGED fv
    /\ ignored' = IF pc \in {"residual", "resinode"} THEN ignored \union {cmd} ELSE ignored
    /\ UNCHANGED <<cmd, ibm, fbm, parent, child, found, crashes, acked>>

Next ==
    \/ \E c \in Commands : Mount(c)
    \/ Process
    \/ Crash
    \/ IoError

\* A process that runs goes on running; nobody has to start one.
Spec == Init /\ [][Next]_vars /\ WF_vars(Process)
===================================================================================
