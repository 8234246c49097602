--------------------------------- MODULE U6fsInvariant ---------------------------------
(***********************************************************************************)
(* What keeps the properties of U6fs true: when an image is sound, what one write  *)
(* may do to it, what a process relies on between two of its writes, and the       *)
(* limits within which all of this holds.                                          *)
(***********************************************************************************)
EXTENDS U6fsProperties

-----------------------------------------------------------------------------------
(* Images. *)

Live(d) == {inr \in InodeNumbers \ {0} : d.itab[inr].mode # "free"}
Directories(d) == {inr \in Live(d) : d.itab[inr].mode = "dir"}
Positions(d, inr) == 0 .. d.itab[inr].size - 1

\* Sector and content of the p-th cell of a file that has direct addresses only.
Place(d, inr, p) == d.itab[inr].addr[p \div SectorSize]
Cell(d, inr, p) == d.data[Place(d, inr, p)][p % SectorSize]

SectorsInUse(d) == UNION {{Place(d, inr, p) : p \in Positions(d, inr)} : inr \in Live(d)}
Linked(d, inr) == \E dir \in Directories(d) : \E p \in Positions(d, dir) : Cell(d, dir, p).inr = inr
Holds(d, dir, name) == \E p \in Positions(d, dir) : Cell(d, dir, p).name = name

\* Few and small files: no inode beyond those that mount looks at (mount.c:88), no
\* file of AddrSmall sectors or more (inode.c:82).
Small(d) == \A inr \in Live(d) : inr \in ScannedInodes /\ d.itab[inr].size < MAX_SIZE

Rooted(d) == ROOT_INUMBER \in Directories(d)

Stored(d) ==
    \A inr \in Live(d) : \A p \in Positions(d, inr) :
        Place(d, inr, p) \in Numbered \intersect DOMAIN d.data

Apart(d) ==
    \A i, j \in Live(d) : \A p \in Positions(d, i), q \in Positions(d, j) :
        Place(d, i, p) = Place(d, j, q) => i = j /\ p \div SectorSize = q \div SectorSize

Named(d) ==
    \A dir \in Directories(d) : \A p \in Positions(d, dir) :
        Cell(d, dir, p).inr \in Live(d) \ {ROOT_INUMBER}

Once(d) ==
    \A i, j \in Directories(d) : \A p \in Positions(d, i), q \in Positions(d, j) :
        Cell(d, i, p).inr = Cell(d, j, q).inr => i = j /\ p = q

Unique(d) ==
    \A dir \in Directories(d) : \A p, q \in Positions(d, dir) :
        Cell(d, dir, p).name = Cell(d, dir, q).name => p = q

Sound(d) ==
    /\ Typed(d) /\ Small(d) /\ Rooted(d)
    /\ Stored(d) /\ Apart(d) /\ Named(d) /\ Once(d) /\ Unique(d)

\* Image e has all that image d has: no file is shorter, moved or changed.
Grown(d, e) ==
    \A inr \in Live(d) :
        /\ e.itab[inr].mode = d.itab[inr].mode
        /\ e.itab[inr].size >= d.itab[inr].size
        /\ \A p \in Positions(d, inr) :
              Place(e, inr, p) = Place(d, inr, p) /\ Cell(e, inr, p) = Cell(d, inr, p)

-----------------------------------------------------------------------------------
(* The limits. *)

\* Where the code is right: the image stays small, the content of a new file is less
\* than a sector (filev6.c:109) and its parent has room in its last sector
\* (filev6.c:94).  Each of these the code gets wrong beyond, and a run or the README
\* shows how.
WithinLimits ==
    /\ Small(image)
    /\ cmd.op = "add" /\ cmd.buf # << >> =>
          /\ (Len(cmd.buf) < SectorSize \/ Len(cmd.buf) > MAX_SIZE)
          /\ pc = "parent" => image.itab[parent].size % SectorSize # 0

-----------------------------------------------------------------------------------
(* The process between two of its writes. *)

Writing == {"residual", "resinode", "sector", "secinode"}
Entering == pc \in Writing /\ fv.entry

\* The stream holds nothing back where no write is pending.
Synced == pc \in {"idle", "lookup", "create", "exit"} => image = disk

\* A free sector may still be looked for.
Searching ==
    \/ pc \in {"lookup", "create", "parent", "residual", "resinode", "sector"}
    \/ pc = "content" /\ cmd.buf # << >>

\* The bitmaps know all that is in use, as long as numbers are taken from them.
BitmapsKnow ==
    /\ pc \in {"lookup", "create"} => Live(image) \subseteq ibm.bits
    /\ Searching => SectorsInUse(image) \subseteq fbm.bits

\* The directory looked up is one, and the name is new in it, until it is entered.
ParentFound ==
    pc \in {"create", "parent"} \/ Entering =>
        /\ parent \in Directories(image)
        /\ relative_name \in Names
        /\ ~ Holds(image, parent, relative_name)

\* The new inode is there, nothing is in it, and nothing names it until the entry is
\* written; on the disk it is since the step after its own.
ChildCreated ==
    /\ pc \in {"parent", "content"} \union Writing =>
          /\ child \in Live(image) \ {ROOT_INUMBER, parent}
          /\ image.itab[child].size = 0
          /\ image.itab[child].mode = IF cmd.op = "mkdir" THEN "dir" ELSE "file"
    /\ pc \in {"content"} \union Writing => child \in Live(disk)
    /\ pc = "parent" \/ Entering => ~ Linked(image, child)

\* The file being written: the parent, to get the entry, or the child, its content.
FileOpen ==
    pc \in Writing =>
        /\ fv.inr \in Live(image) /\ fv.inode = image.itab[fv.inr]
        /\ fv.size = fv.inode.size
        /\ IF fv.entry
             THEN fv.inr = parent /\ fv.buf = <<[inr |-> child, name |-> relative_name]>>
             ELSE /\ cmd.op = "add" /\ fv.inr = child /\ fv.buf = cmd.buf
                  /\ fv.buf # << >> /\ Len(fv.buf) < SectorSize
        /\ IF pc \in {"residual", "resinode"}
             THEN fv.entry /\ fv.size % SectorSize # 0
             ELSE fv.size % SectorSize = 0 /\ (fv.entry /\ cmd.op = "add" => cmd.buf = << >>)

\* Content that is to be written fits.
ContentFits ==
    /\ pc \in {"create", "parent", "content"} \union Writing /\ cmd.op = "add" =>
          Len(cmd.buf) < SectorSize
    /\ pc = "content" => cmd.op = "add"

\* The sector is written before the inode that makes it part of the file.
SectorWritten ==
    /\ pc = "resinode" =>
          image.data[fv.inode.addr[fv.size \div SectorSize]][fv.size % SectorSize] = fv.buf[1]
    /\ pc = "secinode" =>
          /\ found \in Numbered \intersect DOMAIN image.data
          /\ found \notin SectorsInUse(image)
          /\ \A k \in 1 .. Len(fv.buf) : image.data[found][k - 1] = fv.buf[k]

\* The images the first invocation may find are sound; all others are made by u6fs.
SoundImages == \A d \in FirstImages : Sound(d)

IInv ==
    /\ TypeOK /\ WithinLimits
    /\ Sound(image) /\ Sound(disk) /\ Grown(disk, image)
    /\ pc # "idle" => cmd \in Commands
    /\ Synced /\ BitmapsKnow /\ ParentFound /\ ChildCreated
    /\ FileOpen /\ ContentFits /\ SectorWritten

-----------------------------------------------------------------------------------
(* What a process relies on to answer success, on top of that. *)

\* What success of command c promises, on image d.
KeptIn(d, c) ==
    LET inr == direntv6_dirlookup(d, ROOT_INUMBER, c.path)
    IN  /\ inr \in Live(d)
        /\ d.itab[inr].mode = IF c.op = "mkdir" THEN "dir" ELSE "file"
        /\ c.op = "add" => /\ d.itab[inr].size = Len(c.buf)
                           /\ \A k \in 1 .. Len(c.buf) : Cell(d, inr, k - 1) = c.buf[k]

\* The promises given hold, with and without what the stream holds back, and none of
\* them is about the file that is being made.
Promised ==
    \A c \in acked \ ignored :
        /\ KeptIn(disk, c) /\ KeptIn(image, c)
        /\ pc \in {"parent", "content"} \union Writing =>
              direntv6_dirlookup(image, ROOT_INUMBER, c.path) # child

\* The path leads to the parent until the entry is made, and to the child from then on,
\* unless the error of the write that makes it was ignored.
PathLeads ==
    /\ pc \in {"create", "parent"} \/ Entering =>
          direntv6_dirlookup(image, ROOT_INUMBER, absolute_name) = parent
    /\ (pc = "content" \/ (pc \in Writing /\ ~ fv.entry)) /\ cmd \notin ignored =>
          direntv6_dirlookup(image, ROOT_INUMBER, cmd.path) = child

\* What is about to be answered is true.
Answered ==
    pc \in {"umount", "exit"} /\ ret = ERR_NONE /\ cmd \notin ignored =>
        KeptIn(image, cmd) /\ direntv6_dirlookup(image, ROOT_INUMBER, cmd.path) = child

\* An error is ignored only where there is one.
IgnoredAreFaults == ignored # {} => faults > 0

\* There is no new inode until it is created.
NoChildYet == pc \in {"idle", "lookup", "create"} => child = 0

\* The one entry the disk may lack is that of the new inode, in which there is nothing
\* yet.
EntryPending ==
    /\ pc \in {"content", "umount"}
    /\ direntv6_dirlookup(disk, ROOT_INUMBER, absolute_name) = parent
    /\ relative_name \in Names /\ ~ Holds(disk, parent, relative_name)
    /\ Positions(image, parent) \ Positions(disk, parent) # {}
    /\ \A p \in Positions(image, parent) \ Positions(disk, parent) :
          Cell(image, parent, p) = [inr |-> child, name |-> relative_name]
    /\ child \in Live(image) \ {ROOT_INUMBER, parent} /\ image.itab[child].size = 0
    /\ image.itab[child].mode = IF cmd.op = "mkdir" THEN "dir" ELSE "file"

DiskBehind ==
    \A dir \in Directories(disk) :
        \/ image.itab[dir].size = disk.itab[dir].size
        \/ dir = parent /\ EntryPending

AInv ==
    /\ IInv /\ Promised /\ PathLeads /\ Answered /\ IgnoredAreFaults
    /\ NoChildYet /\ DiskBehind

-----------------------------------------------------------------------------------
(* The number behind the last sector. *)

\* An inode has no address behind that of its last cell: mount would take it for a
\* sector in use if the last sector of the file is full (mount.c:132-138).
NoSpareAddress(d, inr) ==
    \A k \in 0 .. AddrSmall - 1 :
        d.itab[inr].addr[k] \in Numbered => \E p \in Positions(d, inr) : p \div SectorSize = k

\* A part of a file is behind the last sector only if each sector of the data area
\* holds one too.
VolumeFull(d) == DataArea \subseteq SectorsInUse(d)
Filled(d) ==
    /\ s_fsize \in SectorsInUse(d) => VolumeFull(d)
    /\ \A inr \in Live(d) : NoSpareAddress(d, inr)

\* Image e has no more than image d outside the data area, or image d is full.
GrownInside(d, e) ==
    \A s \in DOMAIN e.data \ DataArea :
        \/ s \in DOMAIN d.data /\ e.data[s] = d.data[s]
        \/ s = s_fsize /\ VolumeFull(d)

\* The bitmap marks nothing but what is in use, and the only search of a process, within
\* the limits, starts at its first word: so it ends at s_fsize on a full volume only.
BitmapTrue ==
    /\ fbm.bits \subseteq SectorsInUse(disk)
    /\ Searching => fbm.cursor = 0
    /\ pc = "secinode" /\ found = s_fsize => VolumeFull(disk)

\* The images the first invocation may find are filled that way.
FilledImages == \A d \in FirstImages : Filled(d)

FInv == IInv /\ Filled(image) /\ Filled(disk) /\ GrownInside(disk, image) /\ BitmapTrue

-----------------------------------------------------------------------------------
(* Inodes that are lost. *)

Lost(d) == {inr \in Live(d) \ {ROOT_INUMBER} : ~ Linked(d, inr)}

\* The new inode does not count while its entry is to come: on the image until the
\* entry is written or has failed, on the disk until the process closes the stream.
ToCome == IF pc = "parent" \/ Entering THEN {child} ELSE {}
ToComeOnDisk == IF pc \in {"parent", "content", "umount"} \union Writing THEN {child} ELSE {}

FewLost ==
    /\ Cardinality(Lost(image) \ ToCome) <= crashes + faults
    /\ Cardinality(Lost(disk) \ ToComeOnDisk) <= crashes + faults

\* The images the first invocation may find have lost no inode.
NothingLost == \A d \in FirstImages : Lost(d) = {}

\* No volume is full when the entry of a new inode needs a sector: create_dirent would
\* fail, and what filev6_create has written stays (direntv6.c:214).
RoomForEntries == pc = "umount" /\ ret = ERR_BITMAP_FULL => child = 0

\* What every state of the runs satisfies.
Inv == AInv /\ FInv /\ FewLost
===================================================================================
