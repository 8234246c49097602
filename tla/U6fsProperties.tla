-------------------------------- MODULE U6fsProperties --------------------------------
(***********************************************************************************)
(* What the writing commands should guarantee, in every state: between processes,  *)
(* in the middle of one, and wherever one has died.                                *)
(***********************************************************************************)
EXTENDS U6fs

CONSTANT NoJob   \* "no request", for the abstract specification

-----------------------------------------------------------------------------------
(* The files on the disk. *)

Allocated == {inr \in InodeNumbers \ {0} : disk.itab[inr].mode # "free"}
Dirs == {inr \in Allocated : disk.itab[inr].mode = "dir"}

\* A cell of a file: its inode number and its position.
LiveCells == UNION {{inr} \X (0 .. disk.itab[inr].size - 1) : inr \in Allocated}
Links == {l \in LiveCells : l[1] \in Dirs}

SectorOf(l) == CellSector(disk, disk.itab[l[1]], l[2])
CellOf(l) == CellAt(disk, disk.itab[l[1]], l[2])

\* The numbers of the data bitmap: the data area, and the number behind it (mount.c:64).
Numbered == s_block_start .. s_fsize

\* The sectors that hold a part of a file.
Occupied == {SectorOf(l) : l \in LiveCells}

\* Inodes that no entry names: space that is lost, since nothing is ever freed.
Orphans == Allocated \ ({ROOT_INUMBER} \union {CellOf(l).inr : l \in Links})

\* The names visible from the root, among those the commands deal with.
Universe == UNION {{SubSeq(c.path, 1, n) : n \in 1 .. Len(c.path)} : c \in Commands}
InumberOf(path) == direntv6_dirlookup(disk, ROOT_INUMBER, path)
Tree == UNION {{[path |-> p, kind |-> disk.itab[inr].mode]
                  : inr \in {InumberOf(p)} \intersect Allocated} : p \in Universe}

-----------------------------------------------------------------------------------
(* Invariants. *)

Typed(d) ==
    /\ d = [itab |-> d.itab, data |-> d.data]
    /\ d.itab \in [InodeNumbers -> Inodes(MaxSize)]
    /\ d.data \in [DOMAIN d.data -> Sectors]
    /\ DOMAIN d.data \subseteq Volume \union {s_fsize}

Files == [inr : InodeNumbers, inode : Inodes(MaxSize), buf : Seq(Cells), size : Nat,
          entry : BOOLEAN]

ProcessTyped ==
    /\ pc \in {"idle", "lookup", "create", "parent", "residual", "resinode", "sector",
               "secinode", "content", "umount", "exit"}
    /\ cmd \in Commands \union {NoCommand}
    /\ ibm \in BmBlockArray(ROOT_INUMBER, s_isize * InodesPerSector)
    /\ fbm \in BmBlockArray(s_block_start, s_fsize)
    /\ parent \in InodeNumbers /\ child \in InodeNumbers /\ found \in 0 .. s_fsize
    /\ fv \in Files
    /\ ret \in error_codes \union {ERR_NONE}
    /\ crashes \in 0 .. MaxCrashes /\ faults \in 0 .. MaxFaults
    /\ acked \subseteq Commands /\ ignored \subseteq Commands

\* Both images and the memory of the process are what the code's types allow.
TypeOK == Typed(image) /\ Typed(disk) /\ ProcessTyped

\* Entries never name an inode that is not there: the inode is written before the
\* entry (filev6_create before filev6_writebytes in create_dirent), so that no crash
\* or error leaves an entry for nothing.
NoDanglingEntry == \A l \in Links : SectorOf(l) >= 0 /\ CellOf(l).inr \in Allocated

\* The directories form a tree: no inode has two entries and the root has none, so
\* the recursion of direntv6_print_tree ends and no two names share a file.
TreeShaped ==
    /\ \A l \in Links : CellOf(l).inr # ROOT_INUMBER
    /\ \A l, m \in Links : l # m => CellOf(l).inr # CellOf(m).inr

\* Names are unique in a directory; direntv6_dirlookup would hide the second one.
UniqueNames ==
    \A l, m \in Links : l # m /\ l[1] = m[1] => CellOf(l).name # CellOf(m).name

\* Two files never share a sector, nor two places of one file, and all of them have a
\* number of the data bitmap, although no allocation is remembered from one process to
\* the next except through the inodes (src/done/mount.c:84-142).
SectorsApart ==
    /\ \A l \in LiveCells : SectorOf(l) \in Numbered
    /\ \A l, m \in LiveCells :
          SectorOf(l) = SectorOf(m) => l[1] = m[1] /\ l[2] \div SectorSize = m[2] \div SectorSize

\* What success of command c promises: its path leads to a directory, or to a file
\* with the content given (src/done/u6fs.c:90-149).
Kept(c) ==
    LET inr == InumberOf(c.path)
    IN  /\ inr \in Allocated
        /\ c.op = "mkdir" => inr \in Dirs
        /\ c.op = "add" => /\ inr \notin Dirs
                           /\ disk.itab[inr].size = Len(c.buf)
                           /\ \A k \in 1 .. Len(c.buf) :
                                 SectorOf(<<inr, k - 1>>) >= 0 /\ CellOf(<<inr, k - 1>>) = c.buf[k]

\* A command that answered success has happened, is in the file and not only in the
\* stream, and stays so, through every later command and every crash.
AckedIsDurable == \A c \in acked : Kept(c)

\* A write that is lost is reported, however late the stream notices: at the next
\* access or at last by fclose (src/done/sector.c:25-31, mount.c:153).  The only way
\* to success with a write missing is the one error that the code throws away
\* (filev6.c:131 and 166).
LostWritesAreReported == \A c \in acked \ ignored : Kept(c)

\* A refusal is true: the name exists, the directory does not, or it is a file.
RefusalsAreTrue ==
    pc = "umount" =>
        /\ ret = ERR_FILENAME_ALREADY_EXISTS =>
              relative_name = "" \/ InumberOf(cmd.path) \in Allocated
        /\ ret = ERR_NO_SUCH_FILE => InumberOf(absolute_name) = ERR_NO_SUCH_FILE
        /\ ret = ERR_INVALID_DIRECTORY_INODE =>
              \E n \in 0 .. Len(cmd.path) :
                  LET inr == InumberOf(SubSeq(cmd.path, 1, n)) IN inr \in Allocated \ Dirs

\* No inode is lost unless a process died or a disk access failed: one at most each
\* time, as long as there is a sector for its entry.  An inode is lost for good, since
\* nothing ever frees it.
OrphansAreAccounted ==
    Cardinality(Orphans \ (IF pc = "idle" THEN {} ELSE {child})) <= crashes + faults

-----------------------------------------------------------------------------------
(* Action properties, liveness and the abstract specification. *)

\* Files only grow: no step, crash or error takes back, moves or overwrites what a
\* file contained, or turns a file into a directory.
AppendOnly ==
    [][\A inr \in Allocated :
          /\ disk'.itab[inr].mode = disk.itab[inr].mode
          /\ disk'.itab[inr].size >= disk.itab[inr].size
          /\ \A p \in 0 .. disk.itab[inr].size - 1 :
                SectorOf(<<inr, p>>) >= 0 =>
                    CellAt(disk', disk'.itab[inr], p) = CellOf(<<inr, p>>)]_disk

\* File data are written to data sectors of the volume; only when each of them holds a
\* part of a file already, the number behind the last is used as well, which is no sector
\* of the volume (mount.c:64 gives the bitmap s_fsize as its last number, which is the
\* size of the volume, src/done/unixv6fs.h:173).  So until the volume is full the
\* structures before the data and whatever follows the volume are never written over.
VolumeFillsFirst ==
    [][\A s \in DOMAIN disk'.data :
          s \notin DOMAIN disk.data \/ disk'.data[s] # disk.data[s] =>
              s \in DataArea \/ (s = s_fsize /\ DataArea \subseteq Occupied)]_disk

\* Every process ends, whatever it finds on the disk.
ProcessEnds == pc # "idle" ~> pc = "idle"

\* The commands implement Namespace.  A name is entered when its entry is on the disk:
\* when the write of its parent's inode gets there, and by nothing before or after it.
Entered == child # 0 /\ InumberOf(cmd.path) = child
Job == IF pc = "idle" THEN NoJob ELSE [cmd |-> cmd, entered |-> Entered]

ASSUME NoJobAssumption == NoJob \notin [cmd : Commands, entered : BOOLEAN]

NS == INSTANCE Namespace
    WITH Requests <- Commands, None <- NoJob, tree <- Tree, done <- acked, job <- Job

NamespaceSpec == NS!NSpec
===================================================================================
