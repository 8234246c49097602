# A verification project for u6fs

u6fs (`src/done/`) reads and writes disk images in the UNIX v6 format: a command
line tool (`u6fs <disk> <command>`), a library of layers below it (sectors,
bitmaps, inodes, files, directories, mount) and a read-only FUSE server. This
directory holds TLA+ modules that model it, TLC configurations that check them on
small volumes, and TLAPS proofs of what can be proved for all.

## 1. The system

| Component | Source | State it keeps | Operations | Correct means |
|---|---|---|---|---|
| sector access | `sector.c` | the image file, and the buffer of the C stream | `sector_read`, `sector_write` | one sector, whole, at its place; an error is reported |
| bitmap vectors | `bmblock.c` | window `min..max`, words of bits, `cursor` | `bm_alloc/get/set/clear/find_next` | a free number is found if there is one; one that is taken is never answered |
| inodes | `inode.c`, `inode.h` | inode sectors on the image | `inode_read/write/alloc/findsector/setsize/getsize` | offset -> sector is the format's map; the two size fields hold the size |
| files | `filev6.c` | `filev6`: inode copy, number, cursor | `open`, `readblock`, `lseek`, `create`, `writebytes`, `writesector`, `writesector_residual` | what is read is the content; what was written stays |
| directories | `direntv6.c` | `directory_reader` | `opendir`, `readdir`, `dirlookup`, `create`, `addfile`, `print_tree` | names are unique, entries name allocated inodes, the graph is a tree |
| mount | `mount.c` | superblock, both bitmaps, stream | `mountv6`, `umountv6` | every inode and sector in use is marked |
| command line | `u6fs.c` | none: one process per command | `mkdir`, `add`, and commands that print | success means done and durable; failure means not visible |
| FUSE server | `u6fs_fuse.c` | the mounted file system (global) | `fs_getattr`, `fs_readdir`, `fs_read` | the bytes asked for, complete |
| printing | `u6fs_utils.c`, `error.c`, `util.h` | none | listings, SHA sums | - |

How they interact. A command is one process: `mountv6` opens the image and builds
the bitmaps from the inodes (they are never stored on the image), the operation
calls down the layers, `umountv6` closes the stream. Between processes the image is
all there is. Nothing is ever freed. Writing a file is a sequence of single sector
writes: new inode, data sector (or read-modify-write of the last one), inode again;
`add` does it twice, for the parent directory and for the content. There are no
threads or locks; the FUSE server runs single-threaded and only reads, but it keeps
running while other commands write to the same image. The listings (`tree`, `inode`,
`shafiles`, `cat1`) read whatever image they are given.

What is hard here: the order of the sector writes when a process dies or an access
fails between two of them; the C stream, which delays each write to the next call
and reports its failure there; a server that reads while others write; that
allocation is reconstructed rather than remembered;
commands that are tried again; directories that were not made by this program; a
volume or an inode table at its limit; sizes that
are exact multiples of a sector; signed and narrow integers; results that the code
does not look at. `PROJECT.json` lists each such place with its line ("hazards").

## 2. The modules

| Module | Models | State and actions |
|---|---|---|
| `U6Base` | `error.h`, `unixv6fs.h` | the codes as negative integers: the code tells values from errors by their sign alone, and so do the models |
| `BmBlock` | `bmblock.c`, `inode_alloc` | pure: a vector is a record, its words are the sets `FreeInWord`, the search loop is `Rounds`/`Visited` |
| `BmCalls` | a vector under any sequence of calls | `bm`, last `call` and `ret`; actions `Mark Clear Find Take` |
| `Allocator` | abstract: a pool of numbers | `taken`; which free number is answered is open, "full" is exact |
| `Inode` | `inode.c`, `inode.h` | pure: size codec, `inode_findsector`, `inode_findsector_bigfile` with its `int16_t` |
| `FileRead` | `filev6.c` (reading), `fs_read` | the open file, the caller's buffer; `Lseek ReadBlock FsReadOpen FsReadLoop FsReadDone Open` |
| `InodeTable` | `inode_read`, `inode_write`, `direntv6_opendir`, the range mount scans | pure, on a function from inode numbers to inodes |
| `U6Image` | reading an image: entries, lookup, `fill_bitmaps` | pure, on a record `[itab, data]` |
| `SectorIO` | `sector.c` on a C stream with a buffer of one page | `file`, `stream`, and what the calls ask for; actions `sector_read sector_write fopen fclose`, `WriteFails ReadFails Kill` |
| `LazyDisk` | abstract: a disk at most one write behind what its user sees | `medium`, `view`, `reply` |
| `U6fs` | `mkdir` and `add`, from `mountv6` to `umountv6` | `image` (what the process sees) and `disk` (the file), the process (`pc`, `cmd`, bitmaps, file being written, `ret`), and counters; one action per stretch of code that ends in a sector write |
| `Namespace` | abstract: a tree of names, one request at a time | `Request Enter Success Failure` |
| `U6fsProperties` | properties of `U6fs`, refinement to `Namespace` | - |
| `Serving` | `u6fs_fuse.c` beside `U6fs` | the page in the server's `buffer`, the `request` under way, its `reply`; one action per sector access: `Ask ReadInode ReadBlock ReadEnd FillerRefuses` |
| `Listing` | `direntv6_readdir`, `direntv6_print_tree`, `inode_scan_print`, the SHA listing, `cat1` | the recursion as a `stack` of readers, `next`, the `lines` printed; `TreeFile TreeDescends TreeReturns TreeFails TreeStrays ScanInode ShaFile ShaEnds CatFirst` |
| `U6fsInvariant`, `ServingInvariant` | the inductive invariants of `U6fs` and `Serving`, and the limits within which they hold | - |
| `Format_proofs`, `BmCalls_proofs`, `FileRead_proofs`, `SectorIO_proofs`, `Listing_proofs`, `U6Image_proofs`, `U6fs_proofs`, `Serving_proofs` | theorems; `Format_proofs` also has what the others share: minima, quotients, remainders, the size fields, `inode_findsector`, the search of a bitmap vector | - |
| `MCBmCalls`, `MCFileRead`, `MCU6fs`, `MCSectorIO`, `MCServing`, `MCListing` | instances for TLC | small volumes, images, commands |

`Allocator` is implemented by `BmCalls` (`PoolSpec`), `Namespace` by `U6fs`
(`NamespaceSpec`), `LazyDisk` by `SectorIO` (`LazySpec`). `U6fs` and `Serving` take
the stream as that disk: `image` is its view, `disk` its medium. `U6fs` uses
`U6Image`, `Listing` uses `InodeTable`, and both rest on `Inode` and `BmBlock`, so the
operators the small models and the proofs are about are those the whole runs on.

Correspondence of `U6fs` with the code. The process is alone on the image, so code
between two sector writes is one step; every such stretch is one action, named for
its function, and `pc` says which comes next. An action ends with at most one
sector write, so a crash or a failing access between any two writes of the code is
between two actions, or is an action `Crash`/`IoError` in their place. The write
stays in the stream: `image` has it at once, `disk` at the next access (`Flush`). A
crash loses it. A failing access either fails in writing it out, which loses it and
is reported by whichever call that happens to be, or fails by itself.

| `pc` | Action | Code |
|---|---|---|
| `idle` | `Mount` | `mountv6`, `fill_bitmaps` |
| `lookup` | `Lookup` | size check of `add`, `split_name_direntv6_create`, both lookups of `direntv6_create` |
| `create` | `Create`, `NameOverflow` | `filev6_create` (with `inode_alloc`, `inode_write`); the `strcpy` behind it |
| `parent` | `Parent` | rest of `create_dirent`: `filev6_open`, start of `filev6_writebytes` |
| `residual`, `resinode` | `Residual`, `ResInode` | `filev6_writesector_residual`: the sector, then the inode |
| `sector`, `secinode` | `Sector`, `SecInode` | `filev6_writesector`: the sector, then the inode |
| `content` | `Content` | rest of `direntv6_addfile` |
| `umount` | `Umount` | `umountv6`: `fclose` writes out what is pending |
| `exit` | `Exit` | the answer of `u6fs_do_one_cmd` |

What is abstracted. A cell is 16 bytes: a directory entry or a piece of a file, so
sizes count cells (a directory of half an entry does not exist; no operation makes
one). Names are members of a small set, with those too long and those of exactly
14 characters kept apart; a path is the sequence of its components, as the code
treats runs of slashes alike. Permission bits and times are left out. Data sectors
start out full of stale entries that name the root, and the uninitialised tail of
the buffer in `filev6_writesector` is one of `Garbage`. Memory never runs out.
The image is one that carries the magic number and has a superblock that fits it.

In `Serving` a path is looked up one sector at a time, and any step of a writer may
come between two accesses. The server's own stream answers from the page it holds
without reading it again. A page is read in one piece, which the kernel provides.
There is one writer at a time, and any number of them one after the other.

In `Listing` a unit is a word of two bytes and an entry has two or more of them, so
that directories which end within an entry exist. A name is the one word that stands
for it. `dirs` keeps what it held before when a shorter block is read into it; a
reader that leaves the array, or reads what was never written there, has gone
`astray`, and nothing is said about what follows: the cursor does leave the array then,
and the properties say on which images that happens. SHA-256 stands for the content it
is given.

## 3. What TLC checks

Deadlock is checked in every run. The runs take a minute or two at most.

| Run | Instance | What it shows |
|---|---|---|
| `bitmap` | 7 numbers in words of 3, so a partial last word | typing; `PoolSpec`: answers are free numbers and "full" is exact wherever the cursor stands; `FindRepeats`: a search reserves nothing; `BehindCursorIsFull`, `TakesAscend`: starting at the cursor loses nothing while nothing is cleared |
| `fileread` | sectors of 3 words, 13 sizes from 0 to 17, small files and files behind one and two tables, the second sector present or beyond the image, offsets around every file and beyond an `int` | `OffsetOnBoundary`, `ReadIsContent` (against the format as the handout states it), `BlockReadable`, `FsReadComplete`, `FsReadEnds` |
| `fill` | 2 entries a sector, 2 data sectors, 12 inodes, 10 commands in any order, any number of times; a name of 14 characters; an empty file, one over the limit, a path through a file; an image that cannot be mounted | typing, `TreeShaped`, `AppendOnly`, `RefusalsAreTrue`, `NamespaceSpec`, all of it also once the volume is full; `VolumeFillsFirst`: the number behind the last sector is handed out only when every data sector holds a part of a file |
| `crash` | 3 commands, 2 crashes anywhere, each with the last write lost | `NoDanglingEntry`, `SectorsApart`, `AckedIsDurable`, `OrphansAreAccounted`, `NamespaceSpec` |
| `faults` | 3 commands, four inodes to a sector, four data sectors that the commands use up to the number behind the last, 2 failing accesses anywhere, of the access itself or of the write pending | `UniqueNames`, `LostWritesAreReported`, `ProcessEnds`; `Inv`, the inductive invariant of section 4 with its limits, so that there are volumes that never leave them (it implies `OrphansAreAccounted`) |
| `stream` | four sectors in two pages, each at first stored or beyond the image, 2 failing calls, kills | typing; `LostIsReported`: no write is lost without an error to some later call; `LazySpec` |
| `serve` | a root of two sectors, pages of two sectors, 4 requests, 3 writing commands | typing; `ServedIsStored`: answers are true and stay true; `NoHalfState`: no request fails on a file half made; `NoNameIsMissed`: what was served, or reported done, is found, within what the buffered page allows; `RequestEnds`; `SInv`, the inductive invariant of section 4 |
| `listing` | 11520 images: four inode numbers, a root of up to four entries in two sectors that may end within an entry, inodes 2 and 3 free, files or directories, entries in circles or twice, sectors beyond the image, an address table with a word that is -120 as an `int16_t`; recursion 3 deep | typing; `TreeIsTrue`: `tree` succeeds exactly on the images that can be listed, and then prints every entry once, below its directory; `AstrayOnHalfEntry`: `readdir` leaves its array on no image but those with a directory whose last block is less than an entry; `ListingsAgree`: `inode` lists at least what mount marks, `shafiles` the content of all files up to the first that cannot be read, but those it takes for unallocated; `WalkEnds` |

The passing runs stay inside what the code can do: contents of less than a sector,
added where the parent has room in its last sector, fewer files than the scanned
inode sectors hold, no file of exactly `AddrSmall` sectors to be read. Outside, it
breaks, which the violation runs show one by one.

| Run | Property | Where | What happens |
|---|---|---|---|
| `nobmset` | `AppendOnly` | `filev6.c:94` | `mkdir /d`, `add /d/a`: entry and content get the same sector, the entry is gone |
| `slot` | `AckedIsDurable` | `filev6.c:109` | a file of a full sector: its sector is entered in slot 1, slot 0 stays 0 |
| `lastinodes` | `AckedIsDurable` | `mount.c:88` | once the scanned numbers are used up, up to `16 * (s_isize - 1)`, each new file takes the next one, the second inode of the last sector, over the file that has it (the first inode of that sector is scanned) |
| `lastlisted` | `InodeListsAll` | `inode.c:57` | `inode` ends at the same number: a file whose inode is behind the first of the last sector is not listed, although `inode.h:65` and `handouts/04.listinodes.md:13` say all inodes are |

More places where the code does something else than the handouts or the format say
are in the models as the code has them, without a run of their own:

* `inode.c:82`: a file of exactly 8 sectors is read through an address table it does
  not have (`SizeTot`), although a small file has up to 4 KB
  (`handouts/04.unixv6.md:91`). With the size 9 added to `Sizes`, `BlockReadable` fails
  in `fileread`; `ReadsContent` (section 4) has to exclude the size.
* `filev6.c:131`: what `filev6_writesector_residual` answers is not looked at, so that
  `mkdir` succeeds although the write of its entry failed
  (`handouts/12.write-smallfiles.md:84`). `ignored` records it, `LostWritesAreReported`
  has to except it, and with `AckedIsDurable` the run `faults` fails.
* `inode.c:103`: sector numbers from 32768 on, read from a table, turn negative and
  pass for errors (`Int16`); the format has positive 16-bit numbers
  (`handouts/04.unixv6.md:66`). `Readability` (section 4) has to exclude them.
* `u6fs_fuse.c:128`: an offset of 2^32 reads from 0 (`Int32`).
* `u6fs_utils.c:146`: `shafiles` goes on after `ERR_UNALLOCATED_INODE` from wherever it
  comes. A word 65416 in the address table of a file is -120, which is that code: the
  file is passed over instead of reported as unreadable (`ShaFile`, `Misread`).
* `u6fs.c:78`: `cat1 65538` shows inode 2 (`CatFirst`); 0 and what `atoi` answers for a
  number that is too large or too small are refused before.
* `mount.c:64`: the sector bitmap ends at `s_fsize`, which is no sector of the volume
  (`s_fsize` is its size, `unixv6fs.h:173`), and a full volume hands it out: the image
  file grows by a sector behind its volume. `VolumeFillsFirst` says that this is the only
  way out of the data area, and that it needs a full volume; `SectorsApart` counts the
  number among those of the bitmap. Without its last disjunct `VolumeFillsFirst` fails in
  `fill` and `faults`. When that number is used as well, the inode of the file that
  gets no entry stays behind (`direntv6.c:231`): with `OrphansAreAccounted` the run
  `fill` fails.
* `direntv6.c:42`: a last block of less than an entry makes `readdir` read on, over
  the entries of the block before and out of its array (`Astray`).
* `direntv6.c:88`: a circle of directories exhausts the stack (`"killed"`).
* `direntv6.c:223`: a name of 14 characters, which the format allows
  (`unixv6fs.h:240`), is copied with its null one byte past the entry, and the
  program as built (AddressSanitizer) aborts (`NameOverflow`).

`nobmset`, `slot`, the 14 characters and the overwriting of inodes were also seen on
the compiled code (with the layers below `u6fs.c`).

Bounds. Sizes are scaled so that each limit is met within a few commands: three
direct addresses, two to six cells a sector, two to four inodes per inode sector,
two to seven data sectors. `MaxCrashes` and `MaxFaults` are 2 (a crash during the
retry after a crash); `MaxRequest` is 8, nearly three sectors. The number of
commands is not bounded: the state space is finite because the volume is. In `serve`
writers are not killed: what a crash leaves on the disk is what the server meets
between two writes anyway, and one crash already makes nearly a million states. In
`listing` the stack has room for three directories, as many as the deepest image
without a circle needs.

Fairness. `WF_vars(Process)`: a process that runs goes on running, as nothing in it
waits for anything; nobody has to start a process, kill one or fail an access.
`FileRead`: weak fairness of the steps of `fs_read` once it is called. `Serving`: weak
fairness of the server's steps alone, not of writers and not of requests being made;
`RequestEnds` then says that no writer, however busy, keeps a request from ending,
since the server works on the inode it has read. `Listing`: the process goes on.

Each property of each passing run has a mutant, a definition named `..._something`
before the one it changes, that breaks the property (`PROJECT.json`).

## 4. What is proved

For every value of the constants, under the assumptions named in the modules
(`BitsPerVectorAssumption`, `WindowAssumption`, `GeometryAssumption`,
`RequestAssumption`, `SectorAssumption`, `InodeTableAssumption`, `ListingAssumption`,
`VolumeAssumption`, `CommandsAssumption`, `NoJobAssumption`, `ServingAssumption`).

* `BmCalls_proofs`. `BmInvariant`: `Spec => [](TypeOK /\ BehindCursorIsFull)`, and
  `VectorTyping` the first half alone; the
  conjunction is inductive, since a search only passes words it has found full.
  `FindRepeatsTheorem` and `TakesAscendTheorem` rest on the lemmas of `Format_proofs`
  about the search: the
  words visited are all words (`VisitsAll`), the answer is free (`FindNext`), a second
  search from the word found finds it again (`FindTwice`), and no free number is
  below the answer while everything behind the cursor is full (`FindLeast`).
  `PoolRefinement`: `Spec => PoolSpec`, by the same lemmas and `SetClear`.
* `Format_proofs`. `SizeRoundTrip`, `SizeRefused`, `SizeInjective`: the two size fields
  hold every size of 24 bits, refuse the others, and have one meaning; here with
  the code's own widths. `FindSectorType` says what `inode_findsector` can answer on
  any image, and serves the modules that read files.
* `FileRead_proofs`. The invariant is `IInv`: typing, `OffsetOnBoundary`, and
  `Copied`, which ties the length of what has been copied to the distance the
  cursor has gone. Typing alone is not inductive, since `fs_read` answers the length
  of the buffer, and `Copied` needs typing; a block ends on a boundary because it
  starts on one (`NextBoundary`). From it: `Typing`, `Boundaries`, and `Complete`
  (`FsReadComplete`). `ReadsContent` (`Spec => []ReadIsContent`) adds that the block at
  the cursor is the content there (`BlockIsContent`), which rests on the agreement
  of `inode_findsector` with the format (`FoundSector`) and needs the assumption
  `NoneFillsItsInode`: no file has the size of `AddrSmall` full sectors, at which
  `inode.c:82` errs. `Readability` (`Spec => []BlockReadable`) assumes
  `WithinReach`: besides that, no file is larger than its tables reach, and no
  sector number turns negative. The code needs each of these, so the
  assumptions say exactly what a user of the code has to keep to.
* `SectorIO_proofs`. The invariant is `TypeOK`, `BufferAgrees` and `LostIsReported`
  together. `BufferAgrees` says that the buffer differs from the file in the pending
  sector only; it is what makes `fseek`, which does not read again a page it holds,
  harmless for a process that is alone, and `LostIsReported` is not inductive without
  it. From it `StreamTyping`, `NothingLostSilently`, and `LazyRefinement`: each call is
  one step of `LazyDisk` (`WriteStep`, `ReadStep`, ...).
* `Listing_proofs`. On every set of images, whatever their entries, sizes and
  addresses. `ListingsAgreeTheorem` (`Spec =>
  []ListingsAgree`) speaks of a listing that has ended; the invariant `Scanning` adds how
  far one has come that has not: all numbers below `next` that have an inode, in order
  (`OneMore`, `NoneMore`), but for `shafiles` without those of files that are misread as
  unallocated. It does not say that `inode` lists all there is, which is false (run
  `lastlisted`). The hash is taken over the content because the block of a
  word is the same whether counted in words or in blocks (`HashedIsContent`). As far as
  the reads of `readdir` are defined, its cursor is where its block has entries
  (`CursorsFit`): a block is only read over the
  last one when every entry counted has been taken (`Refilled`), and an entry is only
  taken where it lies in the array whole (`EntryRead`). The cursor does leave the array
  where the code lets it: `StrayingIsHalfEntry` (`Spec => []AstrayOnHalfEntry`) says that
  this takes a directory in reach whose last block is less than an entry
  (`StrayIsHalf`).
* Also there, `TreeListsAll` (`Spec => []TreeIsTrue`), for every depth of the stack. What
  is found on an image has an address, the places of the entries that lead to it
  (`Found`, `OneAddress`): with names alone two entries could not be told apart, since an
  image from elsewhere may hold a name twice. The invariant `TreeInv` says that the calls
  under way are at the nodes of one path, each before the entry that comes next
  (`OnPath`), and that exactly what comes before the cursor in the order of addresses
  (`Precedes`) has been printed, all directories among it being whole and not too deep,
  but for those still being read (`ListedTo`). It needs to know of each reader that it
  holds what the directory has at its place (`Straight`: `NextHeld`, `EntryTaken`,
  `DirectoryEnds`). One kind of directory breaks that: a last block of less than an entry lets
  `readdir` deliver old entries again (`direntv6.c:42`), so that lines are printed that
  belong to no entry. `Doomed` covers it: that reader never comes to an end
  (`StaleStays`), so the listing ends in an error, astray or killed, and success is never
  answered for it. A file, a recursive call and a return move the cursor just past what
  they print (`FileStep`, `DescendStep`, `ReturnStep`), and when the outermost call
  returns, everything lies before it.

* `U6Image_proofs`: what the operators that read an image answer on a sound one. A
  lookup finds an entry exactly where there is one (`EntryFound`, `EntryAnswer`), the
  mount succeeds and marks all that is in use (`Mounted`), and two sound images of
  which one has grown from the other are looked up alike (`PathStays`).
* `U6fs_proofs`: the writing commands, see below.
* `Serving_proofs`: the server beside them, see further below.

The proof about `U6fs`. An image is `Sound` when it is typed, has a root, stores each
cell of each file in a sector of its own among the numbers of the bitmap, and its entries name live inodes, each
one once and each name once in its directory. Every image in the runs is sound between
any two writes, but that alone is not inductive: an inode written back is harmless
because of what the process knows of it. `IInv` therefore says for every `pc` what the
process relies on: the bitmaps cover what is in use as long as numbers are
taken from them (`BitmapsKnow`), the name is new in a directory that exists
(`ParentFound`), the new inode is live and empty and nothing names it until the entry
does (`ChildCreated`), the copy of the inode in `fv` is the one stored (`FileOpen`), and the
sector is there before the inode that counts it (`SectorWritten`). The disk is behind
the image by at most one write, and the image has `Grown` from it, which is what makes
a crash or a lost write harmless. `AInv` adds what the answers rest on: promises given
hold on both images (`Promised`), the path leads to the parent and then to the child
(`PathLeads`), and if the disk lacks an entry it is that of the new, still empty inode
(`EntryPending`). `FewLost` counts the lost inodes on both images without those whose
entry is still to come (`ToCome`, `ToComeOnDisk`).

`FInv` is about a volume that fills up. The last number of the bitmap, `s_fsize`, is no
sector of the volume, so that it is handed out last has to be shown: the search goes up
from the first word (`BitmapTrue`: a process searches once, within the limits, hence
with its cursor where `mountv6` left it), and a number it passes must be in use, not just
marked. Mount marks every address in an inode, so no inode may have one behind its last
cell (`NoSpareAddress`), and `Filled` says this of both images and that `s_fsize` holds a
part of a file only if all data sectors do. `GrownInside` is the same about the write
that the disk still lacks. `MountedTrue` gives that mount marks no more than is in use.

`InvariantHolds`, `AnswersHold`, `FullInvariantHolds` and `WholeInvariantHolds` are these
invariants. From them:
`U6fsTypes` (`TypeOK`), `NoEntryDangles` (`NoDanglingEntry`), `DirectoriesAreATree`
(`TreeShaped`), `NamesAreUnique` (`UniqueNames`), `NoSectorIsShared` (`SectorsApart`),
`FilesOnlyGrow` (`AppendOnly`), `VolumeIsFilledFirst` (`VolumeFillsFirst`), `RefusalsHold`
(`RefusalsAreTrue`), `LostWritesReported` (`LostWritesAreReported`), `AckedCommandsLast`
(`AckedIsDurable`), `OrphansAccounted` (`OrphansAreAccounted`), and
`CommandsImplementNamespace`, that `U6fs` implements `Namespace`. For the last one: at most one entry is
pending, all paths are unique, so the step that brings it to the disk is `Enter` of
the command that runs, and every other step leaves the tree of names as it is.

What these theorems assume.

* `SoundImages`: the images the first process may find are sound, as those are that
  the program makes.
* `[]WithinLimits`: no state leaves the limits within which the code is right. There are
  three, and each is where the code errs: no inode number beyond those that
  mount scans (`mount.c:88`), no file of `AddrSmall` full sectors (`inode.c:82`), and content
  of less than a sector whose parent has room in its last one (`filev6.c:94` and `109`).
  The violation runs and section 3 show what happens beyond each. The run `faults` never
  leaves them. A full volume is within them.
* `FilledImages` for `FullInvariantHolds`, `VolumeIsFilledFirst` and `WholeInvariantHolds`
  alone: the first image uses `s_fsize` only if it is full, and its inodes have no
  address behind the last cell, as is so of an image this program has filled.
* `MaxFaults = 0` for `AckedCommandsLast` and `CommandsImplementNamespace` alone: a failing
  access may end in a success that is false (`filev6.c:131`). Crashes are unbounded in
  number in all of them. `LostWritesReported` says for any number of faults that this
  is the only way.
* `NothingLost` and `[]RoomForEntries` for `WholeInvariantHolds` and `OrphansAccounted`: no
  inode is lost at first, and no entry is refused for lack of a sector
  (`direntv6.c:214`).

The proof about `Serving`. The server reads a path, an inode and the blocks of a file at
different times, from a page that may be old, while `U6fs` goes on underneath. What
saves it is that files only grow and that a page is read whole: whatever it has
read was true at some earlier moment, and what was true then is true of the disk now.
`SInv` says so. The page in the buffer `Tells` of each inode in it what the
disk still holds (`PageTells`), and so does the inode that the request works on
(`InFile`), the beginning of the file that has been collected (`Collected`), and the
answer given (`AnswerTrue`). That is not enough: an entry read now must not lead to
an inode sector of an older page, where that inode is still free. So `Tells` also says
that the page, if it has the inode of an entry that the file had by then, `Shows` it in
use, and `Knows` that the page is not older than the entries followed so far
(`Underway`). That names are not missed takes two parts more: the page `Knows` every path
that has been served (`ServedKnown`), and a name that is due is known, or its look-up
begins with the page of the root read anew, and in the directory being scanned it is
still ahead (`Found`).

A step of a writer keeps all of it because the disk after it has `Grown` (`WritersStep`,
from `TellsLater` and `KnowsLater`). A step of the server either keeps the page or
reads it anew, and the page read now knows all there is (`NowTells`, `NowKnows`,
`BufferStep`); a block read is that part of the file (`BlockSector`, `BlockTells`), and
an entry found in it is the one that the path leads through (`DescendStep`). From
`ServingInvariantHolds`: `ServerTypes` (`ServerTypeOK`), `AnswersStayTrue`
(`ServedIsStored`), `NoHalfStateIsSeen` (`NoHalfState`) and `NamesAreFound`
(`NoNameIsMissed`), under `SoundImages` and `[]WithinLimits`, for any page size, any
requests, and any number of crashes and failing accesses of the writers. The server's
own accesses do not fail in the model.

Working out the invariant showed that `NoNameIsMissed` was too strong as first stated:
a writer may report success although the write of its entry failed (`filev6.c:131`),
and such a name the server may well miss. `due` now leaves those commands out.

Scans and walks over data are where induction would be natural and is not to be had.
The proofs take a least counterexample instead: the first position of a scan at which
the answer would differ, the shortest prefix of a path at which two images would
disagree, the level nearest to the root at which two nodes would have one address; this
needs only that a set of naturals that is not empty has a minimum. That `Found` is the
function its recursion describes is shown the same way (`LevelsExist`).

Only model-checked: liveness (`FsReadEnds`, `ProcessEnds`, `RequestEnds`, `WalkEnds`).
Out of the prover's reach are `ENABLED`, fairness and induction over data.

## 5. Not modelled

The superblock, one inode and the bitmaps printed field by field (`sb`, `bm`, the head
of `cat1`), the parsing of the arguments, the source file `add` reads, memory and
descriptors (`mount.c:74` leaves a stream open in a process that ends at once), the
checks of boot sector and superblock (one comparison each, before anything else), two
writers at a time (the code has no locks, both would take the same numbers, and the
handouts never do it), power failure below `fclose` (nothing calls `fsync`), the sample
`hello.c`, the handouts.

## 6. Plan

1. (done) Bitmaps with abstract pool, inode arithmetic, reading, the writing
   commands with crashes and faults, abstract namespace; the stream beneath them and
   its lazy disk; the server beside writers; the listings on images from anywhere.
   Theorems about the bitmaps, the size fields, reading, the stream and the listings.
2. (done) Theorems about `U6fs`: its inductive invariant, all its safety properties and
   the refinement.
3. (done) Theorems about `Serving`, on the invariant of `U6fs`: all its safety
   properties. `TreeIsTrue`, on a path of readers and the order of addresses.
4. Left: resources of `mountv6` and `umountv6` on every error path.
