---------------------------------- MODULE Listing ----------------------------------
(***********************************************************************************)
(* The commands that list an image: `tree' (direntv6_print_tree on the directory   *)
(* reader, src/done/direntv6.c), `inode' (inode_scan_print, src/done/inode.c),     *)
(* `shafiles' and `cat1' (src/done/u6fs_utils.c).  The image may come from         *)
(* elsewhere: directories in a circle, entries that name no inode, directories     *)
(* that end in the middle of an entry, sectors beyond the end of the image.        *)
(*                                                                                 *)
(* A unit is one word of 16 bits.  An image is a record [itab, words], words[s][k] *)
(* being the k-th word of sector s; an entry has EntryWords words, of which the    *)
(* first is d_inumber and the second stands for d_name.                            *)
(***********************************************************************************)
EXTENDS InodeTable, SequencesExt

CONSTANTS
    EntryWords,    \* 8 in the code
    HashedSectors, \* UTILS_HASHED_LENGTH, 16 sectors
    StackDepth,    \* how deep direntv6_print_tree may recurse
    Images,
    ListCommands   \* records [op, arg]: arg is what atoi makes of cat1's argument

StoredInode == [mode : Modes, size : Nat, addr : [0 .. AddrSmall - 1 -> Word]]

ASSUME ListingAssumption ==
    /\ EntryWords \in Nat \ {0, 1} /\ SectorSize % EntryWords = 0
    /\ HashedSectors \in Nat \ {0} /\ StackDepth \in Nat \ {0}
    /\ ListCommands \subseteq [op : {"tree", "inode", "shafiles", "cat1"}, arg : Int]
    /\ \A d \in Images : d.itab \in [InodeNumbers -> StoredInode] /\ DOMAIN d.words \subseteq Nat
    /\ \A d \in Images : \A s \in DOMAIN d.words : d.words[s] \in [0 .. SectorSize - 1 -> Word]

VARIABLES
    image, command,
    stack,  \* of direntv6_print_tree, the innermost call last: [path, reader, shown]
    next,   \* the inode number that `inode' or `shafiles' comes to next
    lines,  \* what has been printed
    pc,     \* "running", "ended", "killed" with the stack exhausted, or "astray":
            \* readdir has left its array, and what follows is undefined
    ret     \* what it answers, once it has ended

vars == <<image, command, stack, next, lines, pc, ret>>

-----------------------------------------------------------------------------------
(* Reading a block of a file. *)

\* The sector filev6_readblock finds at off, or why it finds none.
BlockSector(i, off) ==
    LET s == inode_findsector(image.words, i, off \div SectorSize)
    IN  IF s >= 0 /\ s \notin DOMAIN image.words THEN ERR_IO ELSE s

BlockLength(i, off) == Min({SectorSize, i.size - off})

\* Its first n words.
Block(i, off, n) == [k \in 1 .. n |-> image.words[BlockSector(i, off)][k - 1]]

-----------------------------------------------------------------------------------
(* direntv6_readdir. *)

\* A reader as direntv6_opendir leaves it; `dirs' is uninitialised, which is written
\* as an array that ends before its first word.
Reader(inr) == [inode |-> image.itab[inr], off |-> 0, dirs |-> << >>, cur |-> 0, last |-> 0]

\* Mutant: part of an entry is an entry.
Refill_round(d) ==
    LET n == BlockLength(d.inode, d.off)
    IN  [d EXCEPT !.dirs = Block(d.inode, d.off, n) \o SubSeq(@, n + 1, Len(@)),
                  !.off = @ + n, !.last = (n + EntryWords - 1) \div EntryWords, !.cur = 0]

\* The next block of the directory, over what dirs held before.
Refill(d) ==
    LET n == BlockLength(d.inode, d.off)
    IN  [d EXCEPT !.dirs = Block(d.inode, d.off, n) \o SubSeq(@, n + 1, Len(@)),
                  !.off = @ + n, !.last = n \div EntryWords, !.cur = 0]

\* The reader that holds the next entry.
Filled(d) == IF d.cur = d.last THEN Refill(d) ELSE d

\* Mutant: a block of no bytes is read as an entry.
AtEnd_past(d) == d.cur = d.last /\ d.off > d.inode.size

AtEnd(d) == d.cur = d.last /\ d.off = d.inode.size

Unreadable(d) == d.cur = d.last /\ d.off # d.inode.size /\ BlockSector(d.inode, d.off) < 0

HasEntry(d) ==
    ~AtEnd(d) /\ ~Unreadable(d) /\ (Filled(d).cur + 1) * EntryWords <= Len(Filled(d).dirs)

\* After a block of less than an entry last is 0, and cur, which is to meet it, goes
\* past it, over what dirs still holds of the block before, and on from there.
Astray(d) == ~AtEnd(d) /\ ~Unreadable(d) /\ ~HasEntry(d)

EntryInr(d) == Filled(d).dirs[Filled(d).cur * EntryWords + 1]
EntryName(d) == Filled(d).dirs[Filled(d).cur * EntryWords + 2]

After(d) == [Filled(d) EXCEPT !.cur = @ + 1]

-----------------------------------------------------------------------------------
(* tree *)

Line(kind, path) == [kind |-> kind, path |-> path]

Frame(path, inr) == [path |-> path, reader |-> Reader(inr), shown |-> FALSE]

Init ==
    /\ image \in Images /\ command \in ListCommands
    /\ ret = IF command.op = "tree" THEN opendir(image, ROOT_INUMBER) ELSE ERR_NONE
    /\ pc = IF ret = ERR_NONE THEN "running" ELSE "ended"
    /\ stack = IF command.op = "tree" /\ pc = "running"
                 THEN <<Frame(<< >>, ROOT_INUMBER)>> ELSE << >>
    /\ next = 1 /\ lines = << >>

Top == Last(stack)

\* The line of the directory itself, printed once its first entry has been read.
Heading == IF Top.shown THEN << >> ELSE <<Line("dir", Top.path)>>

\* direntv6_print_tree goes on with its loop.
TopAfter == [Top EXCEPT !.reader = After(@), !.shown = TRUE]
InTree == pc = "running" /\ command.op = "tree"

ChildPath == Append(Top.path, EntryName(Top.reader))
ChildInr == EntryInr(Top.reader)

Unwind(outcome) == pc' = outcome /\ stack' = << >>

Answer(r) == pc' = "ended" /\ ret' = r

\* The entry is a file.
TreeFile ==
    /\ InTree /\ HasEntry(Top.reader)
    /\ inode_read(image, ChildInr) = ERR_NONE /\ image.itab[ChildInr].mode = "file"
    /\ lines' = lines \o Heading \o <<Line("file", ChildPath)>>
    /\ stack' = Append(Front(stack), TopAfter)
    /\ UNCHANGED <<image, command, next, pc, ret>>

\* The entry is a directory: the recursive call, if there is room for it.
TreeDescends ==
    /\ InTree /\ HasEntry(Top.reader)
    /\ inode_read(image, ChildInr) = ERR_NONE /\ image.itab[ChildInr].mode = "dir"
    /\ lines' = lines \o Heading
    /\ IF Len(stack) < StackDepth
         THEN /\ stack' = Front(stack) \o <<TopAfter, Frame(ChildPath, ChildInr)>>
              /\ UNCHANGED pc
         ELSE Unwind("killed")
    /\ UNCHANGED <<image, command, next, ret>>

\* Mutant: the caller is forgotten along with the call.
TreeReturns_all ==
    /\ InTree /\ AtEnd(Top.reader)
    /\ lines' = lines \o Heading
    /\ Unwind("ended")
    /\ UNCHANGED <<image, command, next, ret>>

\* The directory is at its end, and the caller goes on.
TreeReturns ==
    /\ InTree /\ AtEnd(Top.reader)
    /\ lines' = lines \o Heading
    /\ stack' = Front(stack)
    /\ pc' = IF stack' = << >> THEN "ended" ELSE pc
    /\ UNCHANGED <<image, command, next, ret>>

\* A block that cannot be read, or an entry without an inode: every call under way
\* returns the error.
TreeFails ==
    /\ InTree
    /\ \/ Unreadable(Top.reader) /\ lines' = lines
          /\ ret' = BlockSector(Top.reader.inode, Top.reader.off)
       \/ HasEntry(Top.reader) /\ lines' = lines \o Heading
          /\ inode_read(image, ChildInr) # ERR_NONE /\ ret' = inode_read(image, ChildInr)
    /\ Unwind("ended")
    /\ UNCHANGED <<image, command, next>>

TreeStrays ==
    /\ InTree /\ Astray(Top.reader)
    /\ Unwind("astray")
    /\ UNCHANGED <<image, command, next, lines, ret>>

-----------------------------------------------------------------------------------
(* inode, shafiles and cat1 *)

\* Mutant: the last number is left out.
LastListed_short == InodesPerSector * (s_isize - 1) - 1

\* inode_scan_print counts from ROOT_INUMBER, and ends one inode sector early.
LastListed == InodesPerSector * (s_isize - 1)

Running(op) == pc = "running" /\ command.op = op

\* Mutant: a number without an inode is not passed.
NextNumber_allocated == IF inode_read(image, next) = ERR_NONE THEN next + 1 ELSE next

\* Both loops pass the numbers without an inode.
NextNumber == next + 1

\* One round of the loop of inode_scan_print: a line [inr, kind, size].
ScanInode ==
    /\ Running("inode")
    /\ IF next > LastListed THEN Answer(ERR_NONE) /\ UNCHANGED <<next, lines>>
       ELSE /\ LET i == image.itab[next]
               IN  lines' = IF inode_read(image, next) = ERR_NONE
                              THEN Append(lines, [inr |-> next, kind |-> i.mode, size |-> i.size])
                              ELSE lines
            /\ next' = NextNumber
            /\ UNCHANGED <<pc, ret>>
    /\ UNCHANGED <<image, command, stack>>

\* The blocks utils_print_shafile reads into its buffer.
HashedBlocks(i) == {k \in 0 .. HashedSectors - 1 : k * SectorSize < i.size}

\* Those of them that filev6_readblock answers with an error, the first of which
\* ends the loop.
BadBlocks(i) == {k \in HashedBlocks(i) : BlockSector(i, k * SectorSize) < 0}

\* What it hashes, with a length that is computed apart; where no block has been put
\* the buffer is uninitialised, here 0.  SHA256 itself is external.
Hashed(i) ==
    [k \in 1 .. Min({HashedSectors * SectorSize, i.size}) |->
        LET q == (k - 1) \div SectorSize
        IN  IF q \in HashedBlocks(i)
              THEN image.words[BlockSector(i, q * SectorSize)][(k - 1) % SectorSize] ELSE 0]

\* What utils_print_shafile answers.
utils_print_shafile(inr) ==
    LET i == image.itab[inr]
    IN  IF inode_read(image, inr) # ERR_NONE THEN inode_read(image, inr)
        ELSE IF i.mode = "file" /\ BadBlocks(i) # {}
          THEN BlockSector(i, Min(BadBlocks(i)) * SectorSize)
          ELSE ERR_NONE

\* One round of utils_print_sha_allfiles: a line [inr, kind, content].  It goes on
\* after ERR_UNALLOCATED_INODE, be it of a number without an inode or the code that
\* a word of an address table happens to spell.  (What has been printed of a line
\* before its hash is left out.)
ShaFile ==
    /\ Running("shafiles") /\ next \in InodeNumbers
    /\ LET i == image.itab[next]
           r == utils_print_shafile(next)
       IN  \/ /\ r = ERR_NONE
              /\ lines' = Append(lines, [inr |-> next, kind |-> i.mode,
                             content |-> IF i.mode = "file" THEN Hashed(i) ELSE << >>])
              /\ next' = NextNumber /\ UNCHANGED <<pc, ret>>
           \/ /\ r = ERR_UNALLOCATED_INODE
              /\ next' = NextNumber /\ UNCHANGED <<lines, pc, ret>>
           \/ /\ r \notin {ERR_NONE, ERR_UNALLOCATED_INODE}
              /\ Answer(r) /\ UNCHANGED <<next, lines>>
    /\ UNCHANGED <<image, command, stack>>

ShaEnds ==
    /\ Running("shafiles") /\ next \notin InodeNumbers
    /\ Answer(ERR_NONE)
    /\ UNCHANGED <<image, command, stack, next, lines>>

INT_MAX == 2147483647
INT_MIN == -INT_MAX - 1

\* What atoi answers when it has not read a number, as u6fs takes it.
NotNumbers == {0, INT_MAX, INT_MIN}

\* utils_cat_first_sector, for the number given as the command line narrows it.
CatFirst ==
    /\ Running("cat1")
    /\ LET inr == command.arg % WordValues
           i   == image.itab[inr]
       IN  \/ command.arg \in NotNumbers /\ Answer(ERR_BAD_PARAMETER) /\ UNCHANGED lines
           \/ /\ command.arg \notin NotNumbers /\ inode_read(image, inr) # ERR_NONE
              /\ Answer(inode_read(image, inr)) /\ UNCHANGED lines
           \/ /\ command.arg \notin NotNumbers /\ inode_read(image, inr) = ERR_NONE
              /\ i.mode = "file" /\ i.size # 0 /\ BlockSector(i, 0) < 0
              /\ Answer(BlockSector(i, 0)) /\ UNCHANGED lines
           \/ /\ command.arg \notin NotNumbers /\ inode_read(image, inr) = ERR_NONE
              /\ i.mode = "dir" \/ i.size = 0 \/ BlockSector(i, 0) >= 0
              /\ Answer(ERR_NONE)
              /\ lines' = <<[inr |-> inr, kind |-> i.mode,
                             content |-> IF i.mode = "file"
                                           THEN Block(i, 0, BlockLength(i, 0)) ELSE << >>]>>
    /\ UNCHANGED <<image, command, stack, next>>

Step ==
    \/ TreeFile \/ TreeDescends \/ TreeReturns \/ TreeFails \/ TreeStrays
    \/ ScanInode \/ ShaFile \/ ShaEnds \/ CatFirst

\* The process ends by itself or is killed by what it runs into.
Ended == pc # "running" /\ UNCHANGED vars

Spec == Init /\ [][Step \/ Ended]_vars /\ WF_vars(Step)

-----------------------------------------------------------------------------------
(* Properties. *)

Frames ==
    [path   : Seq(Word),
     reader : [inode : StoredInode, off : Nat, dirs : Seq(Word), cur : Nat, last : Nat],
     shown  : BOOLEAN]

\* A line of `tree', of `inode' and of the others.
Printed ==
    [kind : {"dir", "file"}, path : Seq(Word)] \union
    [inr : InodeNumbers, kind : {"dir", "file"}, size : Nat] \union
    [inr : InodeNumbers, kind : {"dir", "file"}, content : Seq(Word)]

\* The cursors of readdir while what it reads is defined: last counts entries that dirs
\* holds, and cur does not pass it, unless last is 0 (see Astray).
CursorsFit(d) ==
    /\ d.inode.mode = "dir" /\ d.off <= d.inode.size
    /\ Len(d.dirs) <= SectorSize /\ d.last * EntryWords <= Len(d.dirs)
    /\ d.cur <= d.last \/ (d.last = 0 /\ d.cur * EntryWords <= Len(d.dirs))

TypeOK ==
    /\ stack \in Seq(Frames) /\ Len(stack) <= StackDepth
    /\ \A k \in DOMAIN stack : CursorsFit(stack[k].reader) /\ Len(stack[k].path) = k - 1
    /\ pc = "running" /\ command.op = "tree" => stack # << >>
    /\ next \in 1 .. InodesPerSector * s_isize
    /\ lines \in Seq(Printed)
    /\ pc \in {"running", "ended", "killed", "astray"}
    /\ ret \in Int /\ ret <= ERR_NONE

\* The n words of a file from off on.
Content(i, off, n) ==
    [k \in 1 .. n |-> image.words[BlockSector(i, off + k - 1)][(off + k - 1) % SectorSize]]

\* The entries of a directory by the format, as far as their sectors are stored; half
\* an entry at the end is none.
EntryPlaces(i) == {p \in 0 .. i.size \div EntryWords - 1 : BlockSector(i, p * EntryWords) >= 0}

EntryAt(i, p) ==
    [inr |-> Content(i, p * EntryWords, 1)[1], name |-> Content(i, p * EntryWords + 1, 1)[1]]

IsDir(inr) == opendir(image, inr) = ERR_NONE

\* What entry p of a directory found leads to: `at' says by which entries it is reached,
\* which two entries of one name do not have in common.
Child(f, p) ==
    LET e == EntryAt(image.itab[f.inr], p)
    IN  [inr |-> e.inr, path |-> Append(f.path, e.name), at |-> Append(f.at, p)]

Children(f) == {Child(f, p) : p \in EntryPlaces(image.itab[f.inr])}

\* What is found n entries below the root.
Found[n \in 0 .. StackDepth] ==
    IF n = 0 THEN {[inr |-> ROOT_INUMBER, path |-> << >>, at |-> << >>]}
    ELSE UNION {Children(f) : f \in {g \in Found[n - 1] : IsDir(g.inr)}}

AllFound == UNION {Found[n] : n \in 0 .. StackDepth}

\* A directory that cannot be listed: a sector that cannot be read, an entry without an
\* inode, or a last block of less than an entry.
Spoiled(i) ==
    \/ \E off \in 0 .. i.size - 1 : BlockSector(i, off) < 0
    \/ \E p \in EntryPlaces(i) : inode_read(image, EntryAt(i, p).inr) # ERR_NONE
    \/ i.size % SectorSize \in 1 .. EntryWords - 1

Listable ==
    /\ IsDir(ROOT_INUMBER)
    /\ \A f \in AllFound : IsDir(f.inr) => ~Spoiled(image.itab[f.inr])

\* `tree' succeeds if and only if every directory can be listed and none is too deep
\* for the stack, a circle being as deep as any, which kills it; and then it has listed
\* everything there is, each entry once, below its directory (direntv6.c:52-100).
TreeIsTrue ==
    command.op = "tree" /\ pc # "running" =>
        /\ (pc = "ended" /\ ret = ERR_NONE)
               = (Listable /\ \A f \in Found[StackDepth] : ~IsDir(f.inr))
        /\ Listable => pc = "killed" \/ (pc = "ended" /\ ret = ERR_NONE)
        /\ pc = "ended" /\ ret = ERR_NONE =>
              /\ ToSet(lines) = {Line(image.itab[f.inr].mode, f.path) : f \in AllFound}
              /\ Len(lines) = Cardinality(AllFound)
              /\ \A k \in 2 .. Len(lines) :
                    \E j \in 1 .. k - 1 : lines[j] = Line("dir", Front(lines[k].path))

Numbers == {lines[k].inr : k \in DOMAIN lines}
AllocatedAmong(numbers) == {inr \in numbers : inode_read(image, inr) = ERR_NONE}

Ascending == \A j, k \in DOMAIN lines : j < k => lines[j].inr < lines[k].inr

\* `inode' lists every inode it comes to, and comes at least to those that mount takes
\* into account (inode.c:57 and mount.c:88).
InodeListing ==
    command.op = "inode" =>
        /\ Ascending
        /\ Numbers = AllocatedAmong(1 .. next - 1)
        /\ pc = "ended" => ret = ERR_NONE /\ AllocatedAmong(ScannedInodes) \subseteq Numbers
        /\ \A k \in DOMAIN lines : LET i == image.itab[lines[k].inr]
                                  IN  lines[k].kind = i.mode /\ lines[k].size = i.size

\* Of what is hashed of a file, all can be read up to a word that answers r.
FirstError(i, r) ==
    r < 0 /\ \E off \in 0 .. i.size - 1 :
        /\ off < HashedSectors * SectorSize /\ BlockSector(i, off) = r
        /\ \A o \in 0 .. off - 1 : BlockSector(i, o) >= 0

\* A file of which a sector number spells the code for a number without an inode.
Misread(inr) ==
    image.itab[inr].mode = "file" /\ FirstError(image.itab[inr], ERR_UNALLOCATED_INODE)

Hashable(numbers) == {inr \in AllocatedAmong(numbers) : ~Misread(inr)}

ShaListing ==
    command.op = "shafiles" =>
        /\ Ascending
        /\ Numbers = Hashable(1 .. next - 1)
        /\ pc = "ended" /\ ret = ERR_NONE => Numbers = Hashable(InodeNumbers)
        /\ pc = "ended" /\ ret # ERR_NONE =>
              /\ next \in AllocatedAmong(InodeNumbers) /\ image.itab[next].mode = "file"
              /\ ret # ERR_UNALLOCATED_INODE /\ FirstError(image.itab[next], ret)
        /\ \A k \in DOMAIN lines :
              LET i == image.itab[lines[k].inr]
              IN  /\ lines[k].kind = i.mode
                  /\ i.mode = "file" =>
                        lines[k].content = Content(i, 0, Min({HashedSectors * SectorSize, i.size}))

\* `inode' and `shafiles' list the inodes in order, each once and as it is stored;
\* `inode' leaves out none that mount takes into account, and `shafiles' none before the
\* first file that cannot be read, but those it takes for unallocated: a word of their
\* address table spells that error (inode.c:52-74, u6fs_utils.c:99-152).
ListingsAgree == InodeListing /\ ShaListing

\* `inode' lists all inodes of the image: the claim of inode.h:65.
InodeListsAll ==
    command.op = "inode" /\ pc = "ended" => Numbers = AllocatedAmong(InodeNumbers)

\* readdir leaves its array only on an image with a directory the last block of which is
\* less than an entry (direntv6.c:42-48): circles, deep recursion, entries without an inode
\* and sectors beyond the image do not bring it there.
AstrayOnHalfEntry ==
    pc = "astray" =>
        \E f \in AllFound : /\ IsDir(f.inr)
                            /\ image.itab[f.inr].size % SectorSize \in 1 .. EntryWords - 1

\* Every listing ends, on every image.
WalkEnds == pc = "running" ~> pc # "running"
===================================================================================
