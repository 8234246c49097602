---------------------------------- MODULE MCU6fs ----------------------------------
(***********************************************************************************)
(* Small volumes for TLC.  The word of 32 values, and so sectors 0..31, leave room *)
(* for every volume below.  Data sectors start out full of stale entries that name *)
(* the root, so that reading a sector that belongs to nobody does not go unseen.   *)
(***********************************************************************************)
EXTENDS U6fsInvariant

Stale == [inr |-> ROOT_INUMBER, name |-> "stale"]
Text(k) == [inr |-> (20 + k) % WordValues, name |-> "text"]

FreeInode == [mode |-> "free", size |-> 0, addr |-> NoAddr]

MCGarbage == {Stale}

\* A file system just made: an empty root and nothing else.
FreshImage ==
    [itab |-> [inr \in InodeNumbers |->
                 IF inr = ROOT_INUMBER THEN [FreeInode EXCEPT !.mode = "dir"] ELSE FreeInode],
     data |-> [s \in Volume |-> [k \in 0 .. SectorSize - 1 |-> Stale]]]

\* One whose root has an entry already, for an empty file.
UsedImage ==
    [FreshImage EXCEPT
        !.itab[ROOT_INUMBER] = [mode |-> "dir", size |-> 1, addr |-> [NoAddr EXCEPT ![0] = s_block_start]],
        !.itab[2].mode = "file",
        !.data[s_block_start][0] = [inr |-> 2, name |-> "z"]]

\* One that holds a file too large for the code to read.
OversizedImage ==
    [UsedImage EXCEPT !.itab[2].size = MediumSize * SectorSize]

Fresh == {FreshImage}
Used == {UsedImage}
FreshOrOversized == {FreshImage, OversizedImage}

Mkdir(path) == [op |-> "mkdir", path |-> path, slash |-> FALSE, buf |-> << >>]
Add(path, n) == [op |-> "add", path |-> path, slash |-> FALSE,
                 buf |-> [k \in 1 .. n |-> Text(k)]]

\* Names that are new, taken, too long, of full length, below a directory that may not
\* be there yet or that is a file; an empty file and one that is refused.  Together more
\* than a volume of three sectors has room for.
FillCommands ==
    {Mkdir(<<"a">>), Mkdir(<<"b">>), Mkdir(<<"a", "b">>), Mkdir(<<"full">>),
     Mkdir(<<"a", "x">>), Mkdir(<<"b", "a">>), [Mkdir(<<"a">>) EXCEPT !.slash = TRUE],
     Add(<<"e">>, 0), Mkdir(<<"e", "a">>), Add(<<"e">>, MAX_SIZE + 1)}

\* Few commands, to be killed or failed at every step and tried again.
RetryCommands == {Mkdir(<<"a">>), Mkdir(<<"a", "b">>), Add(<<"c">>, 2)}

\* What the violation runs need.
AddBelow == {Mkdir(<<"d">>), Add(<<"d", "a">>, 1)}
AddSector == {Add(<<"a">>, SectorSize)}
===================================================================================
