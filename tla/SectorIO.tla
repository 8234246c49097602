---------------------------------- MODULE SectorIO ----------------------------------
(***********************************************************************************)
(* sector_read and sector_write (src/done/sector.c) on the C stream they are made  *)
(* of.  The stream (modelled from how sector.c uses it, and external) has a buffer *)
(* of one page, SectorsPerPage sectors.  fseek writes out what is pending, and     *)
(* takes the page of its sector into the buffer unless it is there; fread answers  *)
(* from the buffer and fwrite only changes it.  So a write reaches the image at    *)
(* the next call, and that call reports it when it fails.                          *)
(*                                                                                 *)
(* The process has the image for itself.  A client opens, reads, writes and closes *)
(* in any order; the process may be killed.                                        *)
(***********************************************************************************)
EXTENDS U6Base

CONSTANTS
    Sectors,         \* the numbers of sectors
    SectorsPerPage,  \* 8 in the build: 4096 bytes
    Contents,        \* what a sector may contain
    Absent,          \* in place of a content: beyond the end of the image
    MaxFaults        \* bound: how often a system call fails

ASSUME SectorAssumption ==
    /\ Sectors \subseteq Nat /\ SectorsPerPage \in Nat \ {0}
    /\ Absent \notin Contents /\ MaxFaults \in Nat

VARIABLES
    file,     \* the image
    stream,   \* [page, buf, dirty]: the page in the buffer, its content, and the
              \* sector that was changed there and is not written out
    open,     \* between fopen and fclose
    answer,   \* of the last call
    wanted,   \* what the image ought to contain, by the calls that answered success
    reported, \* an error was answered since fopen
    faults

vars == <<file, stream, open, answer, wanted, reported, faults>>

NoSector == -1
PageOf(s) == s \div SectorsPerPage
Page(p) == {s \in Sectors : PageOf(s) = p}

NoPage == -1
Empty == [page |-> NoPage, buf |-> [s \in Page(NoPage) |-> Absent], dirty |-> NoSector]

Answer(ret, data) == [ret |-> ret, data |-> data]
Failed == Answer(ERR_IO, Absent)

-----------------------------------------------------------------------------------
(* The stream. *)

\* The image once what is pending is written.
written == IF stream.dirty = NoSector THEN file
           ELSE [file EXCEPT ![stream.dirty] = stream.buf[stream.dirty]]

\* The buffer after fseek to sector s.
fseek(s) ==
    IF stream.dirty = NoSector /\ stream.page = PageOf(s) THEN stream
    ELSE [page |-> PageOf(s), buf |-> [x \in Page(PageOf(s)) |-> written[x]], dirty |-> NoSector]

\* Mutant: the next write does not write out the last one.
sector_write_over(s, v) ==
    /\ open
    /\ stream' = [fseek(s) EXCEPT !.buf[s] = v, !.dirty = s]
    /\ answer' = Answer(ERR_NONE, Absent)
    /\ wanted' = [wanted EXCEPT ![s] = v]
    /\ UNCHANGED <<file, open, reported, faults>>

\* Mutant: it writes wherever the stream stands.
sector_write_seekless(s, v) ==
    /\ open
    /\ file' = written
    /\ stream' = [stream EXCEPT !.buf[s] = v, !.dirty = s]
    /\ answer' = Answer(ERR_NONE, Absent)
    /\ wanted' = [wanted EXCEPT ![s] = v]
    /\ UNCHANGED <<open, reported, faults>>

sector_write(s, v) ==
    /\ open
    /\ file' = written
    /\ stream' = [fseek(s) EXCEPT !.buf[s] = v, !.dirty = s]
    /\ answer' = Answer(ERR_NONE, Absent)
    /\ wanted' = [wanted EXCEPT ![s] = v]
    /\ UNCHANGED <<open, reported, faults>>

\* fread is short beyond the end of the image.
sector_read(s) ==
    /\ open
    /\ file' = written
    /\ stream' = fseek(s)
    /\ answer' = Answer(IF stream'.buf[s] = Absent THEN ERR_IO ELSE ERR_NONE, stream'.buf[s])
    /\ reported' = (reported \/ stream'.buf[s] = Absent)
    /\ UNCHANGED <<open, wanted, faults>>

\* Mutant: fclose forgets what is pending.
fclose_dropped ==
    /\ open /\ open' = FALSE
    /\ stream' = Empty
    /\ answer' = Answer(ERR_NONE, Absent)
    /\ UNCHANGED <<file, wanted, reported, faults>>

fclose ==
    /\ open /\ open' = FALSE
    /\ file' = written /\ stream' = Empty
    /\ answer' = Answer(ERR_NONE, Absent)
    /\ UNCHANGED <<wanted, reported, faults>>

\* fopen by the next process.
fopen ==
    /\ ~open /\ open' = TRUE
    /\ wanted' = file /\ reported' = FALSE
    /\ answer' = Answer(ERR_NONE, Absent)
    /\ UNCHANGED <<file, stream, faults>>

-----------------------------------------------------------------------------------
(* What may go wrong. *)

\* The write of what is pending fails, in whichever call: the stream drops it.  A
\* sector_write that meets this does not do its own write either.
WriteFails ==
    /\ open /\ stream.dirty # NoSector /\ faults < MaxFaults
    /\ stream' = Empty /\ open' \in {TRUE, FALSE}
    /\ answer' = Failed /\ reported' = TRUE /\ faults' = faults + 1
    /\ UNCHANGED <<file, wanted>>

\* sector_read cannot read its page, or fclose fails behind the write.
ReadFails ==
    /\ open /\ faults < MaxFaults
    /\ file' = written /\ stream' = Empty /\ open' \in {TRUE, FALSE}
    /\ answer' = Failed /\ reported' = TRUE /\ faults' = faults + 1
    /\ UNCHANGED wanted

Kill ==
    /\ open /\ open' = FALSE
    /\ stream' = Empty /\ reported' = TRUE
    /\ UNCHANGED <<file, answer, wanted, faults>>

-----------------------------------------------------------------------------------

Init ==
    /\ file \in [Sectors -> Contents \union {Absent}]
    /\ stream = Empty /\ open = FALSE
    /\ answer = Answer(ERR_NONE, Absent)
    /\ wanted = file /\ reported = FALSE /\ faults = 0

Next ==
    \/ fopen \/ fclose
    \/ \E s \in Sectors : sector_read(s)
    \/ \E s \in Sectors, v \in Contents : sector_write(s, v)
    \/ WriteFails \/ ReadFails \/ Kill

Spec == Init /\ [][Next]_vars

-----------------------------------------------------------------------------------
(* Properties. *)

Images == [Sectors -> Contents \union {Absent}]

TypeOK ==
    /\ file \in Images /\ wanted \in Images
    /\ stream.page \in Nat \union {NoPage}
    /\ stream.dirty \in Page(stream.page) \union {NoSector}
    /\ stream.buf \in [Page(stream.page) -> Contents \union {Absent}]
    /\ stream = [page |-> stream.page, buf |-> stream.buf, dirty |-> stream.dirty]
    /\ open \in BOOLEAN /\ reported \in BOOLEAN
    /\ answer \in [ret : {ERR_NONE, ERR_IO}, data : Contents \union {Absent}]
    /\ faults \in 0 .. MaxFaults

\* The buffer never disagrees with the image but for the sector that is pending, so
\* that it does not matter that fseek leaves a page it finds there alone.
BufferAgrees ==
    /\ \A s \in DOMAIN stream.buf \ {stream.dirty} : stream.buf[s] = file[s]
    /\ ~open => stream = Empty

\* No write is lost without an error: if none was answered since fopen, and fclose
\* did not fail, the image is what all the calls together ask for, although none of
\* them knows whether it has written anything (src/done/sector.c:29 ignores what
\* fwrite answers, and umountv6 looks at fclose).
LostIsReported ==
    ~reported => /\ written = wanted
                 /\ ~open => file = wanted

Lazy == INSTANCE LazyDisk
    WITH Numbers <- Sectors, Values <- Contents, Nothing <- Absent,
         medium <- file, view <- written, reply <- answer

\* The stream implements the disk that is one write late.
LazySpec == Lazy!LSpec
===================================================================================
