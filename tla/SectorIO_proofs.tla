-------------------------------- MODULE SectorIO_proofs --------------------------------
(***********************************************************************************)
(* For every image, page size and content: the stream of sector.c loses no write   *)
(* without an error, and implements a disk that is one write late.                 *)
(***********************************************************************************)
EXTENDS SectorIO, TLAPS

IInv == TypeOK /\ BufferAgrees /\ LostIsReported

\* The stream once the page of s is loaded.
Loaded(s) == [page |-> PageOf(s), buf |-> [x \in Page(PageOf(s)) |-> written[x]],
              dirty |-> NoSector]

-----------------------------------------------------------------------------------

\* A sector lies on its page.
LEMMA Pages ==
    ASSUME NEW s \in Sectors
    PROVE  /\ PageOf(s) \in Nat /\ s \in Page(PageOf(s))
           /\ NoSector \notin Sectors
<1>1. s \in Nat
  BY SectorAssumption
<1>. QED BY <1>1, SectorAssumption DEF PageOf, Page, NoSector

\* The file with what is pending is an image.
LEMMA WrittenType == TypeOK => written \in Images
<1>. SUFFICES ASSUME TypeOK PROVE written \in Images
  OBVIOUS
<1>1. CASE stream.dirty = NoSector
  BY <1>1 DEF TypeOK, written
<1>2. CASE stream.dirty # NoSector
  <2>1. stream.dirty \in Page(stream.page)
    BY <1>2 DEF TypeOK
  <2>2. stream.buf[stream.dirty] \in Contents \union {Absent}
    BY <2>1 DEF TypeOK
  <2>. QED BY <1>2, <2>2 DEF TypeOK, written, Images
<1>. QED BY <1>1, <1>2

\* That fseek leaves a page it finds in the buffer alone makes no difference.
LEMMA Seek ==
    ASSUME TypeOK, BufferAgrees, NEW s \in Sectors
    PROVE  fseek(s) = Loaded(s)
<1>1. CASE stream.dirty = NoSector /\ stream.page = PageOf(s)
  <2>1. written = file
    BY <1>1 DEF written
  <2>2. stream.buf \in [Page(PageOf(s)) -> Contents \union {Absent}]
    BY <1>1 DEF TypeOK
  <2>3. \A x \in Page(PageOf(s)) : x # NoSector
    BY SectorAssumption DEF Page, NoSector
  <2>4. \A x \in Page(PageOf(s)) : stream.buf[x] = file[x]
    BY <1>1, <2>2, <2>3 DEF BufferAgrees
  <2>5. stream.buf = [x \in Page(PageOf(s)) |-> written[x]]
    BY <2>1, <2>2, <2>4
  <2>. QED BY <1>1, <2>5 DEF fseek, Loaded, TypeOK
<1>2. CASE ~(stream.dirty = NoSector /\ stream.page = PageOf(s))
  BY <1>2 DEF fseek, Loaded
<1>. QED BY <1>1, <1>2

\* A page just loaded agrees with the file.
LEMMA LoadedType ==
    ASSUME TypeOK, NEW s \in Sectors
    PROVE  /\ Loaded(s).buf \in [Page(PageOf(s)) -> Contents \union {Absent}]
           /\ Loaded(s).buf[s] = written[s]
           /\ \A x \in Page(PageOf(s)) : Loaded(s).buf[x] = written[x]
<1>1. Page(PageOf(s)) \subseteq Sectors
  BY DEF Page
<1>2. written \in Images
  BY WrittenType
<1>. QED BY <1>1, <1>2, Pages DEF Loaded, Images

\* An empty stream holds nothing back.
LEMMA EmptyStream ==
    /\ Empty.page = NoPage /\ Empty.dirty = NoSector
    /\ Empty.buf \in [Page(NoPage) -> Contents \union {Absent}]
    /\ Empty = [page |-> Empty.page, buf |-> Empty.buf, dirty |-> Empty.dirty]
    /\ Page(NoPage) = {}
<1>1. Page(NoPage) = {}
  <2>1. ASSUME NEW s \in Sectors, PageOf(s) = NoPage PROVE FALSE
    BY <2>1, Pages DEF NoPage
  <2>. QED BY <2>1 DEF Page
<1>. QED BY <1>1 DEF Empty

-----------------------------------------------------------------------------------
(* The invariant. *)

\* The stream starts out empty.
LEMMA InitIInv == Init => IInv
<1>. SUFFICES ASSUME Init PROVE IInv
  OBVIOUS
<1>1. TypeOK
  <2>1. faults \in 0 .. MaxFaults
    BY SectorAssumption DEF Init
  <2>2. file \in Images
    BY DEF Init, Images
  <2>. QED BY <2>1, <2>2, EmptyStream DEF Init, TypeOK, Answer
<1>2. BufferAgrees
  BY EmptyStream DEF Init, BufferAgrees
<1>3. LostIsReported
  BY EmptyStream DEF Init, LostIsReported, written
<1>. QED BY <1>1, <1>2, <1>3 DEF IInv

\* After a step that leaves the stream empty and the image as it is, the buffer
\* agrees with the image.
LEMMA NowEmpty == ASSUME stream' = Empty PROVE BufferAgrees' /\ written' = file'
BY EmptyStream DEF BufferAgrees, written

\* A write keeps the invariant, and changes one sector of what is read.
LEMMA WriteIInv ==
    ASSUME IInv, NEW s \in Sectors, NEW v \in Contents, sector_write(s, v)
    PROVE  IInv' /\ written' = [written EXCEPT ![s] = v]
<1>1. stream' = [Loaded(s) EXCEPT !.buf[s] = v, !.dirty = s]
  BY Seek DEF IInv, sector_write
<1>2. /\ stream'.page = PageOf(s) /\ stream'.dirty = s
      /\ stream'.buf = [Loaded(s).buf EXCEPT ![s] = v]
      /\ stream' = [page |-> stream'.page, buf |-> stream'.buf, dirty |-> stream'.dirty]
  BY <1>1 DEF Loaded
<1>3. stream'.buf \in [Page(PageOf(s)) -> Contents \union {Absent}] /\ stream'.buf[s] = v
  BY <1>2, LoadedType, Pages DEF IInv
<1>4. file' = written /\ written \in Images
  BY WrittenType DEF IInv, sector_write
<1>5. TypeOK'
  <2>1. wanted' \in Images
    BY DEF IInv, TypeOK, sector_write, Images
  <2>. QED BY <1>2, <1>3, <1>4, <2>1, Pages
       DEF IInv, TypeOK, sector_write, Answer
<1>6. \A x \in Page(PageOf(s)) \ {s} : stream'.buf[x] = file'[x]
  BY <1>2, <1>4, LoadedType DEF IInv
<1>7. BufferAgrees'
  BY <1>2, <1>3, <1>6 DEF BufferAgrees, sector_write
<1>8. written' = [written EXCEPT ![s] = v]
  BY <1>2, <1>3, <1>4, Pages DEF written
<1>9. LostIsReported'
  BY <1>8 DEF IInv, LostIsReported, sector_write
<1>. QED BY <1>5, <1>7, <1>8, <1>9 DEF IInv

\* A read keeps the invariant.
LEMMA ReadIInv ==
    ASSUME IInv, NEW s \in Sectors, sector_read(s)
    PROVE  IInv' /\ written' = written /\ stream'.buf[s] = written[s]
<1>1. stream' = Loaded(s)
  BY Seek DEF IInv, sector_read
<1>2. /\ stream'.page = PageOf(s) /\ stream'.dirty = NoSector
      /\ stream' = [page |-> stream'.page, buf |-> stream'.buf, dirty |-> stream'.dirty]
  BY <1>1 DEF Loaded
<1>3. /\ stream'.buf \in [Page(PageOf(s)) -> Contents \union {Absent}]
      /\ stream'.buf[s] = written[s]
      /\ \A x \in Page(PageOf(s)) : stream'.buf[x] = written[x]
  BY <1>1, LoadedType DEF IInv
<1>4. file' = written /\ written \in Images
  BY WrittenType DEF IInv, sector_read
<1>5. stream'.buf[s] \in Contents \union {Absent}
  BY <1>3, Pages
<1>6. TypeOK'
  BY <1>2, <1>3, <1>4, <1>5, Pages DEF IInv, TypeOK, sector_read, Answer
<1>7. BufferAgrees'
  BY <1>2, <1>3, <1>4 DEF BufferAgrees, sector_read
<1>8. written' = written
  BY <1>2, <1>4 DEF written
<1>9. LostIsReported'
  BY <1>8 DEF IInv, LostIsReported, sector_read
<1>. QED BY <1>3, <1>6, <1>7, <1>8, <1>9 DEF IInv

\* Every step keeps the invariant.
LEMMA NextIInv == IInv /\ [Next]_vars => IInv'
<1>. SUFFICES ASSUME IInv, [Next]_vars PROVE IInv'
  OBVIOUS
<1>1. written \in Images
  BY WrittenType DEF IInv
<1>2. ASSUME NEW s \in Sectors, sector_read(s) PROVE IInv'
  BY <1>2, ReadIInv
<1>3. ASSUME NEW s \in Sectors, NEW v \in Contents, sector_write(s, v) PROVE IInv'
  BY <1>3, WriteIInv
<1>4. CASE fclose
  <2>1. TypeOK'
    BY <1>1, <1>4, EmptyStream DEF IInv, TypeOK, fclose, Answer
  <2>2. LostIsReported'
    BY <1>4, NowEmpty DEF IInv, LostIsReported, fclose
  <2>. QED BY <1>4, <2>1, <2>2, NowEmpty DEF IInv, fclose
<1>5. CASE fopen
  <2>1. stream' = Empty
    BY <1>5 DEF IInv, BufferAgrees, fopen
  <2>2. TypeOK'
    BY <1>5 DEF IInv, TypeOK, fopen, Answer
  <2>3. LostIsReported'
    BY <1>5, <2>1, NowEmpty DEF LostIsReported, fopen
  <2>. QED BY <2>1, <2>2, <2>3, NowEmpty DEF IInv
<1>6. CASE WriteFails
  <2>1. TypeOK'
    <3>1. faults' \in 0 .. MaxFaults
      BY <1>6, SectorAssumption DEF IInv, TypeOK, WriteFails
    <3>2. open' \in BOOLEAN
      BY <1>6 DEF WriteFails
    <3>. QED BY <1>6, <3>1, <3>2, EmptyStream DEF IInv, TypeOK, WriteFails, Failed, Answer
  <2>. QED BY <1>6, <2>1, NowEmpty DEF IInv, LostIsReported, WriteFails
<1>7. CASE ReadFails
  <2>1. TypeOK'
    <3>1. faults' \in 0 .. MaxFaults
      BY <1>7, SectorAssumption DEF IInv, TypeOK, ReadFails
    <3>2. open' \in BOOLEAN
      BY <1>7 DEF ReadFails
    <3>. QED BY <1>1, <1>7, <3>1, <3>2, EmptyStream DEF IInv, TypeOK, ReadFails, Failed, Answer
  <2>. QED BY <1>7, <2>1, NowEmpty DEF IInv, LostIsReported, ReadFails
<1>8. CASE Kill
  <2>1. TypeOK'
    BY <1>8, EmptyStream DEF IInv, TypeOK, Kill
  <2>. QED BY <1>8, <2>1, NowEmpty DEF IInv, LostIsReported, Kill
<1>9. CASE UNCHANGED vars
  BY <1>9 DEF vars, IInv, TypeOK, BufferAgrees, LostIsReported, written
<1>. QED BY <1>2, <1>3, <1>4, <1>5, <1>6, <1>7, <1>8, <1>9 DEF Next

-----------------------------------------------------------------------------------
(* The results. *)

\* The stream is well formed in every state, whatever fails and when it is killed:
\* a sector that is pending is one of the page in the buffer (src/done/sector.c).
THEOREM StreamTyping == Spec => []TypeOK
<1>1. IInv => TypeOK
  BY DEF IInv
<1>. QED BY InitIInv, NextIInv, <1>1, PTL DEF Spec

\* A process that was answered no error, by fclose least of all, has all its writes
\* in the image (src/done/sector.c:20-32, mount.c:153): ignoring what fwrite answers
\* loses nothing silently.
THEOREM NothingLostSilently == Spec => []LostIsReported
<1>1. IInv => LostIsReported
  BY DEF IInv
<1>. QED BY InitIInv, NextIInv, <1>1, PTL DEF Spec

\* sector.c on its stream implements a disk that is one write late, the one that
\* the processes of U6fs run on (image and disk there, view and medium here).
THEOREM LazyRefinement == Spec => LazySpec
<1>1. Init => Lazy!LInit
  BY EmptyStream DEF Init, Lazy!LInit, written, Answer, ERR_NONE, Lazy!ERR_NONE
<1>2. IInv /\ [Next]_vars => [Lazy!LNext]_<<file, written, answer>>
  <2>. SUFFICES ASSUME IInv, [Next]_vars
                PROVE  [Lazy!LNext]_<<file, written, answer>>
    OBVIOUS
  <2>. USE DEF ERR_NONE, Lazy!ERR_NONE, ERR_IO, Lazy!ERR_IO
  <2>1. ASSUME NEW s \in Sectors, sector_read(s) PROVE Lazy!LNext
    <3>1. Lazy!Read(s)
      BY <2>1, ReadIInv DEF sector_read, Lazy!Read, Lazy!Behind, Answer
    <3>. QED BY <3>1 DEF Lazy!LNext
  <2>2. ASSUME NEW s \in Sectors, NEW v \in Contents, sector_write(s, v) PROVE Lazy!LNext
    <3>1. Lazy!Write(s, v)
      BY <2>2, WriteIInv DEF sector_write, Lazy!Write, Lazy!Behind, Answer
    <3>. QED BY <3>1 DEF Lazy!LNext
  <2>3. CASE fclose
    BY <2>3, NowEmpty DEF fclose, Lazy!LNext, Lazy!Settle, Lazy!Behind, Answer
  <2>4. CASE fopen
    <3>1. stream = Empty /\ stream' = Empty
      BY <2>4 DEF IInv, BufferAgrees, fopen
    <3>2. written = file
      BY <3>1, EmptyStream DEF written
    <3>. QED BY <2>4, <3>1, <3>2, NowEmpty
         DEF fopen, Lazy!LNext, Lazy!Settle, Lazy!Behind, Answer
  <2>5. CASE WriteFails
    BY <2>5, NowEmpty DEF WriteFails, Failed, Answer, Lazy!LNext, Lazy!Settle
  <2>6. CASE ReadFails
    BY <2>6, NowEmpty DEF ReadFails, Failed, Answer, Lazy!LNext, Lazy!Settle, Lazy!Behind
  <2>7. CASE Kill
    BY <2>7, NowEmpty DEF Kill, Lazy!LNext, Lazy!Die
  <2>8. CASE UNCHANGED vars
    BY <2>8 DEF vars, written
  <2>. QED BY <2>1, <2>2, <2>3, <2>4, <2>5, <2>6, <2>7, <2>8 DEF Next
<1>. QED BY InitIInv, NextIInv, <1>1, <1>2, PTL DEF Spec, LazySpec, Lazy!LSpec, Lazy!lvars
===================================================================================
