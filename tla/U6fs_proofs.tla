---------------------------------- MODULE U6fs_proofs ----------------------------------
(***********************************************************************************)
(* The writing commands, from sound images and within the limits named in          *)
(* U6fsInvariant: the inductive invariant, for every number of inodes, sectors,    *)
(* commands, crashes and disk errors; what it says of the image file; the answers; *)
(* the inodes that are lost; and the implementation of Namespace.                  *)
(***********************************************************************************)
EXTENDS U6Image_proofs

-----------------------------------------------------------------------------------
(* The paths of a command. *)

\* The path given names no file: it is empty or ends with a slash.
Bare == relative_name = ""

\* The two parts of a path given, none of which is too long.
LEMMA PathParts ==
    ASSUME cmd \in Commands, relative_name \notin LongNames
    PROVE  /\ cmd.path \in Seq(Names \union LongNames) /\ cmd.buf \in Seq(Cells)
           /\ cmd.op \in {"mkdir", "add"}
           /\ \/ Bare /\ absolute_name = cmd.path
              \/ /\ relative_name \in Names /\ ~ Bare
                 /\ Len(cmd.path) \in Nat /\ Len(cmd.path) >= 1
                 /\ absolute_name = SubSeq(cmd.path, 1, Len(cmd.path) - 1)
                 /\ relative_name = cmd.path[Len(cmd.path)]
<1>1. /\ cmd.path \in Seq(Names \union LongNames) /\ cmd.buf \in Seq(Cells)
      /\ cmd.op \in {"mkdir", "add"}
  BY CommandsAssumption DEF CommandSet
<1>2. CASE cmd.slash \/ cmd.path = << >>
  BY <1>1, <1>2 DEF relative_name, absolute_name, Bare
<1>3. CASE ~ (cmd.slash \/ cmd.path = << >>)
  <2>1. relative_name = cmd.path[Len(cmd.path)]
        /\ absolute_name = SubSeq(cmd.path, 1, Len(cmd.path) - 1)
    BY <1>3 DEF relative_name, absolute_name, Last, Front
  <2>2. Len(cmd.path) \in Nat /\ Len(cmd.path) >= 1
    BY <1>1, <1>3, EmptySeq
  <2>3. cmd.path[Len(cmd.path)] \in Names \union LongNames
    BY <1>1, <2>2
  <2>. QED BY <1>1, <2>1, <2>2, <2>3, VolumeAssumption DEF Bare
<1>. QED BY <1>2, <1>3

\* The two paths of a command are sequences of components.
LEMMA PathsAreSequences ==
    ASSUME cmd \in Commands, relative_name \notin LongNames
    PROVE  /\ absolute_name \in Seq(Names \union LongNames)
           /\ cmd.path \in Seq(Names \union LongNames)
<1> DEFINE T == Names \union LongNames
<1>1. /\ cmd.path \in Seq(T)
      /\ \/ absolute_name = cmd.path
         \/ absolute_name = SubSeq(cmd.path, 1, Len(cmd.path) - 1)
  BY PathParts
<1> HIDE DEF T
<1>2. SubSeq(cmd.path, 1, Len(cmd.path) - 1) \in Seq(T)
  <2>1. PICK path \in Seq(T) : path = cmd.path
    BY <1>1
  <2>2. \A k \in 1 .. Len(path) - 1 : path[k] \in T
    BY <2>1
  <2>3. SubSeq(path, 1, Len(path) - 1) \in Seq(T)
    BY <2>1
  <2>. QED BY <2>1, <2>3
<1>. QED BY <1>1, <1>2 DEF T

\* What the lookups of direntv6_create answer on a sound image, the one of the
\* directory and the one of the name.
LEMMA CommandLookup ==
    ASSUME NEW d, Sound(d), cmd \in Commands, relative_name \notin LongNames,
           NEW dir, dir = direntv6_dirlookup(d, ROOT_INUMBER, absolute_name)
    PROVE  /\ \/ dir \in Live(d)
              \/ dir = ERR_NO_SUCH_FILE
              \/ /\ dir = ERR_INVALID_DIRECTORY_INODE
                 /\ \E k \in 0 .. Len(cmd.path) :
                       direntv6_dirlookup(d, ROOT_INUMBER, SubSeq(cmd.path, 1, k))
                          \in Live(d) \ Directories(d)
           /\ Bare => direntv6_dirlookup(d, ROOT_INUMBER, cmd.path) = dir
           /\ ~ Bare /\ dir \in Live(d) =>
                 /\ relative_name \in Names
                 /\ direntv6_dirlookup(d, dir, <<relative_name>>) = LookupEntry(d, dir, relative_name)
                 /\ direntv6_dirlookup(d, ROOT_INUMBER, cmd.path) = LookupEntry(d, dir, relative_name)
                 /\ Len(cmd.path) >= 1
                 /\ dir = direntv6_dirlookup(d, ROOT_INUMBER, SubSeq(cmd.path, 1, Len(cmd.path) - 1))
<1> DEFINE T == Names \union LongNames
           r(k) == direntv6_dirlookup(d, ROOT_INUMBER, SubSeq(cmd.path, 1, k))
<1>1. /\ \/ Bare /\ absolute_name = cmd.path
         \/ /\ relative_name \in Names /\ ~ Bare
            /\ Len(cmd.path) >= 1
            /\ absolute_name = SubSeq(cmd.path, 1, Len(cmd.path) - 1)
            /\ relative_name = cmd.path[Len(cmd.path)]
      /\ cmd.path \in Seq(T)
  <2> HIDE DEF T
  <2>. QED BY PathParts DEF T
<1> HIDE DEF T
<1>2. PICK path \in Seq(T) : path = cmd.path
  BY <1>1
<1>3. Len(path) \in Nat /\ SubSeq(path, 1, Len(path)) = path
  BY <1>2
<1>4. PICK n \in 0 .. Len(path) :
         /\ absolute_name = SubSeq(path, 1, n)
         /\ Bare => n = Len(path)
         /\ ~ Bare => /\ n = Len(path) - 1 /\ relative_name = path[n + 1]
                                  /\ relative_name \in Names
  <2>1. CASE Bare /\ absolute_name = cmd.path
    BY <1>2, <1>3, <2>1
  <2>2. CASE /\ relative_name \in Names /\ ~ Bare
             /\ Len(cmd.path) >= 1
             /\ absolute_name = SubSeq(cmd.path, 1, Len(cmd.path) - 1)
             /\ relative_name = cmd.path[Len(cmd.path)]
    <3>1. /\ Len(path) - 1 \in 0 .. Len(path) /\ (Len(path) - 1) + 1 = Len(path)
          /\ absolute_name = SubSeq(path, 1, Len(path) - 1)
          /\ relative_name = path[Len(path)]
      BY <1>2, <1>3, <2>2
    <3>. QED BY <2>2, <3>1
  <2>. QED BY <1>1, <2>1, <2>2
<1>5. dir = r(n) /\ direntv6_dirlookup(d, ROOT_INUMBER, cmd.path) = r(Len(path))
  BY <1>2, <1>3, <1>4
<1>6. \/ r(n) \in Live(d)
      \/ r(n) = ERR_NO_SUCH_FILE
      \/ /\ r(n) = ERR_INVALID_DIRECTORY_INODE
         /\ \E k \in 0 .. n : r(k) \in Live(d) \ Directories(d)
  BY <1>2, PathAnswer
<1>7. \A k \in 0 .. n : k \in 0 .. Len(cmd.path)
  BY <1>2, <1>3, <1>4
<1>8. ASSUME ~ Bare, dir \in Live(d)
      PROVE  /\ relative_name \in Names
             /\ direntv6_dirlookup(d, dir, <<relative_name>>) = LookupEntry(d, dir, relative_name)
             /\ direntv6_dirlookup(d, ROOT_INUMBER, cmd.path) = LookupEntry(d, dir, relative_name)
             /\ Len(cmd.path) >= 1
             /\ dir = r(Len(cmd.path) - 1)
  <2>1. /\ relative_name \in Names /\ relative_name = path[n + 1]
        /\ n \in 0 .. Len(path) - 1 /\ n + 1 = Len(path) /\ n = Len(path) - 1 /\ Len(path) >= 1
    <3>1. relative_name \in Names /\ relative_name = path[n + 1] /\ n = Len(path) - 1
      BY <1>4, <1>8
    <3>2. n \in 0 .. Len(path) /\ Len(path) \in Nat
      BY <1>3, <1>4
    <3>3. n \in 0 .. Len(path) - 1 /\ n + 1 = Len(path) /\ Len(path) >= 1
      <4>1. n = Len(path) - 1
        BY <3>1
      <4>. QED BY <3>2, <4>1
    <3>. QED BY <3>1, <3>3
  <2>2. dir \in Nat
    BY <1>8, LiveIsAnswer
  <2>3. direntv6_dirlookup(d, dir, <<relative_name>>) = LookupEntry(d, dir, relative_name)
    <3>1. PICK name \in Names : name = relative_name
      BY <2>1
    <3> DEFINE one == <<name>>
    <3>2. one \in Seq(Names) /\ Len(one) = 1 /\ one[1] = name
      OBVIOUS
    <3> HIDE DEF one
    <3>3. SubSeq(one, 1, 0) = << >> /\ SubSeq(one, 1, 1) = one
      <4>1. SubSeq(one, 1, Len(one)) = one
        BY <3>2, SubSeqFull
      <4>. QED BY <3>2, <4>1
    <3>4. direntv6_dirlookup(d, dir, << >>) = dir
      BY LookupNothing
    <3>5. 0 \in 0 .. Len(one) - 1 /\ 0 + 1 = 1
      BY <3>2
    <3>6. direntv6_dirlookup(d, dir, SubSeq(one, 1, 0 + 1)) =
            IF direntv6_dirlookup(d, dir, SubSeq(one, 1, 0)) < 0
              THEN direntv6_dirlookup(d, dir, SubSeq(one, 1, 0))
              ELSE LookupEntry(d, direntv6_dirlookup(d, dir, SubSeq(one, 1, 0)), one[0 + 1])
      BY <3>2, <3>5, LookupNext
    <3>7. direntv6_dirlookup(d, dir, one) = LookupEntry(d, dir, name)
      <4>1. direntv6_dirlookup(d, dir, one) =
              IF dir < 0 THEN dir ELSE LookupEntry(d, dir, name)
        BY <3>2, <3>3, <3>4, <3>5, <3>6
      <4>. QED BY <2>2, <4>1
    <3>. QED BY <3>1, <3>7 DEF one
  <2>4. r(n + 1) = IF r(n) < 0 THEN r(n) ELSE LookupEntry(d, r(n), path[n + 1])
    BY <1>2, <2>1, LookupNext
  <2>5. direntv6_dirlookup(d, ROOT_INUMBER, cmd.path) = LookupEntry(d, dir, relative_name)
    <3> HIDE DEF r
    <3>. QED BY <1>5, <2>1, <2>2, <2>4
  <2>6. Len(cmd.path) >= 1 /\ dir = r(Len(cmd.path) - 1)
    <3> HIDE DEF r
    <3>. QED BY <1>2, <1>5, <2>1
  <2>. QED BY <2>1, <2>3, <2>5, <2>6
<1>9. Bare => direntv6_dirlookup(d, ROOT_INUMBER, cmd.path) = dir
  <2> HIDE DEF r
  <2>. QED BY <1>4, <1>5
<1>. QED BY <1>5, <1>6, <1>7, <1>8, <1>9

-----------------------------------------------------------------------------------
(* The steps of a process: what each comes to, and that it keeps the invariant. *)

\* The memory of no process is well typed.
LEMMA NoProcess ==
    /\ InodeBitmap \in BmBlockArray(ROOT_INUMBER, s_isize * InodesPerSector)
    /\ DataBitmap \in BmBlockArray(s_block_start, s_fsize)
    /\ 0 \in InodeNumbers /\ 0 \in 0 .. s_fsize /\ NoFile \in Files
<1>1. 0 \in InodeNumbers /\ 0 \in 0 .. s_fsize
  <2> DEFINE m == InodesPerSector * s_isize
  <2>1. m \in Nat /\ m >= 2
    BY Format, SMTT(30)
  <2>2. 0 \in 0 .. m - 1
    <3> HIDE DEF m
    <3>. QED BY <2>1
  <2>. QED BY <2>2, Format DEF InodeNumbers
<1>2. NoAddr \in [0 .. AddrSmall - 1 -> Word] /\ 0 \in 0 .. MaxSize
  <2>1. 0 \in Word
    BY Format DEF Word
  <2>. QED BY <2>1, Format DEF NoAddr
<1>3. NoFile \in Files
  <2>1. [mode |-> "free", size |-> 0, addr |-> NoAddr] \in Inodes(MaxSize)
    BY <1>2 DEF Inodes, Modes
  <2>. QED BY <1>1, <2>1 DEF NoFile, Files
<1>. QED BY <1>1, <1>3, Windows

\* Where no write is going on, most of the invariant asks for nothing.
LEMMA Quiet ==
    ASSUME pc' \in {"idle", "umount", "exit"}
    PROVE  /\ BitmapsKnow' /\ ParentFound' /\ ChildCreated'
           /\ FileOpen' /\ ContentFits' /\ SectorWritten'
BY DEF BitmapsKnow, Searching, ParentFound, ChildCreated, FileOpen, ContentFits, SectorWritten,
       Entering, Writing

\* A process that has ended leaves a well-typed memory behind.
LEMMA Forgotten ==
    ASSUME Forget, ProcessTyped, ret' = ret, ignored' = ignored, faults' = faults,
           crashes' \in 0 .. MaxCrashes, acked' \subseteq Commands
    PROVE  ProcessTyped'
BY NoProcess DEF Forget, ProcessTyped

\* Mounting fills the bitmaps with all that is in use.
LEMMA MountStep == ASSUME IInv, WithinLimits', NEW c \in Commands, Mount(c) PROVE IInv'
<1>1. /\ Sound(image) /\ Sound(disk) /\ Grown(disk, image) /\ ProcessTyped
      /\ pc = "idle" /\ image = disk
  BY DEF IInv, TypeOK, Synced, Mount
<1>2. /\ fill_bitmaps(image).ret = ERR_NONE
      /\ fill_bitmaps(image).ibm \in BmBlockArray(ROOT_INUMBER, s_isize * InodesPerSector)
      /\ fill_bitmaps(image).fbm \in BmBlockArray(s_block_start, s_fsize)
      /\ Live(image) \subseteq fill_bitmaps(image).ibm.bits
      /\ SectorsInUse(image) \subseteq fill_bitmaps(image).fbm.bits
  BY <1>1, Mounted
<1>3. /\ pc' = "lookup" /\ cmd' = c
      /\ ibm' = fill_bitmaps(image).ibm /\ fbm' = fill_bitmaps(image).fbm
      /\ UNCHANGED <<image, disk, parent, child, fv, found, ret, history>>
  BY <1>2 DEF Mount
<1>4. ProcessTyped'
  BY <1>1, <1>2, <1>3 DEF ProcessTyped, history
<1>5. TypeOK' /\ Sound(image') /\ Sound(disk') /\ Grown(disk', image')
  BY <1>1, <1>3, <1>4 DEF TypeOK, Sound
<1>6. Synced' /\ BitmapsKnow'
  BY <1>1, <1>2, <1>3 DEF Synced, BitmapsKnow, Searching
<1>7. ParentFound' /\ ChildCreated' /\ FileOpen' /\ ContentFits' /\ SectorWritten'
  BY <1>3 DEF ParentFound, ChildCreated, FileOpen, ContentFits, SectorWritten, Entering, Writing
<1>. QED BY <1>3, <1>5, <1>6, <1>7 DEF IInv

\* What the whole of direntv6_create's lookups comes to on a sound image: the process
\* leaves with an error, each for its reason, or has found a directory that has no
\* such entry.
LEMMA LookupOutcome ==
    ASSUME Sound(image), cmd \in Commands, Lookup
    PROVE  \/ /\ pc' = "umount" /\ parent' = parent /\ ret' \in error_codes /\ ret' # ERR_NONE
              /\ ret' = ERR_FILENAME_ALREADY_EXISTS =>
                    direntv6_dirlookup(image, ROOT_INUMBER, cmd.path) \in Live(image)
              /\ ret' = ERR_NO_SUCH_FILE =>
                    direntv6_dirlookup(image, ROOT_INUMBER, absolute_name) = ERR_NO_SUCH_FILE
              /\ ret' = ERR_INVALID_DIRECTORY_INODE =>
                    \E k \in 0 .. Len(cmd.path) :
                       direntv6_dirlookup(image, ROOT_INUMBER, SubSeq(cmd.path, 1, k))
                          \in Live(image) \ Directories(image)
           \/ /\ pc' = "create" /\ ret' = ret
              /\ ~ (cmd.op = "add" /\ Len(cmd.buf) > MAX_SIZE)
              /\ parent' = direntv6_dirlookup(image, ROOT_INUMBER, absolute_name)
              /\ parent' \in Directories(image) /\ ~ Holds(image, parent', relative_name)
              /\ ~ Bare /\ relative_name \in Names
<1>1. CASE cmd.op = "add" /\ Len(cmd.buf) > MAX_SIZE
  <2>1. pc' = "umount" /\ parent' = parent /\ ret' = ERR_BAD_PARAMETER
    BY <1>1 DEF Lookup, Leave
  <2>2. ERR_BAD_PARAMETER \notin {ERR_FILENAME_ALREADY_EXISTS, ERR_NO_SUCH_FILE,
                                  ERR_INVALID_DIRECTORY_INODE}
    BY DEF ERR_NO_SUCH_FILE, ERR_INVALID_DIRECTORY_INODE, ERR_FILENAME_ALREADY_EXISTS,
           ERR_BAD_PARAMETER
  <2>. QED BY <2>1, <2>2, Errors
<1>2. CASE ~ (cmd.op = "add" /\ Len(cmd.buf) > MAX_SIZE) /\ relative_name \in LongNames
  <2>1. pc' = "umount" /\ parent' = parent /\ ret' = ERR_FILENAME_TOO_LONG
    BY <1>2 DEF Lookup, Leave
  <2>2. ERR_FILENAME_TOO_LONG \notin {ERR_FILENAME_ALREADY_EXISTS, ERR_NO_SUCH_FILE,
                                      ERR_INVALID_DIRECTORY_INODE}
    BY DEF ERR_NO_SUCH_FILE, ERR_INVALID_DIRECTORY_INODE, ERR_FILENAME_ALREADY_EXISTS,
           ERR_FILENAME_TOO_LONG
  <2>. QED BY <2>1, <2>2, Errors
<1>3. CASE ~ (cmd.op = "add" /\ Len(cmd.buf) > MAX_SIZE) /\ relative_name \notin LongNames
  <2>1. PICK dir \in {direntv6_dirlookup(image, ROOT_INUMBER, absolute_name)} :
        \E file \in {IF relative_name = "" THEN dir
                     ELSE direntv6_dirlookup(image, dir, <<relative_name>>)} :
                \/ dir < 0 /\ Leave(dir) /\ UNCHANGED parent
                \/ /\ dir >= 0 /\ file # ERR_NO_SUCH_FILE
                   /\ Leave(IF file >= 0 THEN ERR_FILENAME_ALREADY_EXISTS ELSE file)
                   /\ UNCHANGED parent
                \/ /\ dir >= 0 /\ file = ERR_NO_SUCH_FILE
                   /\ pc' = "create" /\ parent' = dir /\ UNCHANGED ret
    BY <1>3 DEF Lookup
  <2>2. dir = direntv6_dirlookup(image, ROOT_INUMBER, absolute_name)
    BY <2>1
  <2> DEFINE Through == \E k \in 0 .. Len(cmd.path) :
                           direntv6_dirlookup(image, ROOT_INUMBER, SubSeq(cmd.path, 1, k))
                              \in Live(image) \ Directories(image)
             last == direntv6_dirlookup(image, ROOT_INUMBER, cmd.path)
             answer == LookupEntry(image, dir, relative_name)
  <2>3. /\ \/ dir \in Live(image) \/ dir = ERR_NO_SUCH_FILE
           \/ dir = ERR_INVALID_DIRECTORY_INODE /\ Through
        /\ Bare => last = dir
        /\ ~ Bare /\ dir \in Live(image) =>
              /\ relative_name \in Names
              /\ direntv6_dirlookup(image, dir, <<relative_name>>) = answer
              /\ last = answer
              /\ Len(cmd.path) >= 1
              /\ dir = direntv6_dirlookup(image, ROOT_INUMBER, SubSeq(cmd.path, 1, Len(cmd.path) - 1))
    <3> HIDE DEF Through, last, answer
    <3>. QED BY <1>3, <2>2, CommandLookup DEF Through, last, answer
  <2>4. PICK file : /\ file = IF Bare THEN dir ELSE direntv6_dirlookup(image, dir, <<relative_name>>)
                    /\ \/ dir < 0 /\ Leave(dir) /\ UNCHANGED parent
                       \/ /\ dir >= 0 /\ file # ERR_NO_SUCH_FILE
                          /\ Leave(IF file >= 0 THEN ERR_FILENAME_ALREADY_EXISTS ELSE file)
                          /\ UNCHANGED parent
                       \/ /\ dir >= 0 /\ file = ERR_NO_SUCH_FILE
                          /\ pc' = "create" /\ parent' = dir /\ UNCHANGED ret
    BY <2>1 DEF Bare
  <2>5. ASSUME dir \in Live(image), ~ Bare, dir \notin Directories(image) PROVE Through
    <3> DEFINE m == Len(cmd.path) - 1
    <3>1. m \in 0 .. Len(cmd.path)
      <4>1. Len(cmd.path) \in Nat
        BY <1>3, PathParts
      <4>. QED BY <2>3, <2>5, <4>1
    <3>2. direntv6_dirlookup(image, ROOT_INUMBER, SubSeq(cmd.path, 1, m)) \in Live(image) \ Directories(image)
      BY <2>3, <2>5
    <3> HIDE DEF m
    <3>. QED BY <3>1, <3>2
  <2> HIDE DEF Through, last, answer
  <2>6. CASE dir \notin Live(image)
    <3>1. dir < 0 /\ dir \in error_codes /\ dir # ERR_NONE
      BY <2>3, <2>6, Errors
    <3>2. pc' = "umount" /\ ret' = dir /\ parent' = parent
      <4>1. ~ (dir >= 0)
        BY <3>1 DEF error_codes
      <4>. QED BY <2>4, <4>1 DEF Leave
    <3>3. dir # ERR_FILENAME_ALREADY_EXISTS
      BY <2>3, <2>6, Errors
    <3>4. dir = ERR_INVALID_DIRECTORY_INODE => Through
      BY <2>3, <2>6, Errors
    <3>. QED BY <2>2, <3>1, <3>2, <3>3, <3>4 DEF Through
  <2>7. CASE dir \in Live(image)
    <3>1. dir \in Nat /\ ~ (dir < 0)
      BY <2>7, LiveIsAnswer
    <3>2. CASE Bare
      <4>1. file = dir /\ last = dir /\ file >= 0 /\ file # ERR_NO_SUCH_FILE
        BY <2>3, <2>4, <3>1, <3>2 DEF ERR_NO_SUCH_FILE
      <4>2. pc' = "umount" /\ ret' = ERR_FILENAME_ALREADY_EXISTS /\ parent' = parent
        BY <2>4, <3>1, <4>1 DEF Leave
      <4>. QED BY <2>7, <4>1, <4>2, Errors DEF last
    <3>3. CASE ~ Bare
      <4>1. file = answer /\ last = answer /\ relative_name \in Names
        BY <2>3, <2>4, <2>7, <3>3
      <4>2. CASE dir \notin Directories(image)
        <5>1. file = ERR_INVALID_DIRECTORY_INODE
          BY <2>7, <4>1, <4>2, EntryAnswer DEF answer
        <5>2. pc' = "umount" /\ ret' = file /\ parent' = parent
          <6>1. ~ (file >= 0) /\ file # ERR_NO_SUCH_FILE
            BY <5>1 DEF ERR_INVALID_DIRECTORY_INODE, ERR_NO_SUCH_FILE
          <6>. QED BY <2>4, <3>1, <6>1 DEF Leave
        <5>3. Through
          BY <2>5, <2>7, <3>3, <4>2
        <5>. QED BY <5>1, <5>2, <5>3, Errors DEF Through
      <4>3. CASE dir \in Directories(image) /\ Holds(image, dir, relative_name)
        <5>1. file \in Live(image)
          BY <4>1, <4>3, EntryAnswer DEF answer
        <5>2. file \in Nat /\ file # ERR_NO_SUCH_FILE
          BY <5>1, LiveIsAnswer DEF ERR_NO_SUCH_FILE
        <5>3. pc' = "umount" /\ ret' = ERR_FILENAME_ALREADY_EXISTS /\ parent' = parent
          BY <2>4, <3>1, <5>2 DEF Leave
        <5>. QED BY <4>1, <5>1, <5>3, Errors DEF last
      <4>4. CASE dir \in Directories(image) /\ ~ Holds(image, dir, relative_name)
        <5>1. file = ERR_NO_SUCH_FILE
          BY <4>1, <4>4, EntryAnswer DEF answer
        <5>2. pc' = "create" /\ parent' = dir /\ ret' = ret
          BY <2>4, <3>1, <5>1
        <5>. QED BY <1>3, <2>2, <3>3, <4>1, <4>4, <5>2
      <4>. QED BY <4>2, <4>3, <4>4
    <3>. QED BY <3>2, <3>3
  <2>. QED BY <2>6, <2>7
<1>. QED BY <1>1, <1>2, <1>3

\* The lookups find a directory without the name, or the process leaves.
LEMMA LookupProgress == ASSUME IInv, WithinLimits', Lookup PROVE IInv'
<1>1. /\ Sound(image) /\ Sound(disk) /\ Grown(disk, image) /\ ProcessTyped /\ WithinLimits
      /\ pc = "lookup" /\ image = disk /\ cmd \in Commands /\ BitmapsKnow
  BY DEF IInv, TypeOK, Synced, Lookup
<1>2. UNCHANGED <<image, disk, cmd, ibm, fbm, child, fv, found, history>>
  BY DEF Lookup
<1>3. parent' \in InodeNumbers /\ ret' \in error_codes \union {ERR_NONE} /\ pc' \in {"umount", "create"}
  <2>1. Directories(image) \subseteq InodeNumbers
    BY DEF Directories, Live
  <2>. QED BY <1>1, <2>1, LookupOutcome DEF ProcessTyped
<1>4. TypeOK' /\ Synced' /\ Sound(image') /\ Sound(disk') /\ Grown(disk', image')
  <2>1. ProcessTyped'
    BY <1>1, <1>2, <1>3 DEF ProcessTyped, history
  <2>. QED BY <1>1, <1>2, <2>1 DEF TypeOK, Sound, Synced
<1>5. CASE pc' = "umount"
  BY <1>1, <1>2, <1>4, <1>5, Quiet DEF IInv
<1>6. CASE pc' # "umount"
  <2>1. /\ pc' = "create" /\ ~ (cmd.op = "add" /\ Len(cmd.buf) > MAX_SIZE)
        /\ parent' \in Directories(image) /\ ~ Holds(image, parent', relative_name)
        /\ relative_name \in Names
    BY <1>1, <1>6, LookupOutcome
  <2>2. BitmapsKnow' /\ ChildCreated' /\ FileOpen' /\ SectorWritten'
    BY <1>1, <1>2, <2>1 DEF BitmapsKnow, Searching, ChildCreated, FileOpen, SectorWritten, Entering, Writing
  <2>3. ParentFound'
    BY <1>2, <2>1 DEF ParentFound, Entering, Writing, relative_name
  <2>4. ContentFits'
    <3>1. SUFFICES ASSUME cmd.op = "add" PROVE Len(cmd.buf) < SectorSize
      BY <1>2, <2>1 DEF ContentFits
    <3>2. CASE cmd.buf = << >>
      BY <3>2, Format
    <3>3. CASE cmd.buf # << >>
      <4>1. Len(cmd.buf) < SectorSize \/ Len(cmd.buf) > MAX_SIZE
        BY <1>1, <3>1, <3>3 DEF WithinLimits
      <4>. QED BY <2>1, <3>1, <4>1
    <3>. QED BY <3>2, <3>3
  <2>. QED BY <1>1, <1>2, <1>4, <2>2, <2>3, <2>4 DEF IInv
<1>. QED BY <1>5, <1>6

\* What filev6_create does: nothing but an error, or a new inode.
LEMMA CreateOutcome ==
    ASSUME Sound(image), ibm \in BmBlockArray(ROOT_INUMBER, s_isize * InodesPerSector),
           Live(image) \subseteq ibm.bits, Create, Small(image')
    PROVE  /\ ibm' \in BmBlockArray(ROOT_INUMBER, s_isize * InodesPerSector)
           /\ \/ /\ pc' = "umount" /\ ret' \in error_codes /\ ret' # ERR_NONE
                 /\ ret' \in {ERR_BITMAP_FULL, ERR_INODE_OUT_OF_RANGE}
                 /\ image' = image /\ child' = child
              \/ /\ pc' = "parent" /\ ret' = ret
                 /\ child' \in InodeNumbers \ {0} /\ child' \notin Live(image)
                 /\ Sound(image') /\ Grown(image, image')
                 /\ Live(image') = Live(image) \union {child'}
                 /\ Directories(image) \subseteq Directories(image')
                 /\ SectorsInUse(image') = SectorsInUse(image)
                 /\ ~ Linked(image', child')
                 /\ \A dir \in Directories(image) : \A name : Holds(image', dir, name) => Holds(image, dir, name)
                 /\ image'.itab[child'].size = 0
                 /\ image'.itab[child'].mode = IF cmd.op = "mkdir" THEN "dir" ELSE "file"
                 /\ \A i \in Live(image) : image'.itab[i] = image.itab[i]
                 /\ image'.data = image.data /\ image'.itab[child'].addr = NoAddr
<1> DEFINE inr == inode_alloc(ibm).ret
           new == [mode |-> IF cmd.op = "mkdir" THEN "dir" ELSE "file", size |-> 0, addr |-> NoAddr]
<1>1. /\ inode_alloc(ibm).bm \in BmBlockArray(ROOT_INUMBER, s_isize * InodesPerSector)
      /\ \/ inr = ERR_BITMAP_FULL
         \/ inr \in (ROOT_INUMBER .. s_isize * InodesPerSector) \ ibm.bits
  BY Windows, InodeAlloc, FindNext
<1>2. /\ ibm' = inode_alloc(ibm).bm
      /\ IF inr \in InodeNumbers \ {0}
           THEN WriteInode(inr, new) /\ child' = inr /\ pc' = "parent" /\ UNCHANGED ret
           ELSE /\ Leave(IF inr < 0 THEN inr ELSE ERR_INODE_OUT_OF_RANGE)
                /\ UNCHANGED <<image, child>>
  BY DEF Create, Takes
<1> HIDE DEF inr, new
<1>3. CASE inr \notin InodeNumbers \ {0}
  <2>1. pc' = "umount" /\ image' = image /\ child' = child
        /\ ret' = IF inr < 0 THEN inr ELSE ERR_INODE_OUT_OF_RANGE
    BY <1>2, <1>3 DEF Leave
  <2>2. ret' \in {ERR_BITMAP_FULL, ERR_INODE_OUT_OF_RANGE}
    <3>1. CASE inr = ERR_BITMAP_FULL
      BY <2>1, <3>1
    <3>2. CASE inr \in (ROOT_INUMBER .. s_isize * InodesPerSector) \ ibm.bits
      <4>1. ~ (inr < 0)
        BY <3>2, Windows DEF ROOT_INUMBER
      <4>. QED BY <2>1, <4>1
    <3>. QED BY <1>1, <3>1, <3>2
  <2>. QED BY <1>1, <1>2, <2>1, <2>2, Errors
<1>4. CASE inr \in InodeNumbers \ {0}
  <2>1. /\ pc' = "parent" /\ ret' = ret /\ child' = inr
        /\ image' = [image EXCEPT !.itab = [image.itab EXCEPT ![inr] = new]]
    BY <1>2, <1>4 DEF WriteInode, inode_write
  <2>2. inr \notin Live(image)
    <3>1. ERR_BITMAP_FULL \notin InodeNumbers
      BY FullIsNoNumber DEF InodeNumbers
    <3>. QED BY <1>1, <1>4, <3>1
  <2>3. /\ image.itab \in [InodeNumbers -> Inodes(MaxSize)]
        /\ image = [itab |-> image.itab, data |-> image.data]
        /\ image.data \in [DOMAIN image.data -> Sectors]
        /\ DOMAIN image.data \subseteq Volume \union {s_fsize}
    BY DEF Sound, Typed
  <2>4. new \in Inodes(MaxSize) /\ new.size = 0 /\ new.mode # "free" /\ new.addr = NoAddr
        /\ new.mode = IF cmd.op = "mkdir" THEN "dir" ELSE "file"
    <3>1. 0 \in Word /\ 0 \in 0 .. MaxSize
      BY Format DEF Word
    <3>2. NoAddr \in [0 .. AddrSmall - 1 -> Word]
      BY <3>1 DEF NoAddr
    <3>. QED BY <3>1, <3>2 DEF new, Inodes, Modes
  <2>5. image' = [itab |-> [image.itab EXCEPT ![inr] = new], data |-> image.data]
    BY <2>1, <2>3
  <2>6. /\ image'.data = image.data /\ image'.itab[inr] = new
        /\ \A i \in InodeNumbers \ {inr} : image'.itab[i] = image.itab[i]
        /\ image'.itab \in [InodeNumbers -> Inodes(MaxSize)]
    BY <1>4, <2>3, <2>4, <2>5
  <2>7. Typed(image')
    BY <2>3, <2>5, <2>6 DEF Typed
  <2>8. /\ Sound(image') /\ Grown(image, image')
        /\ Live(image') = Live(image) \union {inr}
        /\ Directories(image) \subseteq Directories(image')
        /\ SectorsInUse(image') = SectorsInUse(image)
        /\ ~ Linked(image', inr)
        /\ \A dir \in Directories(image) : \A name : Holds(image', dir, name) => Holds(image, dir, name)
    BY <1>4, <2>2, <2>4, <2>6, <2>7, NewInode
  <2>9. \A i \in Live(image) : image'.itab[i] = image.itab[i]
    BY <2>2, <2>6 DEF Live
  <2>. QED BY <1>1, <1>2, <1>4, <2>1, <2>2, <2>4, <2>6, <2>8, <2>9
<1>. QED BY <1>3, <1>4

\* The new inode is in nobody's way.
LEMMA CreateStep == ASSUME IInv, WithinLimits', Create PROVE IInv'
<1>1. /\ Sound(image) /\ ProcessTyped /\ pc = "create" /\ image = disk /\ cmd \in Commands
      /\ BitmapsKnow /\ ParentFound /\ ContentFits
  BY DEF IInv, TypeOK, Synced, Create
<1>2. disk' = image /\ UNCHANGED <<cmd, fbm, parent, fv, found, history>>
  BY DEF Create, Flush
<1>3. /\ Live(image) \subseteq ibm.bits /\ SectorsInUse(image) \subseteq fbm.bits
      /\ parent \in Directories(image) /\ relative_name \in Names
      /\ ~ Holds(image, parent, relative_name)
      /\ ibm \in BmBlockArray(ROOT_INUMBER, s_isize * InodesPerSector)
      /\ cmd.op = "add" => Len(cmd.buf) < SectorSize
  BY <1>1 DEF BitmapsKnow, Searching, ParentFound, ContentFits, ProcessTyped
<1>4. Small(image')
  BY DEF WithinLimits
<1>5. CASE pc' = "umount"
  <2>1. /\ ibm' \in BmBlockArray(ROOT_INUMBER, s_isize * InodesPerSector)
        /\ ret' \in error_codes /\ image' = image /\ child' = child
    BY <1>1, <1>3, <1>4, <1>5, CreateOutcome
  <2>2. ProcessTyped'
    BY <1>1, <1>2, <1>5, <2>1 DEF ProcessTyped, history
  <2>3. TypeOK' /\ Synced' /\ Sound(image') /\ Sound(disk') /\ Grown(disk', image')
    BY <1>1, <1>2, <1>5, <2>1, <2>2, GrownSelf DEF TypeOK, Sound, Synced
  <2>. QED BY <1>1, <1>2, <1>5, <2>3, Quiet DEF IInv
<1>6. CASE pc' # "umount"
  <2>1. /\ ibm' \in BmBlockArray(ROOT_INUMBER, s_isize * InodesPerSector)
        /\ pc' = "parent" /\ ret' = ret
        /\ child' \in InodeNumbers \ {0} /\ child' \notin Live(image)
        /\ Sound(image') /\ Grown(image, image')
        /\ Live(image') = Live(image) \union {child'}
        /\ Directories(image) \subseteq Directories(image')
        /\ SectorsInUse(image') = SectorsInUse(image)
        /\ ~ Linked(image', child')
        /\ \A dir \in Directories(image) : \A name : Holds(image', dir, name) => Holds(image, dir, name)
        /\ image'.itab[child'].size = 0
        /\ image'.itab[child'].mode = IF cmd.op = "mkdir" THEN "dir" ELSE "file"
    BY <1>1, <1>3, <1>4, <1>6, CreateOutcome
  <2>2. ProcessTyped'
    BY <1>1, <1>2, <2>1 DEF ProcessTyped, history
  <2>3. TypeOK' /\ Synced' /\ Sound(image') /\ Sound(disk') /\ Grown(disk', image')
    BY <1>1, <1>2, <2>1, <2>2 DEF TypeOK, Sound, Synced
  <2>4. BitmapsKnow' /\ FileOpen' /\ SectorWritten'
    BY <1>2, <1>3, <2>1 DEF BitmapsKnow, Searching, FileOpen, SectorWritten, Entering, Writing
  <2>5. ParentFound'
    BY <1>2, <1>3, <2>1 DEF ParentFound, relative_name
  <2>6. ChildCreated'
    <3>1. child' # ROOT_INUMBER /\ child' # parent /\ child' \in Live(image')
      BY <1>1, <1>3, <2>1 DEF Sound, Rooted, Directories
    <3>. QED BY <1>2, <2>1, <3>1 DEF ChildCreated, Entering, Writing
  <2>7. ContentFits'
    BY <1>2, <1>3, <2>1 DEF ContentFits
  <2>. QED BY <1>1, <1>2, <2>3, <2>4, <2>5, <2>6, <2>7 DEF IInv
<1>. QED BY <1>5, <1>6

\* A file in use of a sound image is opened without error and can be written to.
LEMMA Started ==
    ASSUME Sound(image), NEW inr \in Live(image), NEW buf, NEW entry \in BOOLEAN,
           StartWriting(inr, buf, entry)
    PROVE  LET i == image.itab[inr]
               f == [inr |-> inr, inode |-> i, buf |-> buf, size |-> i.size, entry |-> entry]
           IN  /\ fv' = f /\ i \in Inodes(MaxSize) /\ i.size \in Nat /\ inr \in InodeNumbers
               /\ i.size % SectorSize = 0 => Continue(f)
               /\ i.size % SectorSize # 0 => pc' = "residual" /\ ret' = ret
<1> DEFINE i == image.itab[inr]
           f == [inr |-> inr, inode |-> i, buf |-> buf, size |-> i.size, entry |-> entry]
<1>1. /\ inr \in InodeNumbers \ {0} /\ i.mode \in {"file", "dir"}
      /\ i.size \in Nat /\ i.size < MAX_SIZE /\ i \in Inodes(MaxSize)
  BY InodeInUse DEF Sound, Typed
<1>2. inode_read(image, inr) = ERR_NONE
  BY <1>1 DEF inode_read
<1>3. ~ (SizeTot(i.size) > MediumSize)
  <2>1. i.size \in 0 .. i.size
    BY <1>1
  <2>2. SizeTot(i.size) \in Nat /\ SizeTot(i.size) <= AddrSmall
    <3> HIDE DEF i
    <3>. QED BY <1>1, <2>1, Slot
  <2> HIDE DEF i
  <2>. QED BY <2>2, Format
<1>4. IF i.size % SectorSize = 0 THEN Continue(f)
      ELSE fv' = f /\ pc' = "residual" /\ UNCHANGED ret
  BY <1>2, <1>3 DEF StartWriting
<1>5. fv' = f
  BY <1>4 DEF Continue
<1>. QED BY <1>1, <1>4, <1>5

\* create_dirent opens the parent and starts to write the entry.
LEMMA ParentOutcome ==
    ASSUME IInv, Parent
    PROVE  LET i == image.itab[parent]
               entry == <<[inr |-> child, name |-> relative_name]>>
           IN  /\ fv' = [inr |-> parent, inode |-> i, buf |-> entry, size |-> i.size, entry |-> TRUE]
               /\ fv' \in Files /\ ret' = ret
               /\ pc' = IF i.size % SectorSize = 0 THEN "sector" ELSE "residual"
<1>1. /\ Sound(image) /\ pc = "parent" /\ parent \in Directories(image) /\ relative_name \in Names
      /\ child \in Live(image) /\ parent \in Live(image)
  BY DEF IInv, Parent, ParentFound, ChildCreated, Directories
<1> DEFINE i == image.itab[parent]
           entry == <<[inr |-> child, name |-> relative_name]>>
           f == [inr |-> parent, inode |-> i, buf |-> entry, size |-> i.size, entry |-> TRUE]
<1>2. /\ fv' = f /\ i \in Inodes(MaxSize) /\ i.size \in Nat /\ parent \in InodeNumbers
      /\ i.size % SectorSize = 0 => Continue(f)
      /\ i.size % SectorSize # 0 => pc' = "residual" /\ ret' = ret
  BY <1>1, Started DEF Parent
<1>3. entry \in Seq(Cells) /\ entry # << >>
  <2>1. child \in Word
    BY <1>1, InodeTableAssumption, Format DEF Live, InodeNumbers, Word
  <2>2. [inr |-> child, name |-> relative_name] \in Cells
    BY <1>1, <2>1 DEF Cells
  <2>. QED BY <2>2
<1>4. pc' = (IF i.size % SectorSize = 0 THEN "sector" ELSE "residual") /\ ret' = ret
  <2>1. CASE i.size % SectorSize = 0
    BY <1>2, <1>3, <2>1 DEF Continue
  <2>2. CASE i.size % SectorSize # 0
    BY <1>2, <2>2
  <2>. QED BY <2>1, <2>2
<1> HIDE DEF i, entry
<1>5. fv' \in Files
  BY <1>2, <1>3 DEF Files
<1>. QED BY <1>2, <1>4, <1>5 DEF i, entry

\* The parent is opened, and the entry handed to filev6_writebytes.
LEMMA ParentStep == ASSUME IInv, WithinLimits', Parent PROVE IInv'
<1>1. /\ Sound(image) /\ ProcessTyped /\ pc = "parent" /\ cmd \in Commands /\ WithinLimits
      /\ BitmapsKnow /\ ParentFound /\ ChildCreated /\ ContentFits
  BY DEF IInv, TypeOK, Parent
<1>2. disk' = image /\ UNCHANGED <<image, cmd, ibm, fbm, parent, child, found, history>>
  BY DEF Parent, Flush
<1>3. /\ SectorsInUse(image) \subseteq fbm.bits
      /\ parent \in Directories(image) /\ relative_name \in Names
      /\ ~ Holds(image, parent, relative_name)
      /\ child \in Live(image) \ {ROOT_INUMBER, parent}
      /\ image.itab[child].size = 0
      /\ image.itab[child].mode = (IF cmd.op = "mkdir" THEN "dir" ELSE "file")
      /\ ~ Linked(image, child)
      /\ cmd.op = "add" => Len(cmd.buf) < SectorSize
      /\ parent \in Live(image)
  BY <1>1 DEF BitmapsKnow, Searching, ParentFound, ChildCreated, ContentFits, Directories
<1> DEFINE i == image.itab[parent]
           entry == <<[inr |-> child, name |-> relative_name]>>
<1>4. /\ fv' = [inr |-> parent, inode |-> i, buf |-> entry, size |-> i.size, entry |-> TRUE]
      /\ fv' \in Files /\ ret' = ret
      /\ pc' = IF i.size % SectorSize = 0 THEN "sector" ELSE "residual"
  BY ParentOutcome
<1>5. cmd.op = "add" /\ i.size % SectorSize = 0 => cmd.buf = << >>
  BY <1>1 DEF WithinLimits
<1> HIDE DEF i
<1>6. fv'.inr = parent /\ fv'.inode = i /\ fv'.buf = entry /\ fv'.size = i.size /\ fv'.entry = TRUE
  BY <1>4
<1> HIDE DEF entry
<1>7. TypeOK' /\ Sound(image') /\ Sound(disk') /\ Grown(disk', image')
  <2>1. ProcessTyped'
    BY <1>1, <1>2, <1>4 DEF ProcessTyped, history
  <2>. QED BY <1>1, <1>2, <2>1, GrownSelf DEF TypeOK, Sound
<1>8. Synced' /\ BitmapsKnow' /\ SectorWritten' /\ ContentFits'
  BY <1>2, <1>3, <1>4 DEF Synced, BitmapsKnow, Searching, SectorWritten, ContentFits, Writing
<1>9. ParentFound' /\ ChildCreated'
  BY <1>2, <1>3, <1>4, <1>6 DEF ParentFound, ChildCreated, Entering, Writing, relative_name
<1>10. FileOpen'
  <2>1. entry = <<[inr |-> child', name |-> relative_name']>>
    BY <1>2 DEF entry, relative_name
  <2>2. pc' \in {"residual", "resinode"} => i.size % SectorSize # 0
    BY <1>4
  <2>3. pc' \notin {"residual", "resinode"} => i.size % SectorSize = 0
    BY <1>4
  <2>4. fv'.inr \in Live(image') /\ fv'.inode = image'.itab[fv'.inr] /\ fv'.size = fv'.inode.size
    BY <1>2, <1>3, <1>6 DEF i
  <2>. QED BY <1>2, <1>5, <1>6, <2>1, <2>2, <2>3, <2>4 DEF FileOpen
<1>. QED BY <1>1, <1>2, <1>7, <1>8, <1>9, <1>10 DEF IInv

\* direntv6_addfile opens the new file and starts to write its content, if any.
LEMMA ContentOutcome ==
    ASSUME IInv, Content
    PROVE  LET i == image.itab[child]
           IN  /\ fv' = [inr |-> child, inode |-> i, buf |-> cmd.buf, size |-> i.size, entry |-> FALSE]
               /\ fv' \in Files /\ child \in Live(image) /\ i.size = 0 /\ cmd.op = "add"
               /\ cmd.buf # << >> => pc' = "sector" /\ ret' = ret
               /\ cmd.buf = << >> => pc' = "umount" /\ ret' = ERR_NONE
<1>1. /\ Sound(image) /\ pc = "content" /\ cmd \in Commands
      /\ child \in Live(image) /\ image.itab[child].size = 0 /\ cmd.op = "add"
  BY DEF IInv, Content, ChildCreated, ContentFits
<1>2. cmd.buf \in Seq(Cells)
  BY <1>1, CommandsAssumption DEF CommandSet
<1> DEFINE i == image.itab[child]
           f == [inr |-> child, inode |-> i, buf |-> cmd.buf, size |-> i.size, entry |-> FALSE]
<1>3. /\ fv' = f /\ i \in Inodes(MaxSize) /\ i.size \in Nat /\ child \in InodeNumbers
      /\ i.size % SectorSize = 0 => Continue(f)
  BY <1>1, Started DEF Content
<1>4. i.size = 0 /\ i.size % SectorSize = 0
  BY <1>1, Format
<1>5. /\ cmd.buf # << >> => pc' = "sector" /\ ret' = ret
      /\ cmd.buf = << >> => pc' = "umount" /\ ret' = ERR_NONE
  BY <1>3, <1>4 DEF Continue, Leave
<1> HIDE DEF i
<1>6. fv' \in Files
  BY <1>2, <1>3 DEF Files
<1>. QED BY <1>1, <1>3, <1>4, <1>5, <1>6 DEF i

\* The new file is opened, and its content handed to filev6_writebytes.
LEMMA ContentStep == ASSUME IInv, WithinLimits', Content PROVE IInv'
<1>1. /\ Sound(image) /\ ProcessTyped /\ pc = "content" /\ cmd \in Commands
      /\ BitmapsKnow /\ ChildCreated /\ ContentFits
  BY DEF IInv, TypeOK, Content
<1>2. disk' = image /\ UNCHANGED <<image, cmd, ibm, fbm, parent, child, found, history>>
  BY DEF Content, Flush
<1>3. /\ child \in Live(image) \ {ROOT_INUMBER, parent}
      /\ image.itab[child].size = 0
      /\ image.itab[child].mode = (IF cmd.op = "mkdir" THEN "dir" ELSE "file")
      /\ cmd.op = "add" /\ Len(cmd.buf) < SectorSize
      /\ cmd.buf # << >> => SectorsInUse(image) \subseteq fbm.bits
  BY <1>1 DEF BitmapsKnow, Searching, ChildCreated, ContentFits
<1> DEFINE i == image.itab[child]
<1>4. /\ fv' = [inr |-> child, inode |-> i, buf |-> cmd.buf, size |-> i.size, entry |-> FALSE]
      /\ fv' \in Files
      /\ cmd.buf # << >> => pc' = "sector" /\ ret' = ret
      /\ cmd.buf = << >> => pc' = "umount" /\ ret' = ERR_NONE
  BY ContentOutcome
<1>5. i.size = 0 /\ i.size % SectorSize = 0
  BY <1>3, Format
<1> HIDE DEF i
<1>6. fv'.inr = child /\ fv'.inode = i /\ fv'.buf = cmd.buf /\ fv'.size = i.size /\ fv'.entry = FALSE
  BY <1>4
<1>7. TypeOK' /\ Sound(image') /\ Sound(disk') /\ Grown(disk', image')
  <2>1. ProcessTyped'
    BY <1>1, <1>2, <1>4 DEF ProcessTyped, history
  <2>. QED BY <1>1, <1>2, <2>1, GrownSelf DEF TypeOK, Sound
<1>8. Synced'
  BY <1>4 DEF Synced
<1>9. CASE cmd.buf = << >>
  BY <1>1, <1>2, <1>4, <1>7, <1>8, <1>9, Quiet DEF IInv
<1>10. CASE cmd.buf # << >>
  <2>1. BitmapsKnow' /\ SectorWritten' /\ ContentFits' /\ ParentFound' /\ ChildCreated'
    BY <1>2, <1>3, <1>4, <1>6, <1>10 DEF BitmapsKnow, Searching, SectorWritten, ContentFits, ParentFound,
       ChildCreated, Entering, Writing
  <2>2. FileOpen'
    <3>1. fv'.inr \in Live(image') /\ fv'.inode = image'.itab[fv'.inr] /\ fv'.size = fv'.inode.size
      BY <1>2, <1>3, <1>6 DEF i
    <3>. QED BY <1>2, <1>3, <1>4, <1>5, <1>6, <1>10, <3>1 DEF FileOpen
  <2>. QED BY <1>1, <1>2, <1>7, <1>8, <2>1, <2>2 DEF IInv
<1>. QED BY <1>9, <1>10

\* Within the limits a file is written in one piece.
LEMMA OnePiece ==
    ASSUME Sound(image), FileOpen, pc \in Writing, fv.buf \in Seq(Cells)
    PROVE  /\ fv.inr \in Live(image) /\ fv.inode = image.itab[fv.inr]
           /\ fv.size = fv.inode.size /\ fv.size \in Nat /\ fv.size < MAX_SIZE
           /\ Len(fv.buf) \in Nat /\ Len(fv.buf) >= 1 /\ Portion = Len(fv.buf)
           /\ SubSeq(fv.buf, 1, Portion) = fv.buf
           /\ SubSeq(fv.buf, Portion + 1, Len(fv.buf)) = << >>
           /\ (fv.size % SectorSize) + Len(fv.buf) <= SectorSize
           /\ \A k \in 1 .. Len(fv.buf) : fv.buf[k] \in Cells
           /\ fv.entry => Len(fv.buf) = 1
<1>1. /\ fv.inr \in Live(image) /\ fv.inode = image.itab[fv.inr]
      /\ fv.size = fv.inode.size
      /\ IF fv.entry
           THEN fv.buf = <<[inr |-> child, name |-> relative_name]>>
           ELSE fv.buf # << >> /\ Len(fv.buf) < SectorSize
      /\ IF pc \in {"residual", "resinode"}
           THEN fv.entry
           ELSE fv.size % SectorSize = 0
  BY DEF FileOpen
<1>2. fv.size \in Nat /\ fv.size < MAX_SIZE
  BY <1>1, InodeInUse DEF Sound
<1> DEFINE n == Len(fv.buf)
           x == fv.size % SectorSize
<1>3. PICK buf \in Seq(Cells) : buf = fv.buf
  OBVIOUS
<1>4. n \in Nat /\ n >= 1 /\ n <= SectorSize /\ (fv.entry => n = 1)
  <2>1. CASE fv.entry
    <3>1. PICK cell : fv.buf = <<cell>>
      BY <1>1, <2>1
    <3>2. Len(<<cell>>) = 1
      OBVIOUS
    <3>3. n = 1
      BY <3>1, <3>2
    <3>. QED BY <3>3, Format
  <2>2. CASE ~ fv.entry
    <3>1. buf # << >> /\ Len(buf) < SectorSize /\ Len(buf) \in Nat
      BY <1>1, <1>3, <2>2
    <3>2. Len(buf) # 0
      BY <3>1, EmptySeq
    <3>. QED BY <1>3, <2>2, <3>1, <3>2, Format
  <2>. QED BY <2>1, <2>2
<1>5. x \in 0 .. SectorSize - 1
  <2>1. fv.size \in Int /\ SectorSize \in Nat \ {0}
    BY <1>2, Format
  <2>. QED BY <2>1, Division
<1> HIDE DEF n, x
<1>6. x + n <= SectorSize
  <2>1. CASE fv.entry
    BY <1>4, <1>5, <2>1, Format
  <2>2. CASE ~ fv.entry
    <3>1. x = 0
      BY <1>1, <2>2 DEF x
    <3>. QED BY <1>4, <3>1, Format
  <2>. QED BY <2>1, <2>2
<1>7. Portion = n
  <2> DEFINE m == SectorSize - x
  <2>1. m \in Int /\ n <= m
    BY <1>4, <1>5, <1>6, Format
  <2>2. Portion = Min({n, m})
    BY DEF Portion, n, x
  <2> HIDE DEF m
  <2>3. Min({n, m}) = n
    BY <1>4, <2>1 DEF Min
  <2>. QED BY <2>2, <2>3
<1>8. SubSeq(buf, 1, Len(buf)) = buf /\ SubSeq(buf, Len(buf) + 1, Len(buf)) = << >>
  <2>1. Len(buf) + 1 \in Int /\ Len(buf) \in Int /\ Len(buf) + 1 > Len(buf)
    OBVIOUS
  <2>. QED BY <2>1, SubSeqFull, SubSeqEmpty
<1>9. \A k \in 1 .. Len(buf) : buf[k] \in Cells
  OBVIOUS
<1>. QED BY <1>1, <1>2, <1>3, <1>4, <1>6, <1>7, <1>8, <1>9 DEF n, x

\* The entry, while it is written.
LEMMA EntryBuffer ==
    ASSUME IInv, pc \in Writing, fv.entry
    PROVE  /\ parent \in Directories(image) /\ parent \in Live(image) /\ fv.inr = parent
           /\ relative_name \in Names
           /\ ~ Holds(image, parent, relative_name)
           /\ child \in Live(image) \ {ROOT_INUMBER, parent}
           /\ image.itab[child].size = 0
           /\ image.itab[child].mode = (IF cmd.op = "mkdir" THEN "dir" ELSE "file")
           /\ ~ Linked(image, child) /\ child \in Live(disk)
           /\ fv.buf[1] = [inr |-> child, name |-> relative_name] /\ Len(fv.buf) = 1
<1>1. /\ parent \in Directories(image) /\ fv.inr = parent /\ relative_name \in Names
      /\ ~ Holds(image, parent, relative_name)
      /\ child \in Live(image) \ {ROOT_INUMBER, parent}
      /\ image.itab[child].size = 0
      /\ image.itab[child].mode = (IF cmd.op = "mkdir" THEN "dir" ELSE "file")
      /\ ~ Linked(image, child) /\ child \in Live(disk)
      /\ fv.buf = <<[inr |-> child, name |-> relative_name]>>
  BY DEF IInv, ParentFound, ChildCreated, FileOpen, Entering
<1>2. PICK cell : cell = [inr |-> child, name |-> relative_name]
  OBVIOUS
<1>3. <<cell>>[1] = cell /\ Len(<<cell>>) = 1
  OBVIOUS
<1>4. parent \in Live(image)
  BY <1>1 DEF Directories
<1>. QED BY <1>1, <1>2, <1>3, <1>4

\* What the write of the last sector does.
LEMMA ResidualOutcome ==
    ASSUME IInv, Residual
    PROVE  LET s == fv.inode.addr[fv.size \div SectorSize]
           IN  /\ pc' = "resinode" /\ fv' = fv /\ ret' = ret /\ disk' = image
               /\ Sound(image') /\ Grown(image, image')
               /\ Live(image') = Live(image) /\ Directories(image') = Directories(image)
               /\ SectorsInUse(image') = SectorsInUse(image)
               /\ \A i : Linked(image', i) <=> Linked(image, i)
               /\ \A dir \in Directories(image) : \A name :
                     Holds(image', dir, name) <=> Holds(image, dir, name)
               /\ image'.itab = image.itab
               /\ image'.data[s][fv.size % SectorSize] = fv.buf[1]
               /\ \A t \in DOMAIN image'.data \ SectorsInUse(image) :
                     t \in DOMAIN image.data /\ image'.data[t] = image.data[t]
<1>1. /\ Sound(image) /\ pc = "residual" /\ pc \in Writing /\ FileOpen /\ fv.buf \in Seq(Cells)
  BY DEF IInv, TypeOK, ProcessTyped, Residual, Writing, Files
<1>2. fv.entry /\ fv.size % SectorSize # 0
  BY <1>1 DEF FileOpen
<1>3. /\ fv.inr \in Live(image) /\ fv.inode = image.itab[fv.inr]
      /\ fv.size = fv.inode.size /\ fv.size \in Nat
      /\ SubSeq(fv.buf, 1, Portion) = fv.buf /\ Len(fv.buf) = 1
  BY <1>1, <1>2, OnePiece
<1> DEFINE s == fv.inode.addr[fv.size \div SectorSize]
           x == fv.size % SectorSize
           new == Overwrite(image.data[s], x, fv.buf)
<1>4. /\ CellSector(image, fv.inode, fv.size) = s
      /\ s \in Numbered \intersect DOMAIN image.data
      /\ \A i \in Live(image) : \A p \in Positions(image, i) :
            Place(image, i, p) = s => p % SectorSize # x
  BY <1>1, <1>2, <1>3, LastSector
<1>5. x \in 0 .. SectorSize - 1
  <2>1. fv.size \in Int /\ SectorSize \in Nat \ {0}
    BY <1>3, Format
  <2>. QED BY <2>1, Division
<1> HIDE DEF s, x
<1>6. s >= 0
  BY <1>4, Format DEF Numbered
<1>7. /\ WriteSector(s, new) /\ pc' = "resinode" /\ fv' = fv /\ ret' = ret /\ disk' = image
  <2>1. PICK t \in {CellSector(image, fv.inode, fv.size)} :
          IF t < 0 THEN Continue(Written(fv.inode)) /\ UNCHANGED image
          ELSE /\ WriteSector(t, Overwrite(image.data[t], fv.size % SectorSize,
                                           SubSeq(fv.buf, 1, Portion)))
               /\ pc' = "resinode" /\ UNCHANGED <<fv, ret>>
    BY DEF Residual
  <2>2. t = s /\ ~ (t < 0)
    <3>1. t = s
      BY <1>4, <2>1
    <3>. QED BY <1>4, <1>6, <3>1, Format DEF Numbered
  <2>3. disk' = image
    BY DEF Residual, Flush
  <2>. QED BY <1>3, <2>1, <2>2, <2>3 DEF x
<1>8. image.data[s] \in Sectors
  BY <1>1, <1>4 DEF Sound, Typed
<1>9. /\ new \in Sectors /\ new[x] = fv.buf[1]
      /\ \A k \in 0 .. SectorSize - 1 : k # x => new[k] = image.data[s][k]
  <2>1. PICK buf \in Seq(Cells) : buf = fv.buf
    BY <1>1
  <2>2. PICK old \in Sectors : old = image.data[s]
    BY <1>8
  <2>3. x \in Nat /\ x + Len(buf) <= SectorSize /\ Len(buf) = 1
    <3>1. Len(buf) = 1
      BY <1>3, <2>1
    <3>. QED BY <1>5, <3>1, Format
  <2>4. /\ Overwrite(old, x, buf) \in Sectors
        /\ \A k \in 0 .. SectorSize - 1 :
              k \notin x .. x + Len(buf) - 1 => Overwrite(old, x, buf)[k] = old[k]
        /\ \A k \in 1 .. Len(buf) : Overwrite(old, x, buf)[x + k - 1] = buf[k]
    BY <2>3, Overwritten
  <2>5. new = Overwrite(old, x, buf)
    BY <2>1, <2>2
  <2> HIDE DEF new
  <2>6. 1 \in 1 .. Len(buf) /\ x + 1 - 1 = x /\ x .. x + Len(buf) - 1 = {x}
    BY <2>3
  <2>. QED BY <2>1, <2>2, <2>4, <2>5, <2>6
<1> HIDE DEF new
<1>10. /\ image'.itab = image.itab /\ DOMAIN image'.data = DOMAIN image.data \union {s}
       /\ image'.data[s] = new
       /\ \A t \in DOMAIN image.data \ {s} : image'.data[t] = image.data[t]
       /\ Typed(image')
  <2>1. /\ image = [itab |-> image.itab, data |-> image.data]
        /\ image.itab \in [InodeNumbers -> Inodes(MaxSize)]
        /\ image.data \in [DOMAIN image.data -> Sectors]
        /\ DOMAIN image.data \subseteq Volume \union {s_fsize}
    BY <1>1 DEF Sound, Typed
  <2> DEFINE data == [x_ \in DOMAIN image.data \union {s} |-> IF x_ = s THEN new ELSE image.data[x_]]
  <2>2. image' = [itab |-> image.itab, data |-> data]
    BY <1>7, <2>1 DEF WriteSector
  <2>3. /\ DOMAIN data = DOMAIN image.data \union {s} /\ data[s] = new
        /\ \A t \in DOMAIN image.data \ {s} : data[t] = image.data[t]
    OBVIOUS
  <2>4. data \in [DOMAIN data -> Sectors]
    BY <1>9, <2>1
  <2>5. DOMAIN data \subseteq Volume \union {s_fsize}
    BY <1>4, <2>1
  <2> HIDE DEF data
  <2>. QED BY <2>1, <2>2, <2>3, <2>4, <2>5 DEF Typed
<1>11. ASSUME NEW i \in Live(image), NEW p \in Positions(image, i), Place(image, i, p) = s
       PROVE  image'.data[s][p % SectorSize] = image.data[s][p % SectorSize]
  <2>1. p % SectorSize # x
    BY <1>4, <1>11
  <2>2. p % SectorSize \in 0 .. SectorSize - 1
    <3>1. p \in Int /\ SectorSize \in Nat \ {0}
      BY <1>1, InodeInUse, Format DEF Sound
    <3>. QED BY <3>1, Division
  <2>. QED BY <1>9, <1>10, <2>1, <2>2
<1>12. /\ Sound(image') /\ Grown(image, image')
       /\ Live(image') = Live(image) /\ Directories(image') = Directories(image)
       /\ SectorsInUse(image') = SectorsInUse(image)
       /\ \A i : Linked(image', i) <=> Linked(image, i)
       /\ \A dir \in Directories(image) : \A name :
             Holds(image', dir, name) <=> Holds(image, dir, name)
  BY <1>1, <1>4, <1>10, <1>11, NewData
<1>13. s \in SectorsInUse(image)
  <2>1. fv.size - 1 \in Positions(image, fv.inr) /\ Place(image, fv.inr, fv.size - 1) = s
    BY <1>1, <1>2, <1>3, LastSector DEF s
  <2>. QED BY <1>3, <2>1, SectorInUse
<1>14. \A t \in DOMAIN image'.data \ SectorsInUse(image) :
          t \in DOMAIN image.data /\ image'.data[t] = image.data[t]
  BY <1>10, <1>13
<1>. QED BY <1>7, <1>9, <1>10, <1>12, <1>14 DEF s, x

\* Filling up the last sector of the parent changes nothing that is there.
LEMMA ResidualStep == ASSUME IInv, WithinLimits', Residual PROVE IInv'
<1>1. /\ Sound(image) /\ ProcessTyped /\ pc = "residual" /\ pc \in Writing /\ cmd \in Commands
      /\ BitmapsKnow /\ FileOpen /\ ContentFits
  BY DEF IInv, TypeOK, Residual, Writing
<1>2. /\ fv.entry /\ fv.size % SectorSize # 0
      /\ fv.inr \in Live(image) /\ fv.inode = image.itab[fv.inr] /\ fv.size = fv.inode.size
      /\ fv.buf = <<[inr |-> child, name |-> relative_name]>>
      /\ SectorsInUse(image) \subseteq fbm.bits
      /\ cmd.op = "add" => Len(cmd.buf) < SectorSize
  BY <1>1 DEF FileOpen, BitmapsKnow, Searching, ContentFits
<1>3. UNCHANGED <<cmd, ibm, fbm, parent, child, found, history>>
  BY DEF Residual
<1> DEFINE s == fv.inode.addr[fv.size \div SectorSize]
<1>4. /\ pc' = "resinode" /\ fv' = fv /\ ret' = ret /\ disk' = image
      /\ Sound(image') /\ Grown(image, image')
      /\ Live(image') = Live(image) /\ Directories(image') = Directories(image)
      /\ SectorsInUse(image') = SectorsInUse(image)
      /\ \A i : Linked(image', i) <=> Linked(image, i)
      /\ \A dir \in Directories(image) : \A name :
            Holds(image', dir, name) <=> Holds(image, dir, name)
      /\ image'.itab = image.itab
      /\ image'.data[s][fv.size % SectorSize] = fv.buf[1]
  BY ResidualOutcome
<1> HIDE DEF s
<1>5. /\ parent \in Directories(image) /\ fv.inr = parent
      /\ relative_name \in Names
      /\ ~ Holds(image, parent, relative_name)
      /\ child \in Live(image) \ {ROOT_INUMBER, parent}
      /\ image.itab[child].size = 0
      /\ image.itab[child].mode = (IF cmd.op = "mkdir" THEN "dir" ELSE "file")
      /\ ~ Linked(image, child)
  BY <1>1, <1>2, EntryBuffer
<1>6. TypeOK' /\ Sound(image') /\ Sound(disk') /\ Grown(disk', image')
  <2>1. ProcessTyped'
    BY <1>1, <1>3, <1>4 DEF ProcessTyped, history
  <2>. QED BY <1>1, <1>4, <2>1 DEF TypeOK, Sound
<1>7. Synced' /\ BitmapsKnow' /\ ContentFits'
  BY <1>2, <1>3, <1>4 DEF Synced, BitmapsKnow, Searching, ContentFits, Writing
<1>8. ParentFound' /\ ChildCreated'
  BY <1>3, <1>4, <1>5 DEF ParentFound, ChildCreated, Entering, Writing, relative_name
<1>9. FileOpen'
  <2>1. fv'.buf = <<[inr |-> child', name |-> relative_name']>>
    BY <1>2, <1>3, <1>4 DEF relative_name
  <2>2. fv'.inr \in Live(image') /\ fv'.inode = image'.itab[fv'.inr] /\ fv'.size = fv'.inode.size
        /\ fv'.entry /\ fv'.inr = parent' /\ fv'.size % SectorSize # 0
    BY <1>2, <1>3, <1>4, <1>5
  <2>. QED BY <1>4, <2>1, <2>2 DEF FileOpen
<1>10. SectorWritten'
  BY <1>4 DEF SectorWritten, s
<1>. QED BY <1>1, <1>3, <1>6, <1>7, <1>8, <1>9, <1>10 DEF IInv

\* filev6_writebytes returns: an entry of `add' is followed by the content, and
\* everything else by umount.
LEMMA WriteIsOver ==
    ASSUME Sound(image), FileOpen, pc \in Writing, fv \in Files,
           NEW i \in Inodes(MaxSize), Continue(Written(i))
    PROVE  /\ fv' \in Files
           /\ \/ pc' = "content" /\ fv.entry /\ cmd.op = "add" /\ ret' = ret
              \/ pc' = "umount" /\ ~ (fv.entry /\ cmd.op = "add") /\ ret' = ERR_NONE
<1>1. /\ SubSeq(fv.buf, Portion + 1, Len(fv.buf)) = << >>
      /\ Portion = Len(fv.buf) /\ Len(fv.buf) \in Nat
  <2>1. fv.buf \in Seq(Cells)
    BY DEF Files
  <2>. QED BY <2>1, OnePiece
<1> DEFINE f == Written(i)
<1>2. /\ f \in Files /\ f.buf = << >> /\ f.entry = fv.entry
  <2>1. f = [fv EXCEPT !.inode = i, !.buf = << >>, !.size = fv.size + Portion]
    BY <1>1 DEF Written
  <2>2. fv.size + Portion \in Nat
    BY <1>1 DEF Files
  <2>3. << >> \in Seq(Cells)
    OBVIOUS
  <2> HIDE DEF f
  <2>. QED BY <2>1, <2>2, <2>3 DEF Files
<1> HIDE DEF f
<1>3. Continue(f)
  BY DEF f
<1>. QED BY <1>2, <1>3 DEF Continue, Leave

\* What the inode that makes the new entry part of the directory does, written behind
\* a last sector that it fills up.
LEMMA ResInodeOutcome ==
    ASSUME IInv, ResInode, Small(image')
    PROVE  /\ disk' = image /\ fv' \in Files
           /\ \/ pc' = "content" /\ cmd.op = "add" /\ ret' = ret
              \/ pc' = "umount" /\ cmd.op # "add" /\ ret' = ERR_NONE
           /\ Sound(image') /\ Grown(image, image')
           /\ Live(image') = Live(image) /\ Directories(image') = Directories(image)
           /\ SectorsInUse(image') \subseteq SectorsInUse(image)
           /\ \A j \in InodeNumbers \ {parent} : image'.itab[j] = image.itab[j]
           /\ Positions(image', parent) \ Positions(image, parent) # {}
           /\ \A p \in Positions(image', parent) \ Positions(image, parent) :
                 Cell(image', parent, p) = [inr |-> child, name |-> relative_name]
           /\ image'.data = image.data /\ image'.itab[parent].addr = image.itab[parent].addr
<1>1. /\ Sound(image) /\ pc = "resinode" /\ pc \in Writing /\ FileOpen /\ SectorWritten
      /\ fv \in Files
  BY DEF IInv, TypeOK, ProcessTyped, ResInode, Writing
<1>2. /\ fv.entry /\ fv.size % SectorSize # 0
      /\ image.data[fv.inode.addr[fv.size \div SectorSize]][fv.size % SectorSize] = fv.buf[1]
  BY <1>1 DEF FileOpen, SectorWritten
<1>3. /\ fv.inr = parent /\ parent \in Live(image) /\ parent \in Directories(image)
      /\ ~ Holds(image, parent, relative_name)
      /\ child \in Live(image) \ {ROOT_INUMBER, parent} /\ ~ Linked(image, child)
      /\ fv.buf[1] = [inr |-> child, name |-> relative_name] /\ Len(fv.buf) = 1
  BY <1>1, <1>2, EntryBuffer
<1> DEFINE old == image.itab[parent]
           size == fv.size
           new == [old EXCEPT !.size = size + 1]
<1>4. /\ fv.inode = old /\ size = old.size /\ size \in Nat /\ size < MAX_SIZE
      /\ Portion = 1 /\ parent \in InodeNumbers /\ old \in Inodes(MaxSize)
  <2>1. fv.buf \in Seq(Cells) /\ fv.inr \in InodeNumbers
    BY <1>1 DEF Files
  <2>2. image.itab[parent] \in Inodes(MaxSize)
    BY <1>1, <1>3, <2>1 DEF Sound, Typed
  <2>. QED BY <1>1, <1>3, <2>1, <2>2, OnePiece
<1>5. Resized = new
  BY <1>4 DEF Resized
<1>6. new \in Inodes(MaxSize) /\ new.size = size + 1 /\ new.addr = old.addr /\ new.mode = old.mode
  <2>1. size + 1 \in 0 .. MaxSize
    <3> HIDE DEF size
    <3>. QED BY <1>4, Format
  <2> HIDE DEF size, old
  <2>. QED BY <1>4, <2>1 DEF Inodes
<1>7. image' = WithInode(image, parent, new)
  BY <1>3, <1>5 DEF ResInode, WriteInode, WithInode
<1> HIDE DEF new
<1>8. /\ Typed(image') /\ image'.data = image.data /\ image'.itab[parent] = new
      /\ \A j \in InodeNumbers \ {parent} : image'.itab[j] = image.itab[j]
  <2>1. Sound(image) /\ parent \in Live(image) /\ new \in Inodes(MaxSize)
    BY <1>1, <1>3, <1>6
  <2>. QED BY <1>7, <2>1, InodeWritten
<1>9. /\ Positions(image, parent) = 0 .. size - 1 /\ Positions(image', parent) = 0 .. size
  <2>1. Positions(image, parent) = 0 .. size - 1
    BY <1>4 DEF Positions
  <2>2. Positions(image', parent) = 0 .. (size + 1) - 1
    BY <1>6, <1>8 DEF Positions
  <2>3. (size + 1) - 1 = size
    BY <1>4
  <2>. QED BY <2>1, <2>2, <2>3
<1>10. \A p : Place(image', parent, p) = Place(image, parent, p)
  BY <1>6, <1>8 DEF Place
<1>11. /\ size - 1 \in Positions(image, parent)
       /\ (size - 1) \div SectorSize = size \div SectorSize
       /\ Place(image, parent, size - 1) = old.addr[size \div SectorSize]
       /\ Place(image, parent, size - 1) \in Numbered \intersect DOMAIN image.data
  <2>1. /\ Sound(image) /\ parent \in Live(image) /\ size \in Nat
        /\ size = image.itab[parent].size /\ size % SectorSize # 0
    BY <1>1, <1>2, <1>3, <1>4
  <2>. QED BY <2>1, LastSector
<1>12. Place(image', parent, size) = Place(image, parent, size - 1)
  BY <1>10, <1>11 DEF Place
<1>13. Cell(image', parent, size) = [inr |-> child, name |-> relative_name]
  BY <1>2, <1>3, <1>4, <1>8, <1>11, <1>12 DEF Cell
<1> HIDE DEF old, size
<1>14. Positions(image', parent) \ Positions(image, parent) = {size}
  BY <1>4, <1>9
<1>15. Positions(image, parent) \subseteq Positions(image', parent)
  BY <1>4, <1>9
<1>16. image'.itab[parent].mode = image.itab[parent].mode
  BY <1>6, <1>8 DEF old
<1>17. /\ [inr |-> child, name |-> relative_name].inr = child
       /\ [inr |-> child, name |-> relative_name].name = relative_name
  OBVIOUS
<1>18. \A p, q \in Positions(image', parent) \ Positions(image, parent) :
                 /\ p = q
                 /\ Cell(image', parent, p).inr \in Live(image) \ {ROOT_INUMBER}
                 /\ ~ Linked(image, Cell(image', parent, p).inr)
                 /\ ~ Holds(image, parent, Cell(image', parent, p).name)
  BY <1>3, <1>13, <1>14, <1>17
<1>19. \A p \in Positions(image', parent) \ Positions(image, parent) :
              /\ Place(image', parent, p) \in Numbered \intersect DOMAIN image.data
              /\ \/ Place(image', parent, p) \notin SectorsInUse(image)
                 \/ \E q \in Positions(image, parent) :
                       /\ p \div SectorSize = q \div SectorSize
                       /\ Place(image', parent, p) = Place(image, parent, q)
  BY <1>11, <1>12, <1>14
<1>20. \A p, q \in Positions(image', parent) \ Positions(image, parent) :
              p \div SectorSize = q \div SectorSize
  BY <1>14
<1>21. /\ Sound(image') /\ Grown(image, image')
       /\ Live(image') = Live(image) /\ Directories(image') = Directories(image)
       /\ SectorsInUse(image') \subseteq SectorsInUse(image) \union
             {Place(image', parent, p) : p \in Positions(image', parent) \ Positions(image, parent)}
  BY <1>1, <1>3, <1>8, <1>10, <1>15, <1>16, <1>18, <1>19, <1>20, Longer
<1>22. SectorsInUse(image') \subseteq SectorsInUse(image)
  <2>1. Place(image', parent, size) \in SectorsInUse(image)
    BY <1>3, <1>11, <1>12, SectorInUse
  <2>. QED BY <1>14, <1>21, <2>1
<1>23. disk' = image
  BY DEF ResInode, Flush
<1>24. /\ fv' \in Files
       /\ \/ pc' = "content" /\ fv.entry /\ cmd.op = "add" /\ ret' = ret
          \/ pc' = "umount" /\ ~ (fv.entry /\ cmd.op = "add") /\ ret' = ERR_NONE
  <2>1. Resized \in Inodes(MaxSize) /\ Continue(Written(Resized))
    BY <1>5, <1>6 DEF ResInode
  <2>. QED BY <1>1, <2>1, WriteIsOver
<1>25. /\ Positions(image', parent) \ Positions(image, parent) # {}
       /\ \A p \in Positions(image', parent) \ Positions(image, parent) :
             Cell(image', parent, p) = [inr |-> child, name |-> relative_name]
  BY <1>13, <1>14
<1>26. image'.itab[parent].addr = image.itab[parent].addr
  BY <1>6, <1>8 DEF old
<1>. QED BY <1>2, <1>8, <1>21, <1>22, <1>23, <1>24, <1>25, <1>26

\* Either inode written, the process goes on with what it may rely on.
LEMMA AfterInode ==
    ASSUME IInv, WithinLimits', pc \in {"resinode", "secinode"},
           UNCHANGED <<cmd, ibm, fbm, parent, child, found, history>>,
           disk' = image, fv' \in Files,
           \/ pc' = "content" /\ fv.entry /\ cmd.op = "add" /\ ret' = ret
           \/ pc' = "umount" /\ ret' = ERR_NONE,
           Sound(image'), Grown(image, image'), Live(image') = Live(image),
           \A j \in InodeNumbers \ {fv.inr} : image'.itab[j] = image.itab[j],
           pc' = "content" /\ cmd.buf # << >> => SectorsInUse(image') \subseteq fbm.bits
    PROVE  IInv'
<1>1. Sound(image) /\ ProcessTyped /\ pc \in Writing /\ cmd \in Commands /\ ContentFits
  BY DEF IInv, TypeOK, Writing
<1>2. TypeOK' /\ Sound(image') /\ Sound(disk') /\ Grown(disk', image')
  <2>1. ProcessTyped'
    BY <1>1 DEF ProcessTyped, history
  <2>. QED BY <1>1, <2>1 DEF TypeOK, Sound
<1>3. Synced'
  BY DEF Synced
<1>4. CASE pc' = "umount"
  BY <1>1, <1>2, <1>3, <1>4, Quiet DEF IInv
<1>5. CASE pc' = "content"
  <2>1. fv.entry /\ cmd.op = "add"
    BY <1>5
  <2>2. /\ fv.inr = parent /\ child \in Live(image) \ {ROOT_INUMBER, parent}
        /\ image.itab[child].size = 0
        /\ image.itab[child].mode = (IF cmd.op = "mkdir" THEN "dir" ELSE "file")
    BY <1>1, <2>1, EntryBuffer
  <2>3. image'.itab[child] = image.itab[child]
    BY <2>2 DEF Live
  <2>4. ChildCreated'
    BY <1>5, <2>2, <2>3 DEF ChildCreated, Entering, Writing
  <2>5. BitmapsKnow' /\ ParentFound' /\ FileOpen' /\ SectorWritten'
    BY <1>5 DEF BitmapsKnow, Searching, ParentFound, FileOpen, SectorWritten, Entering, Writing
  <2>6. ContentFits'
    BY <1>1, <1>5, <2>1 DEF ContentFits
  <2>. QED BY <1>1, <1>2, <1>3, <2>4, <2>5, <2>6 DEF IInv
<1>. QED BY <1>4, <1>5

\* The parent is longer by the entry, and the write is over.
LEMMA ResInodeStep == ASSUME IInv, WithinLimits', ResInode PROVE IInv'
<1>1. pc = "resinode" /\ UNCHANGED <<cmd, ibm, fbm, parent, child, found, history>>
  BY DEF ResInode
<1>2. fv.entry /\ SectorsInUse(image) \subseteq fbm.bits /\ fv.inr = parent
  <2>1. fv.entry /\ SectorsInUse(image) \subseteq fbm.bits
    BY <1>1 DEF IInv, FileOpen, BitmapsKnow, Searching, Writing
  <2>. QED BY <1>1, <2>1 DEF IInv, FileOpen, Writing
<1>3. Small(image')
  BY DEF WithinLimits
<1>4. /\ disk' = image /\ fv' \in Files
      /\ \/ pc' = "content" /\ cmd.op = "add" /\ ret' = ret
         \/ pc' = "umount" /\ cmd.op # "add" /\ ret' = ERR_NONE
      /\ Sound(image') /\ Grown(image, image') /\ Live(image') = Live(image)
      /\ SectorsInUse(image') \subseteq SectorsInUse(image)
      /\ \A j \in InodeNumbers \ {parent} : image'.itab[j] = image.itab[j]
  BY <1>3, ResInodeOutcome
<1>5. SectorsInUse(image') \subseteq fbm.bits
  BY <1>2, <1>4
<1>6. \A j \in InodeNumbers \ {fv.inr} : image'.itab[j] = image.itab[j]
  BY <1>2, <1>4
<1>. QED BY <1>1, <1>2, <1>4, <1>5, <1>6, AfterInode

\* What the write of a new sector does: nothing but the error that there is none, or
\* content in a sector that nothing uses.
LEMMA SectorOutcome ==
    ASSUME IInv, Sector
    PROVE  /\ fbm' \in BmBlockArray(s_block_start, s_fsize) /\ fv' = fv /\ fbm'.bits = fbm.bits
           /\ \/ /\ pc' = "umount" /\ ret' = ERR_BITMAP_FULL
                 /\ image' = image /\ disk' = disk /\ found' = found
              \/ /\ pc' = "secinode" /\ ret' = ret /\ disk' = image
                 /\ found' = bm_find_next(fbm).ret
                 /\ \A t \in DOMAIN image'.data \ {found'} :
                       t \in DOMAIN image.data /\ image'.data[t] = image.data[t]
                 /\ found' \in Numbered \intersect DOMAIN image'.data
                 /\ found' \notin SectorsInUse(image')
                 /\ \A k \in 1 .. Len(fv.buf) : image'.data[found'][k - 1] = fv.buf[k]
                 /\ image'.itab = image.itab
                 /\ Sound(image') /\ Grown(image, image')
                 /\ Live(image') = Live(image) /\ Directories(image') = Directories(image)
                 /\ SectorsInUse(image') = SectorsInUse(image)
                 /\ \A i : Linked(image', i) <=> Linked(image, i)
                 /\ \A dir \in Directories(image) : \A name :
                       Holds(image', dir, name) <=> Holds(image, dir, name)
<1>1. /\ Sound(image) /\ pc = "sector" /\ pc \in Writing /\ FileOpen
      /\ fv.buf \in Seq(Cells) /\ fbm \in BmBlockArray(s_block_start, s_fsize)
      /\ SectorsInUse(image) \subseteq fbm.bits
  BY DEF IInv, TypeOK, ProcessTyped, Sector, Writing, Files, BitmapsKnow, Searching
<1>2. /\ SubSeq(fv.buf, 1, Portion) = fv.buf
      /\ (fv.size % SectorSize) + Len(fv.buf) <= SectorSize /\ fv.size % SectorSize = 0
  BY <1>1, OnePiece DEF FileOpen
<1>3. /\ bm_find_next(fbm).bm \in BmBlockArray(s_block_start, s_fsize)
      /\ bm_find_next(fbm).bm.bits = fbm.bits
      /\ \/ bm_find_next(fbm).ret = ERR_BITMAP_FULL
         \/ bm_find_next(fbm).ret \in (s_block_start .. s_fsize) \ fbm.bits
  BY <1>1, Windows, FindNext
<1>4. fbm' = bm_find_next(fbm).bm /\ UNCHANGED <<cmd, ibm, parent, child, fv, history>>
  BY DEF Sector
<1>5. PICK s \in {bm_find_next(fbm).ret} :
          \/ s < 0 /\ Leave(s) /\ UNCHANGED <<image, disk, found>>
          \/ /\ s >= 0 /\ Flush
             /\ \E g \in Garbage :
                   WriteSector(s, Overwrite([k \in 0 .. SectorSize - 1 |-> g], 0,
                                            SubSeq(fv.buf, 1, Portion)))
             /\ found' = s /\ pc' = "secinode" /\ UNCHANGED ret
  BY DEF Sector
<1>6. CASE s = ERR_BITMAP_FULL
  <2>1. s < 0 /\ ~ (s >= 0)
    BY <1>6 DEF ERR_BITMAP_FULL
  <2>. QED BY <1>3, <1>4, <1>5, <1>6, <2>1 DEF Leave
<1>7. CASE s # ERR_BITMAP_FULL
  <2>1. s \in s_block_start .. s_fsize /\ s \notin fbm.bits /\ s >= 0 /\ ~ (s < 0)
    <3>1. s \in s_block_start .. s_fsize /\ s \notin fbm.bits
      BY <1>3, <1>5, <1>7
    <3>. QED BY <3>1, Format
  <2>2. found' = s /\ pc' = "secinode" /\ ret' = ret /\ disk' = image
    BY <1>5, <2>1 DEF Flush
  <2>3. s \in Numbered /\ s \notin SectorsInUse(image)
    BY <1>1, <2>1 DEF Numbered
  <2>4. PICK g \in Garbage :
           WriteSector(s, Overwrite([k \in 0 .. SectorSize - 1 |-> g], 0, fv.buf))
    BY <1>2, <1>5, <2>1
  <2> DEFINE blank == [k \in 0 .. SectorSize - 1 |-> g]
             new == Overwrite(blank, 0, fv.buf)
  <2>5. new \in Sectors /\ \A k \in 1 .. Len(fv.buf) : new[k - 1] = fv.buf[k]
    <3>1. PICK buf \in Seq(Cells) : buf = fv.buf
      BY <1>1
    <3>2. blank \in Sectors
      BY CommandsAssumption DEF Sectors
    <3> HIDE DEF blank
    <3>3. 0 + Len(buf) <= SectorSize
      BY <1>2, <3>1
    <3>4. /\ Overwrite(blank, 0, buf) \in Sectors
          /\ \A k \in 1 .. Len(buf) : Overwrite(blank, 0, buf)[0 + k - 1] = buf[k]
      BY <3>2, <3>3, Overwritten
    <3>5. \A k \in 1 .. Len(buf) : 0 + k - 1 = k - 1
      OBVIOUS
    <3>. QED BY <3>1, <3>4, <3>5
  <2>6. WriteSector(s, new)
    BY <2>4
  <2> HIDE DEF new
  <2>7. /\ image'.itab = image.itab /\ DOMAIN image'.data = DOMAIN image.data \union {s}
        /\ image'.data[s] = new
        /\ \A t \in DOMAIN image.data \ {s} : image'.data[t] = image.data[t]
        /\ Typed(image')
    <3>1. /\ image = [itab |-> image.itab, data |-> image.data]
          /\ image.itab \in [InodeNumbers -> Inodes(MaxSize)]
          /\ image.data \in [DOMAIN image.data -> Sectors]
          /\ DOMAIN image.data \subseteq Volume \union {s_fsize}
      BY <1>1 DEF Sound, Typed
    <3> DEFINE data == [x \in DOMAIN image.data \union {s} |-> IF x = s THEN new ELSE image.data[x]]
    <3>2. image' = [itab |-> image.itab, data |-> data]
      BY <2>6, <3>1 DEF WriteSector
    <3>3. /\ DOMAIN data = DOMAIN image.data \union {s} /\ data[s] = new
          /\ \A t \in DOMAIN image.data \ {s} : data[t] = image.data[t]
      OBVIOUS
    <3>4. data \in [DOMAIN data -> Sectors]
      BY <2>5, <3>1
    <3>5. DOMAIN data \subseteq Volume \union {s_fsize}
      BY <2>3, <3>1, Format DEF Numbered, Volume
    <3> HIDE DEF data
    <3>. QED BY <3>1, <3>2, <3>3, <3>4, <3>5 DEF Typed
  <2>8. ASSUME NEW i \in Live(image), NEW p \in Positions(image, i), Place(image, i, p) = s
        PROVE  image'.data[s][p % SectorSize] = image.data[s][p % SectorSize]
    <3>1. Place(image, i, p) \in SectorsInUse(image)
      BY SectorInUse
    <3>. QED BY <2>3, <2>8, <3>1
  <2>9. /\ Sound(image') /\ Grown(image, image')
        /\ Live(image') = Live(image) /\ Directories(image') = Directories(image)
        /\ SectorsInUse(image') = SectorsInUse(image)
        /\ \A i : Linked(image', i) <=> Linked(image, i)
        /\ \A dir \in Directories(image) : \A name :
              Holds(image', dir, name) <=> Holds(image, dir, name)
    BY <1>1, <2>3, <2>7, <2>8, NewData
  <2>10. found' \in Numbered \intersect DOMAIN image'.data /\ found' \notin SectorsInUse(image')
         /\ \A k \in 1 .. Len(fv.buf) : image'.data[found'][k - 1] = fv.buf[k]
    BY <2>2, <2>3, <2>5, <2>7, <2>9
  <2>. QED BY <1>3, <1>4, <1>5, <2>2, <2>7, <2>9, <2>10
<1>. QED BY <1>6, <1>7

\* The new sector is nobody's yet.
LEMMA SectorStep == ASSUME IInv, WithinLimits', Sector PROVE IInv'
<1>1. /\ Sound(image) /\ Sound(disk) /\ Grown(disk, image) /\ ProcessTyped /\ cmd \in Commands
      /\ pc = "sector" /\ pc \in Writing /\ FileOpen /\ ContentFits /\ ParentFound /\ ChildCreated
  BY DEF IInv, TypeOK, Sector, Writing
<1>2. UNCHANGED <<cmd, ibm, parent, child, fv, history>>
  BY DEF Sector
<1>4. CASE pc' = "umount"
  <2>1. /\ fbm' \in BmBlockArray(s_block_start, s_fsize)
        /\ ret' = ERR_BITMAP_FULL /\ image' = image /\ disk' = disk /\ found' = found
    BY <1>4, SectorOutcome
  <2>2. ProcessTyped'
    BY <1>1, <1>2, <1>4, <2>1, Errors DEF ProcessTyped, history
  <2>3. TypeOK' /\ Synced' /\ Sound(image') /\ Sound(disk') /\ Grown(disk', image')
    BY <1>1, <1>4, <2>1, <2>2 DEF TypeOK, Sound, Synced
  <2>. QED BY <1>1, <1>2, <1>4, <2>3, Quiet DEF IInv
<1>5. CASE pc' # "umount"
  <2>1. /\ fbm' \in BmBlockArray(s_block_start, s_fsize) /\ pc' = "secinode" /\ ret' = ret
        /\ disk' = image
        /\ found' \in Numbered \intersect DOMAIN image'.data
        /\ found' \notin SectorsInUse(image')
        /\ \A k \in 1 .. Len(fv.buf) : image'.data[found'][k - 1] = fv.buf[k]
        /\ image'.itab = image.itab
        /\ Sound(image') /\ Grown(image, image')
        /\ Live(image') = Live(image) /\ Directories(image') = Directories(image)
        /\ SectorsInUse(image') = SectorsInUse(image)
        /\ \A i : Linked(image', i) <=> Linked(image, i)
        /\ \A dir \in Directories(image) : \A name :
              Holds(image', dir, name) <=> Holds(image, dir, name)
    BY <1>5, SectorOutcome
  <2>2. ProcessTyped'
    <3>1. found' \in 0 .. s_fsize
      BY <2>1, Format DEF Numbered
    <3>. QED BY <1>1, <1>2, <2>1, <3>1 DEF ProcessTyped, history
  <2>3. TypeOK' /\ Synced' /\ Sound(image') /\ Sound(disk') /\ Grown(disk', image')
    BY <1>1, <2>1, <2>2 DEF TypeOK, Sound, Synced
  <2>4. BitmapsKnow'
    BY <2>1 DEF BitmapsKnow, Searching
  <2>5. ParentFound'
    BY <1>1, <1>2, <2>1 DEF ParentFound, Entering, Writing, relative_name
  <2>6. ChildCreated'
    BY <1>1, <1>2, <2>1 DEF ChildCreated, Entering, Writing
  <2>7. ContentFits'
    BY <1>1, <1>2, <2>1 DEF ContentFits, Writing
  <2>8. SectorWritten'
    BY <1>2, <2>1 DEF SectorWritten
  <2>9. FileOpen'
    <3>1. /\ fv.inr \in Live(image) /\ fv.inode = image.itab[fv.inr]
          /\ fv.size = fv.inode.size
          /\ IF fv.entry
               THEN fv.inr = parent /\ fv.buf = <<[inr |-> child, name |-> relative_name]>>
               ELSE /\ cmd.op = "add" /\ fv.inr = child /\ fv.buf = cmd.buf
                    /\ fv.buf # << >> /\ Len(fv.buf) < SectorSize
          /\ fv.size % SectorSize = 0 /\ (fv.entry /\ cmd.op = "add" => cmd.buf = << >>)
      BY <1>1 DEF FileOpen
    <3>. QED BY <1>2, <2>1, <3>1 DEF FileOpen, relative_name
  <2>. QED BY <1>1, <1>2, <2>3, <2>4, <2>5, <2>6, <2>7, <2>8, <2>9 DEF IInv
<1>. QED BY <1>4, <1>5

\* A cell that is appended at a sector boundary keeps its place in the sector.
LEMMA InSector ==
    ASSUME NEW m \in Nat, m % SectorSize = 0, NEW j \in 0 .. SectorSize - 1
    PROVE  (m + j) \div SectorSize = m \div SectorSize /\ (m + j) % SectorSize = j
<1> DEFINE e == SectorSize
<1>1. e \in Nat \ {0} /\ m % e = 0 /\ j \in 0 .. e - 1
  BY Format
<1> HIDE DEF e
<1>2. (m + j) \div e = m \div e /\ (m + j) % e = j
  BY <1>1, InBlock
<1>. QED BY <1>2 DEF e

\* What the inode that makes the new sector part of the file does.
LEMMA SecInodeOutcome ==
    ASSUME IInv, SecInode, Small(image')
    PROVE  /\ disk' = image /\ fv' \in Files
           /\ \/ pc' = "content" /\ fv.entry /\ cmd.op = "add" /\ ret' = ret
              \/ pc' = "umount" /\ ~ (fv.entry /\ cmd.op = "add") /\ ret' = ERR_NONE
           /\ Sound(image') /\ Grown(image, image')
           /\ Live(image') = Live(image) /\ Directories(image') = Directories(image)
           /\ \A j \in InodeNumbers \ {fv.inr} : image'.itab[j] = image.itab[j]
           /\ image'.itab[fv.inr].mode = image.itab[fv.inr].mode
           /\ image'.itab[fv.inr].size = fv.size + Len(fv.buf)
           /\ \A k \in 1 .. Len(fv.buf) :
                 /\ fv.size + k - 1 \in Positions(image', fv.inr)
                 /\ Cell(image', fv.inr, fv.size + k - 1) = fv.buf[k]
           /\ image'.data = image.data
           /\ SectorsInUse(image') \subseteq SectorsInUse(image) \union {found}
           /\ \A k \in 0 .. AddrSmall - 1 :
                 \/ image'.itab[fv.inr].addr[k] = image.itab[fv.inr].addr[k]
                 \/ \E p \in Positions(image', fv.inr) : p \div SectorSize = k
<1> DEFINE inr == fv.inr
           old == image.itab[inr]
           size == fv.size
           n == Len(fv.buf)
           slot == size \div SectorSize
           new == [old EXCEPT !.size = size + n,
                              !.addr = [k \in 0 .. AddrSmall - 1 |-> IF k = slot THEN found ELSE old.addr[k]]]
<1>1. /\ Sound(image) /\ pc = "secinode" /\ pc \in Writing /\ FileOpen /\ SectorWritten
      /\ fv \in Files /\ fv.buf \in Seq(Cells)
  BY DEF IInv, TypeOK, ProcessTyped, SecInode, Writing, Files
<1>2. /\ size % SectorSize = 0
      /\ found \in Numbered \intersect DOMAIN image.data /\ found \notin SectorsInUse(image)
      /\ \A k \in 1 .. n : image.data[found][k - 1] = fv.buf[k]
  BY <1>1 DEF FileOpen, SectorWritten
<1>3. /\ inr \in Live(image) /\ fv.inode = old /\ size = old.size
      /\ size \in Nat /\ size < MAX_SIZE
      /\ n \in Nat /\ n >= 1 /\ Portion = n
      /\ fv.entry => n = 1
  BY <1>1, OnePiece
<1>4. n < SectorSize
  <2>1. CASE fv.entry
    <3>1. n = 1
      BY <1>3, <2>1
    <3> HIDE DEF n
    <3>. QED BY <3>1, Format
  <2>2. CASE ~ fv.entry
    BY <1>1, <2>2 DEF FileOpen
  <2>. QED BY <2>1, <2>2
<1>5. \A j \in 0 .. n : (size + j) \div SectorSize = slot /\ (size + j) % SectorSize = j
  <2>1. SUFFICES ASSUME NEW j \in 0 .. n
                 PROVE  (size + j) \div SectorSize = slot /\ (size + j) % SectorSize = j
    OBVIOUS
  <2>2. j \in 0 .. SectorSize - 1 /\ SectorSize \in Nat \ {0}
    BY <1>3, <1>4, Format
  <2>3. size \in Nat /\ size % SectorSize = 0
    BY <1>2, <1>3
  <2> HIDE DEF inr, old, n, size, new
  <2>. QED BY <2>2, <2>3, InSector
<1>6. Extended = new
  <2>1. size + Portion = size + n /\ (size + n) \div SectorSize = slot
    BY <1>3, <1>5
  <2>2. fv.inode.addr = old.addr
    BY <1>3
  <2> HIDE DEF old, slot, size, n
  <2>. QED BY <1>3, <2>1, <2>2 DEF Extended, size
<1>7. /\ old \in Inodes(MaxSize) /\ inr \in InodeNumbers
  BY <1>1, <1>3 DEF Sound, Typed, Live
<1> HIDE DEF old, slot, size, n
<1>8. found \in Word
  BY <1>2, Format DEF Numbered, Word
<1>9. size + n \in 0 .. MaxSize
  <2>1. size + n <= MaxSize
    <3>1. SectorSize <= MediumSize * SectorSize
      <4>1. MediumSize \in Nat /\ MediumSize >= 1 /\ SectorSize \in Nat
        BY Format
      <4>. QED BY <4>1, SMTT(30)
    <3>2. MediumSize * SectorSize \in Nat
      BY Format, SMTT(30)
    <3>. QED BY <1>3, <1>4, <3>1, <3>2, Format DEF MaxSize
  <2>. QED BY <1>3, <2>1, Format
<1>10. /\ new \in Inodes(MaxSize) /\ new.size = size + n /\ new.mode = old.mode
       /\ \A k \in 0 .. AddrSmall - 1 : new.addr[k] = IF k = slot THEN found ELSE old.addr[k]
  <2> DEFINE addr == [k \in 0 .. AddrSmall - 1 |-> IF k = slot THEN found ELSE old.addr[k]]
  <2>1. old.addr \in [0 .. AddrSmall - 1 -> Word] /\ old.mode \in Modes
    BY <1>7 DEF Inodes
  <2>2. addr \in [0 .. AddrSmall - 1 -> Word]
    BY <1>8, <2>1
  <2>3. \A k \in 0 .. AddrSmall - 1 : addr[k] = IF k = slot THEN found ELSE old.addr[k]
    OBVIOUS
  <2>4. new = [old EXCEPT !.size = size + n, !.addr = addr]
    OBVIOUS
  <2> HIDE DEF addr, new
  <2>5. new = [mode |-> old.mode, size |-> size + n, addr |-> addr]
    BY <1>7, <2>4 DEF Inodes
  <2>6. new \in Inodes(MaxSize)
    BY <1>9, <2>1, <2>2, <2>5 DEF Inodes
  <2>. QED BY <2>3, <2>5, <2>6
<1>11. image' = WithInode(image, inr, new)
  BY <1>6 DEF SecInode, WriteInode, WithInode
<1> HIDE DEF new
<1>12. /\ Typed(image') /\ image'.data = image.data /\ image'.itab[inr] = new
       /\ \A j \in InodeNumbers \ {inr} : image'.itab[j] = image.itab[j]
  BY <1>1, <1>3, <1>10, <1>11, InodeWritten
<1>13. /\ Positions(image, inr) = 0 .. size - 1 /\ Positions(image', inr) = 0 .. size + n - 1
       /\ image'.itab[inr].mode = image.itab[inr].mode
  BY <1>3, <1>10, <1>12 DEF Positions, old
<1>14. size + n < MAX_SIZE
  <2>1. inr \in Live(image')
    BY <1>3, <1>7, <1>13 DEF Live
  <2>. QED BY <1>10, <1>12, <2>1 DEF Small
<1>15. slot \in 0 .. AddrSmall - 1
  <2>1. size \in 0 .. size /\ size < MAX_SIZE /\ size \in Nat
    BY <1>3
  <2>. QED BY <2>1, Slot DEF slot
<1>16. ASSUME NEW p \in Positions(image, inr) PROVE Place(image', inr, p) = Place(image, inr, p)
  <2>1. p \in Nat /\ p \in 0 .. size /\ p # size
    BY <1>3, <1>13
  <2>2. p \div SectorSize \in 0 .. AddrSmall - 1
    BY <1>3, <2>1, Slot
  <2>3. p \div SectorSize # slot
    <3>1. SUFFICES ASSUME p \div SectorSize = slot PROVE FALSE
      OBVIOUS
    <3>2. /\ p = SectorSize * (p \div SectorSize) + (p % SectorSize)
          /\ p % SectorSize \in 0 .. SectorSize - 1
          /\ size = SectorSize * (size \div SectorSize) + (size % SectorSize)
      <4>1. p \in Int /\ size \in Int /\ SectorSize \in Nat \ {0}
        BY <1>3, <2>1, Format
      <4>. QED BY <4>1, Division
    <3> DEFINE b == SectorSize * slot
    <3>3. p = b + (p % SectorSize) /\ size = b
      <4>1. size = b + 0
        BY <1>2, <3>2 DEF slot
      <4>2. b \in Int
        BY <1>15, Format, SMTT(30)
      <4>. QED BY <3>1, <3>2, <4>1, <4>2
    <3> HIDE DEF b
    <3>. QED BY <1>3, <2>1, <3>2, <3>3
  <2>4. Place(image', inr, p) = old.addr[p \div SectorSize]
    BY <1>10, <1>12, <2>2, <2>3 DEF Place
  <2>. QED BY <2>4 DEF Place, old
<1>17. ASSUME NEW p \in Positions(image', inr) \ Positions(image, inr)
       PROVE  /\ p \div SectorSize = slot /\ Place(image', inr, p) = found
              /\ Cell(image', inr, p) = image.data[found][p - size] /\ p - size \in 0 .. n - 1
  <2> DEFINE j == p - size
  <2>1. j \in 0 .. n - 1 /\ j \in 0 .. n /\ p = size + j
    BY <1>3, <1>13
  <2>2. p \div SectorSize = slot /\ p % SectorSize = j
    BY <1>5, <2>1
  <2> HIDE DEF j
  <2>3. Place(image', inr, p) = found
    BY <1>10, <1>12, <1>15, <2>2 DEF Place
  <2>4. Cell(image', inr, p) = image.data[found][j]
    BY <1>12, <2>2, <2>3 DEF Cell
  <2>. QED BY <2>1, <2>2, <2>3, <2>4 DEF j
<1>18. ASSUME inr \in Directories(image),
              NEW p \in Positions(image', inr) \ Positions(image, inr),
              NEW q \in Positions(image', inr) \ Positions(image, inr)
       PROVE  /\ p = q
              /\ Cell(image', inr, p).inr \in Live(image) \ {ROOT_INUMBER}
              /\ ~ Linked(image, Cell(image', inr, p).inr)
              /\ ~ Holds(image, inr, Cell(image', inr, p).name)
  <2>1. fv.entry
    <3>1. SUFFICES ASSUME ~ fv.entry PROVE FALSE
      OBVIOUS
    <3>2. cmd.op = "add" /\ inr = child /\ ChildCreated
      BY <1>1, <3>1 DEF FileOpen, IInv
    <3>3. image.itab[inr].mode = "file"
      BY <1>1, <3>2 DEF ChildCreated
    <3>. QED BY <1>18, <3>3 DEF Directories
  <2>2. /\ inr = parent /\ ~ Holds(image, parent, relative_name)
        /\ child \in Live(image) \ {ROOT_INUMBER, parent} /\ ~ Linked(image, child)
        /\ fv.buf[1] = [inr |-> child, name |-> relative_name]
    BY <1>1, <2>1, EntryBuffer
  <2>3. n = 1 /\ p - size = 0 /\ q - size = 0
    BY <1>3, <1>17, <2>1
  <2>4. p = q
    BY <1>3, <1>13, <2>3
  <2>5. Cell(image', inr, p) = [inr |-> child, name |-> relative_name]
    <3>1. 1 \in 1 .. n /\ 1 - 1 = 0
      BY <2>3
    <3>. QED BY <1>2, <1>17, <2>2, <2>3, <3>1
  <2>6. /\ [inr |-> child, name |-> relative_name].inr = child
        /\ [inr |-> child, name |-> relative_name].name = relative_name
    OBVIOUS
  <2>. QED BY <2>2, <2>4, <2>5, <2>6
<1>19. Positions(image, inr) \subseteq Positions(image', inr)
  BY <1>3, <1>13
<1>20. /\ Sound(image') /\ Grown(image, image')
       /\ Live(image') = Live(image) /\ Directories(image') = Directories(image)
       /\ SectorsInUse(image') \subseteq SectorsInUse(image) \union
             {Place(image', inr, p) : p \in Positions(image', inr) \ Positions(image, inr)}
  <2>1. \A p \in Positions(image, inr) : Place(image', inr, p) = Place(image, inr, p)
    BY <1>16
  <2>2. \A p \in Positions(image', inr) \ Positions(image, inr) :
              /\ Place(image', inr, p) \in Numbered \intersect DOMAIN image.data
              /\ \/ Place(image', inr, p) \notin SectorsInUse(image)
                 \/ \E q \in Positions(image, inr) :
                       /\ p \div SectorSize = q \div SectorSize
                       /\ Place(image', inr, p) = Place(image, inr, q)
    BY <1>2, <1>17
  <2>3. \A p, q \in Positions(image', inr) \ Positions(image, inr) :
           p \div SectorSize = q \div SectorSize
    BY <1>17
  <2>4. inr \in Directories(image) =>
           \A p, q \in Positions(image', inr) \ Positions(image, inr) :
                 /\ p = q
                 /\ Cell(image', inr, p).inr \in Live(image) \ {ROOT_INUMBER}
                 /\ ~ Linked(image, Cell(image', inr, p).inr)
                 /\ ~ Holds(image, inr, Cell(image', inr, p).name)
    BY <1>18
  <2> HIDE DEF inr
  <2>. QED BY <1>1, <1>3, <1>12, <1>13, <1>19, <2>1, <2>2, <2>3, <2>4, Longer
<1>21. ASSUME NEW k \in 1 .. n
       PROVE  /\ size + k - 1 \in Positions(image', inr)
              /\ Cell(image', inr, size + k - 1) = fv.buf[k]
  <2> DEFINE p == size + k - 1
  <2>1. p \in Positions(image', inr) \ Positions(image, inr) /\ p - size = k - 1
    BY <1>3, <1>13
  <2> HIDE DEF p
  <2>2. Cell(image', inr, p) = image.data[found][k - 1]
    BY <1>17, <2>1
  <2>. QED BY <1>2, <2>1, <2>2 DEF p
<1>22. disk' = image
  BY DEF SecInode, Flush
<1>23. /\ fv' \in Files
       /\ \/ pc' = "content" /\ fv.entry /\ cmd.op = "add" /\ ret' = ret
          \/ pc' = "umount" /\ ~ (fv.entry /\ cmd.op = "add") /\ ret' = ERR_NONE
  <2>1. Extended \in Inodes(MaxSize) /\ Continue(Written(Extended))
    BY <1>6, <1>10 DEF SecInode
  <2>. QED BY <1>1, <2>1, WriteIsOver
<1>24. SectorsInUse(image') \subseteq SectorsInUse(image) \union {found}
  BY <1>17, <1>20
<1>25. ASSUME NEW k \in 0 .. AddrSmall - 1
       PROVE  \/ image'.itab[inr].addr[k] = old.addr[k]
              \/ \E p \in Positions(image', inr) : p \div SectorSize = k
  <2>1. CASE k # slot
    BY <1>10, <1>12, <2>1
  <2>2. CASE k = slot
    <3>1. size \in Positions(image', inr)
      BY <1>3, <1>13
    <3>. QED BY <2>2, <3>1 DEF slot
  <2>. QED BY <2>1, <2>2
<1>. QED BY <1>10, <1>12, <1>13, <1>20, <1>21, <1>22, <1>23, <1>24, <1>25 DEF size, n, old

\* The new sector is the file's, and the write is over.
LEMMA SecInodeStep == ASSUME IInv, WithinLimits', SecInode PROVE IInv'
<1>1. pc = "secinode" /\ UNCHANGED <<cmd, ibm, fbm, parent, child, found, history>>
  BY DEF SecInode
<1>2. fv.entry /\ cmd.op = "add" => cmd.buf = << >>
  BY <1>1 DEF IInv, FileOpen, Writing
<1>3. Small(image')
  BY DEF WithinLimits
<1>4. /\ disk' = image /\ fv' \in Files
      /\ \/ pc' = "content" /\ fv.entry /\ cmd.op = "add" /\ ret' = ret
         \/ pc' = "umount" /\ ret' = ERR_NONE
      /\ Sound(image') /\ Grown(image, image') /\ Live(image') = Live(image)
      /\ \A j \in InodeNumbers \ {fv.inr} : image'.itab[j] = image.itab[j]
  BY <1>3, SecInodeOutcome
<1>5. pc' = "content" /\ cmd.buf # << >> => SectorsInUse(image') \subseteq fbm.bits
  BY <1>2, <1>4
<1>. QED BY <1>1, <1>4, <1>5, AfterInode

\* Closing the stream brings the disk up to date.
LEMMA UmountStep == ASSUME IInv, WithinLimits', Umount PROVE IInv'
<1>1. disk' = image /\ pc = "umount" /\ pc' = "exit"
      /\ UNCHANGED <<image, cmd, ibm, fbm, parent, child, fv, found, ret, history>>
  BY DEF Umount, Flush
<1>2. Sound(image') /\ Sound(disk') /\ Grown(disk', image')
  <2>1. Sound(image) /\ Sound(disk) /\ Grown(disk, image)
    BY DEF IInv
  <2>. QED BY <1>1, <2>1, GrownSelf
<1>3. TypeOK'
  <2>1. ProcessTyped'
    BY <1>1 DEF IInv, TypeOK, ProcessTyped, history
  <2>. QED BY <1>2, <2>1 DEF TypeOK, Sound
<1>4. Synced'
  BY <1>1 DEF Synced
<1>5. pc' # "idle" => cmd' \in Commands
  BY <1>1 DEF IInv
<1>. QED BY <1>1, <1>2, <1>3, <1>4, <1>5, Quiet DEF IInv

\* The answer leaves the image as it is.
LEMMA ExitStep == ASSUME IInv, WithinLimits', Exit PROVE IInv'
<1>1. /\ pc = "exit" /\ Forget /\ pc' = "idle"
      /\ acked' = (IF ret = ERR_NONE THEN acked \union {cmd} ELSE acked)
      /\ UNCHANGED <<image, disk, ret, crashes, faults, ignored>>
  BY DEF Exit, Forget
<1>2. /\ Sound(image) /\ Sound(disk) /\ Grown(disk, image) /\ image = disk
      /\ ProcessTyped /\ cmd \in Commands
  BY <1>1 DEF IInv, TypeOK, Synced
<1>3. ProcessTyped'
  <2>1. acked' \subseteq Commands /\ crashes' \in 0 .. MaxCrashes
    BY <1>1, <1>2 DEF ProcessTyped
  <2>. QED BY <1>1, <1>2, <2>1, Forgotten
<1>4. TypeOK' /\ Synced' /\ Sound(image') /\ Sound(disk') /\ Grown(disk', image')
  BY <1>1, <1>2, <1>3 DEF TypeOK, Sound, Synced
<1>. QED BY <1>1, <1>4, Quiet DEF IInv

\* The process that dies of a long name has not touched the disk.
LEMMA NameOverflowStep == ASSUME IInv, WithinLimits', NameOverflow PROVE IInv'
<1>1. /\ pc = "create" /\ Forget /\ pc' = "idle"
      /\ UNCHANGED <<image, disk, ret, crashes, faults, acked, ignored>>
  BY DEF NameOverflow, Forget, history
<1>2. /\ Sound(image) /\ Sound(disk) /\ Grown(disk, image) /\ image = disk /\ ProcessTyped
  BY <1>1 DEF IInv, TypeOK, Synced
<1>3. ProcessTyped'
  <2>1. acked' \subseteq Commands /\ crashes' \in 0 .. MaxCrashes
    BY <1>1, <1>2 DEF ProcessTyped
  <2>. QED BY <1>1, <1>2, <2>1, Forgotten
<1>4. TypeOK' /\ Synced' /\ Sound(image') /\ Sound(disk') /\ Grown(disk', image')
  BY <1>1, <1>2, <1>3 DEF TypeOK, Sound, Synced
<1>. QED BY <1>1, <1>4, Quiet DEF IInv

\* What a process leaves when it dies is the disk, which is sound.
LEMMA CrashStep == ASSUME IInv, WithinLimits', Crash PROVE IInv'
<1>1. /\ crashes < MaxCrashes /\ crashes' = crashes + 1 /\ Forget /\ pc' = "idle"
      /\ image' = disk /\ UNCHANGED <<disk, ret, faults, acked, ignored>>
  BY DEF Crash, Forget
<1>2. Sound(disk) /\ ProcessTyped /\ Grown(disk, disk)
  BY GrownSelf DEF IInv, TypeOK
<1>3. ProcessTyped'
  <2>1. acked' \subseteq Commands /\ crashes' \in 0 .. MaxCrashes
    BY <1>1, <1>2, CommandsAssumption DEF ProcessTyped
  <2>. QED BY <1>1, <1>2, <2>1, Forgotten
<1>4. TypeOK' /\ Synced' /\ Sound(image') /\ Sound(disk') /\ Grown(disk', image')
  BY <1>1, <1>2, <1>3 DEF TypeOK, Sound, Synced
<1>. QED BY <1>1, <1>4, Quiet DEF IInv

\* The inode in memory, resized, is one that fits the table.
LEMMA ResizedFits ==
    ASSUME IInv, pc = "resinode" PROVE Resized \in Inodes(MaxSize)
<1>1. /\ Sound(image) /\ pc \in Writing /\ FileOpen /\ fv \in Files
  BY DEF IInv, TypeOK, ProcessTyped, Writing
<1>2. fv.entry
  BY <1>1 DEF FileOpen
<1>3. /\ fv.inode \in Inodes(MaxSize) /\ fv.size \in Nat /\ fv.size < MAX_SIZE /\ Portion = 1
  <2>1. fv.buf \in Seq(Cells) /\ fv.inode \in Inodes(MaxSize)
    BY <1>1 DEF Files
  <2>2. Len(fv.buf) = 1
    BY <1>1, <1>2, EntryBuffer
  <2>. QED BY <1>1, <2>1, <2>2, OnePiece
<1> DEFINE i == fv.inode
           size == fv.size
<1>4. Resized = [i EXCEPT !.size = size + 1]
  BY <1>3 DEF Resized
<1>5. i \in Inodes(MaxSize) /\ size \in Nat /\ size < MAX_SIZE
  BY <1>3
<1> HIDE DEF i, size
<1>6. size + 1 \in 0 .. MaxSize
  BY <1>5, Format
<1>. QED BY <1>4, <1>5, <1>6 DEF Inodes

\* What an access that fails does to the images and to the process.
LEMMA IoErrorOutcome ==
    ASSUME IInv, IoError
    PROVE  /\ image' = disk' /\ (disk' = disk \/ disk' = image)
           /\ Sound(image') /\ Grown(disk, image')
           /\ ret' \in error_codes \union {ERR_NONE} /\ fv' \in Files
           /\ pc' = "umount" => ret' \in {ERR_NONE, ERR_IO}
           /\ ret' = ERR_NONE => pc \in {"residual", "resinode"}
           /\ pc \in {"residual", "resinode"} => cmd \in ignored'
           /\ ignored \subseteq ignored' /\ faults' = faults + 1
           /\ faults' \in 0 .. MaxFaults /\ ignored' \subseteq Commands
           /\ UNCHANGED <<cmd, ibm, fbm, parent, child, found, crashes, acked>>
           /\ \/ pc = "idle" /\ pc' = "idle"
              \/ pc # "idle" /\ pc' \in {"umount", "exit"}
              \/ pc \in {"residual", "resinode"} /\ pc' = "content" /\ fv.entry /\ cmd.op = "add"
<1>1. /\ Sound(image) /\ Sound(disk) /\ Grown(disk, image) /\ ProcessTyped
      /\ pc # "idle" => cmd \in Commands
  BY DEF IInv, TypeOK
<1>2. /\ image' = disk' /\ (disk' = disk \/ disk' = image)
      /\ Sound(image') /\ Grown(disk, image')
  <2>1. \/ image' = disk /\ disk' = disk
        \/ image' = image /\ disk' = image
    BY DEF IoError, Flush
  <2>2. CASE image' = disk /\ disk' = disk
    BY <1>1, <2>2, GrownSelf
  <2>3. CASE image' = image /\ disk' = image
    BY <1>1, <2>3
  <2>. QED BY <2>1, <2>2, <2>3
<1>3. faults' \in 0 .. MaxFaults
  BY <1>1, CommandsAssumption DEF IoError, ProcessTyped
<1>4. /\ ignored' \subseteq Commands /\ ignored \subseteq ignored' /\ faults' = faults + 1
      /\ pc \in {"residual", "resinode"} => cmd \in ignored'
      /\ UNCHANGED <<cmd, ibm, fbm, parent, child, found, crashes, acked>>
  BY <1>1, CommandsAssumption DEF IoError, ProcessTyped
<1>5. ERR_IO \in error_codes /\ ret \in error_codes \union {ERR_NONE} /\ fv \in Files
  BY <1>1, Errors DEF ProcessTyped
<1>6. CASE pc \in {"residual", "resinode"}
  <2>1. pc \in Writing /\ FileOpen /\ fv.inode \in Inodes(MaxSize)
    BY <1>5, <1>6 DEF IInv, Writing, Files
  <2>2. PICK i \in Inodes(MaxSize) : Continue(Written(i))
    <3>1. CASE pc = "residual"
      BY <2>1, <3>1 DEF IoError
    <3>2. CASE pc = "resinode"
      BY <3>2, ResizedFits DEF IoError
    <3>. QED BY <1>6, <3>1, <3>2
  <2>3. /\ fv' \in Files
        /\ \/ pc' = "content" /\ fv.entry /\ cmd.op = "add" /\ ret' = ret
           \/ pc' = "umount" /\ ret' = ERR_NONE
    BY <1>1, <1>5, <2>1, <2>2, WriteIsOver
  <2>. QED BY <1>2, <1>3, <1>4, <1>5, <1>6, <2>3
<1>7. CASE pc \notin {"residual", "resinode"}
  <2>1. \/ pc = "idle" /\ pc' = "idle" /\ ret' = ERR_IO /\ fv' = fv
        \/ pc # "idle" /\ pc' = "umount" /\ ret' = ERR_IO /\ fv' = fv
        \/ pc # "idle" /\ pc' = "exit" /\ ret' = CloseFailed /\ fv' = fv
    BY <1>7 DEF IoError, Leave
  <2>2. CloseFailed \in error_codes \union {ERR_NONE} /\ CloseFailed # ERR_NONE /\ ERR_IO # ERR_NONE
    BY <1>5, Errors DEF CloseFailed
  <2>. QED BY <1>2, <1>3, <1>4, <1>5, <2>1, <2>2
<1>. QED BY <1>6, <1>7

\* After an error the process sees what is on the disk, with or without the write
\* that was pending.
LEMMA IoErrorStep == ASSUME IInv, WithinLimits', IoError PROVE IInv'
<1>1. /\ Sound(image) /\ Sound(disk) /\ Grown(disk, image) /\ ProcessTyped
      /\ pc # "idle" => cmd \in Commands
  BY DEF IInv, TypeOK
<1>2. /\ image' = disk' /\ (disk' = disk \/ disk' = image)
      /\ Sound(image') /\ Grown(disk, image')
      /\ ret' \in error_codes \union {ERR_NONE} /\ fv' \in Files
      /\ faults' \in 0 .. MaxFaults /\ ignored' \subseteq Commands
      /\ UNCHANGED <<cmd, ibm, fbm, parent, child, found, crashes, acked>>
      /\ \/ pc = "idle" /\ pc' = "idle"
         \/ pc # "idle" /\ pc' \in {"umount", "exit"}
         \/ pc \in {"residual", "resinode"} /\ pc' = "content" /\ fv.entry /\ cmd.op = "add"
  BY IoErrorOutcome
<1>3. ProcessTyped' /\ (pc' # "idle" => cmd' \in Commands)
  BY <1>1, <1>2 DEF ProcessTyped
<1>4. TypeOK' /\ Synced' /\ Sound(image') /\ Sound(disk') /\ Grown(disk', image')
  BY <1>2, <1>3, GrownSelf DEF TypeOK, Sound, Synced
<1>5. CASE pc' \in {"idle", "umount", "exit"}
  BY <1>3, <1>4, <1>5, Quiet DEF IInv
<1>6. CASE pc' \notin {"idle", "umount", "exit"}
  <2>1. pc \in Writing /\ pc \in {"residual", "resinode"} /\ pc' = "content" /\ cmd.op = "add"
    BY <1>2, <1>6 DEF Writing
  <2>2. /\ child \in Live(image) \ {ROOT_INUMBER, parent} /\ child \in Live(disk)
        /\ image.itab[child].size = 0
        /\ image.itab[child].mode = (IF cmd.op = "mkdir" THEN "dir" ELSE "file")
        /\ SectorsInUse(image) \subseteq fbm.bits /\ Len(cmd.buf) < SectorSize
    BY <2>1 DEF IInv, ChildCreated, BitmapsKnow, Searching, ContentFits
  <2>3. /\ disk.itab[child].size = 0 /\ disk.itab[child].mode = image.itab[child].mode
    <3>1. /\ disk.itab[child].size \in Nat
          /\ image.itab[child].size >= disk.itab[child].size
          /\ image.itab[child].mode = disk.itab[child].mode
      BY <1>1, <2>2, InodeInUse DEF Grown, Sound
    <3>. QED BY <2>2, <3>1
  <2>4. SectorsInUse(image') \subseteq fbm.bits
    BY <1>1, <1>2, <2>2, GrownKeeps
  <2>5. ChildCreated'
    <3>1. /\ child \in Live(image') \ {ROOT_INUMBER, parent} /\ child \in Live(disk')
          /\ image'.itab[child].size = 0 /\ image'.itab[child].mode = image.itab[child].mode
      BY <1>2, <2>2, <2>3
    <3>. QED BY <1>2, <2>1, <2>2, <3>1 DEF ChildCreated, Entering, Writing
  <2>6. BitmapsKnow' /\ ParentFound' /\ FileOpen' /\ SectorWritten'
    BY <1>2, <2>1, <2>4 DEF BitmapsKnow, Searching, ParentFound, FileOpen, SectorWritten, Entering, Writing
  <2>7. ContentFits'
    BY <1>2, <2>1, <2>2 DEF ContentFits
  <2>. QED BY <1>3, <1>4, <2>5, <2>6, <2>7 DEF IInv
<1>. QED BY <1>5, <1>6

\* Every step keeps the invariant, as long as it does not leave the limits.
LEMMA NextStep == ASSUME IInv, WithinLimits', [Next]_vars PROVE IInv'
<1>1. CASE Next
  <2>1. CASE \E c \in Commands : Mount(c)
    BY <2>1, MountStep
  <2>2. CASE Process
    BY <2>2, LookupProgress, CreateStep, NameOverflowStep, ParentStep, ResidualStep,
       ResInodeStep, SectorStep, SecInodeStep, ContentStep, UmountStep, ExitStep
    DEF Process
  <2>3. CASE Crash
    BY <2>3, CrashStep
  <2>4. CASE IoError
    BY <2>4, IoErrorStep
  <2>. QED BY <1>1, <2>1, <2>2, <2>3, <2>4 DEF Next
<1>2. CASE UNCHANGED vars
  <2>1. UNCHANGED <<image, disk, pc, cmd, ibm, fbm, parent, child, fv, found, ret>>
        /\ UNCHANGED <<crashes, faults, acked, ignored>>
    BY <1>2 DEF vars, history
  <2>2. ProcessTyped' /\ TypeOK' /\ Sound(image') /\ Sound(disk') /\ Grown(disk', image')
    BY <2>1 DEF IInv, TypeOK, ProcessTyped, Sound
  <2>3. Synced' /\ BitmapsKnow' /\ ParentFound' /\ ChildCreated' /\ SectorWritten'
    BY <2>1 DEF IInv, Synced, BitmapsKnow, Searching, ParentFound, ChildCreated, SectorWritten,
                Entering, Writing, relative_name
  <2>4. FileOpen' /\ ContentFits'
    BY <2>1 DEF IInv, FileOpen, ContentFits, Writing, relative_name
  <2>. QED BY <2>1, <2>2, <2>3, <2>4 DEF IInv
<1>. QED BY <1>1, <1>2

-----------------------------------------------------------------------------------
(* The images stay sound. *)

\* Nothing is wrong at the start.
LEMMA Starts == ASSUME SoundImages, Init, WithinLimits PROVE IInv
<1>1. Sound(image) /\ disk = image /\ pc = "idle"
  BY DEF Init, SoundImages
<1>2. ProcessTyped
  BY NoProcess, CommandsAssumption DEF Init, ProcessTyped
<1>3. TypeOK /\ Sound(disk) /\ Grown(disk, image) /\ Synced
  BY <1>1, <1>2, GrownSelf DEF TypeOK, Sound, Synced
<1>4. BitmapsKnow /\ ParentFound /\ ChildCreated /\ FileOpen /\ ContentFits /\ SectorWritten
  BY <1>1 DEF BitmapsKnow, Searching, ParentFound, ChildCreated, FileOpen, ContentFits, SectorWritten,
     Entering, Writing
<1>. QED BY <1>1, <1>3, <1>4 DEF IInv

\* From sound images, and within the limits, the invariant holds in every state: what
\* a process does between two of its writes, and what is on the disk whenever it dies.
THEOREM InvariantHolds == SoundImages => (Spec /\ []WithinLimits => []IInv)
<1>1. SoundImages /\ Init /\ WithinLimits => IInv
  BY Starts
<1>2. IInv /\ WithinLimits' /\ [Next]_vars => IInv'
  BY NextStep
<1>. QED BY <1>1, <1>2, PTL DEF Spec

\* The images and the memory of every process are what the code's types allow.
THEOREM U6fsTypes == SoundImages => (Spec /\ []WithinLimits => []TypeOK)
<1>1. IInv => TypeOK
  BY DEF IInv
<1>. QED BY <1>1, InvariantHolds, PTL

\* What the checked invariants say of the disk is what a sound image is.
LEMMA SoundDisk ==
    ASSUME Sound(disk)
    PROVE  NoDanglingEntry /\ TreeShaped /\ UniqueNames /\ SectorsApart
<1>1. Allocated = Live(disk) /\ Dirs = Directories(disk)
  BY DEF Allocated, Dirs, Live, Directories
<1>2. ASSUME NEW l \in LiveCells
      PROVE  /\ l[1] \in Live(disk) /\ l[2] \in Positions(disk, l[1]) /\ l = <<l[1], l[2]>>
             /\ SectorOf(l) = Place(disk, l[1], l[2]) /\ SectorOf(l) \in Numbered /\ SectorOf(l) >= 0
             /\ CellOf(l) = Cell(disk, l[1], l[2])
  <2>1. PICK inr \in Live(disk) : l \in {inr} \X (0 .. disk.itab[inr].size - 1)
    BY <1>1 DEF LiveCells
  <2>2. l[1] = inr /\ l[2] \in Positions(disk, inr) /\ l = <<l[1], l[2]>>
    BY <2>1 DEF Positions
  <2>. QED BY <2>1, <2>2, Readable, Format DEF SectorOf, CellOf, Numbered
<1>3. ASSUME NEW l \in Links PROVE l \in LiveCells /\ l[1] \in Directories(disk)
  BY <1>1 DEF Links
<1>4. NoDanglingEntry
  <2>1. ASSUME NEW l \in Links PROVE SectorOf(l) >= 0 /\ CellOf(l).inr \in Allocated
    BY <1>1, <1>2, <1>3 DEF Sound, Named
  <2>. QED BY <2>1 DEF NoDanglingEntry
<1>5. TreeShaped
  <2>1. ASSUME NEW l \in Links PROVE CellOf(l).inr # ROOT_INUMBER
    BY <1>2, <1>3 DEF Sound, Named
  <2>2. ASSUME NEW l \in Links, NEW m \in Links, CellOf(l).inr = CellOf(m).inr PROVE l = m
    <3>1. l[1] = m[1] /\ l[2] = m[2]
      BY <1>2, <1>3, <2>2 DEF Sound, Once
    <3>. QED BY <1>2, <1>3, <3>1
  <2>. QED BY <2>1, <2>2 DEF TreeShaped
<1>6. UniqueNames
  <2>1. ASSUME NEW l \in Links, NEW m \in Links, l[1] = m[1], CellOf(l).name = CellOf(m).name
        PROVE  l = m
    <3>1. l[2] = m[2]
      BY <1>2, <1>3, <2>1 DEF Sound, Unique
    <3>. QED BY <1>2, <1>3, <2>1, <3>1
  <2>. QED BY <2>1 DEF UniqueNames
<1>7. SectorsApart
  <2>1. ASSUME NEW l \in LiveCells, NEW m \in LiveCells, SectorOf(l) = SectorOf(m)
        PROVE  l[1] = m[1] /\ l[2] \div SectorSize = m[2] \div SectorSize
    BY <1>2, <2>1 DEF Sound, Apart
  <2>. QED BY <1>2, <2>1 DEF SectorsApart
<1>. QED BY <1>4, <1>5, <1>6, <1>7

\* No entry names an inode that is not there.
THEOREM NoEntryDangles == SoundImages => (Spec /\ []WithinLimits => []NoDanglingEntry)
<1>1. IInv => NoDanglingEntry
  BY SoundDisk DEF IInv
<1>. QED BY <1>1, InvariantHolds, PTL

\* No inode has two entries, and the root has none.
THEOREM DirectoriesAreATree == SoundImages => (Spec /\ []WithinLimits => []TreeShaped)
<1>1. IInv => TreeShaped
  BY SoundDisk DEF IInv
<1>. QED BY <1>1, InvariantHolds, PTL

\* No directory has two entries of one name.
THEOREM NamesAreUnique == SoundImages => (Spec /\ []WithinLimits => []UniqueNames)
<1>1. IInv => UniqueNames
  BY SoundDisk DEF IInv
<1>. QED BY <1>1, InvariantHolds, PTL

\* No two files share a sector, and every sector of a file has a number of the data bitmap.
THEOREM NoSectorIsShared == SoundImages => (Spec /\ []WithinLimits => []SectorsApart)
<1>1. IInv => SectorsApart
  BY SoundDisk DEF IInv
<1>. QED BY <1>1, InvariantHolds, PTL

\* What one step does to the disk: nothing, or it becomes what the process sees.
LEMMA DiskStep ==
    ASSUME IInv, [Next]_vars
    PROVE  Sound(disk) /\ Sound(image) /\ Grown(disk, image) /\ disk' \in {disk, image}
<1>1. disk' \in {disk, image}
  BY DEF Next, Process, vars, Mount, Lookup, Create, NameOverflow, Parent, Residual, ResInode,
         Sector, SecInode, Content, Umount, Exit, Crash, IoError, Flush
<1>. QED BY <1>1 DEF IInv

\* Files only grow.
THEOREM FilesOnlyGrow == SoundImages => (Spec /\ []WithinLimits => AppendOnly)
<1> DEFINE Grows ==
       \A inr \in Allocated :
          /\ disk'.itab[inr].mode = disk.itab[inr].mode
          /\ disk'.itab[inr].size >= disk.itab[inr].size
          /\ \A p \in 0 .. disk.itab[inr].size - 1 :
                SectorOf(<<inr, p>>) >= 0 =>
                    CellAt(disk', disk'.itab[inr], p) = CellOf(<<inr, p>>)
<1>1. ASSUME IInv, [Next]_vars PROVE Grows
  <2>1. Sound(disk) /\ Sound(disk') /\ Grown(disk, disk')
    BY <1>1, DiskStep, GrownSelf
  <2>2. SUFFICES ASSUME NEW inr \in Live(disk)
                 PROVE  /\ disk'.itab[inr].mode = disk.itab[inr].mode
                        /\ disk'.itab[inr].size >= disk.itab[inr].size
                        /\ \A p \in Positions(disk, inr) :
                              CellAt(disk', disk'.itab[inr], p) = CellAt(disk, disk.itab[inr], p)
    BY DEF Allocated, Live, Positions, CellOf
  <2>3. ASSUME NEW p \in Positions(disk, inr)
        PROVE  CellAt(disk', disk'.itab[inr], p) = CellAt(disk, disk.itab[inr], p)
    <3>1. inr \in Live(disk') /\ p \in Positions(disk', inr) /\ Cell(disk', inr, p) = Cell(disk, inr, p)
      BY <2>1, GrownKeeps DEF Grown
    <3>. QED BY <2>1, <3>1, Readable
  <2>. QED BY <2>1, <2>3 DEF Grown
<1>2. IInv /\ [Next]_vars => [Grows]_disk
  BY <1>1
<1>. QED BY <1>2, InvariantHolds, PTL DEF Spec, AppendOnly

\* Only the lookups answer that a name exists, does not exist or is no directory.
LEMMA OtherAnswers ==
    ASSUME IInv, WithinLimits', Next, ~ Lookup, pc' = "umount"
    PROVE  ret' \in {ERR_NONE, ERR_IO, ERR_BITMAP_FULL, ERR_INODE_OUT_OF_RANGE}
<1>1. /\ Sound(image) /\ Small(image') /\ ProcessTyped
  BY DEF IInv, TypeOK, WithinLimits
<1>2. CASE \E c \in Commands : Mount(c)
  BY <1>2 DEF Mount
<1>3. CASE Create
  <2>1. Live(image) \subseteq ibm.bits /\ ibm \in BmBlockArray(ROOT_INUMBER, s_isize * InodesPerSector)
    BY <1>1, <1>3 DEF IInv, BitmapsKnow, Searching, Create, ProcessTyped
  <2>. QED BY <1>1, <1>3, <2>1, CreateOutcome
<1>4. CASE Parent
  BY <1>4, ParentOutcome
<1>5. CASE Residual
  BY <1>5, ResidualOutcome
<1>6. CASE ResInode
  BY <1>1, <1>6, ResInodeOutcome
<1>7. CASE Sector
  BY <1>1, <1>7, SectorOutcome
<1>8. CASE SecInode
  BY <1>1, <1>8, SecInodeOutcome
<1>9. CASE Content
  BY <1>9, ContentOutcome
<1>10. CASE Umount
  BY <1>10 DEF Umount
<1>11. CASE NameOverflow \/ Exit \/ Crash
  BY <1>11 DEF NameOverflow, Exit, Crash, Forget
<1>12. CASE IoError
  BY <1>12, IoErrorOutcome
<1>. QED BY <1>2, <1>3, <1>4, <1>5, <1>6, <1>7, <1>8, <1>9, <1>10, <1>11, <1>12 DEF Next, Process

\* A refusal is true.
THEOREM RefusalsHold == SoundImages => (Spec /\ []WithinLimits => []RefusalsAreTrue)
<1>1. SoundImages /\ Init => RefusalsAreTrue
  BY DEF Init, RefusalsAreTrue
<1>2. ASSUME IInv, RefusalsAreTrue, WithinLimits', [Next]_vars PROVE RefusalsAreTrue'
  <2>1. CASE UNCHANGED vars
    <3>1. UNCHANGED <<disk, pc, cmd, ret>>
      BY <2>1 DEF vars
    <3>. QED BY <1>2, <3>1 DEF RefusalsAreTrue, InumberOf, Allocated, Dirs, relative_name, absolute_name
  <2>2. CASE Lookup
    <3>1. /\ Sound(image) /\ cmd \in Commands /\ image = disk
      BY <1>2, <2>2 DEF IInv, Synced, Lookup
    <3>2. disk' = disk /\ cmd' = cmd
      BY <2>2 DEF Lookup
    <3>3. Allocated' = Live(disk) /\ Dirs' = Directories(disk)
      BY <3>2 DEF Allocated, Dirs, Live, Directories
    <3>4. SUFFICES ASSUME pc' = "umount"
                   PROVE  /\ ret' = ERR_FILENAME_ALREADY_EXISTS =>
                                direntv6_dirlookup(image, ROOT_INUMBER, cmd.path) \in Live(image)
                          /\ ret' = ERR_NO_SUCH_FILE =>
                                direntv6_dirlookup(image, ROOT_INUMBER, absolute_name) = ERR_NO_SUCH_FILE
                          /\ ret' = ERR_INVALID_DIRECTORY_INODE =>
                                \E k \in 0 .. Len(cmd.path) :
                                   direntv6_dirlookup(image, ROOT_INUMBER, SubSeq(cmd.path, 1, k))
                                      \in Live(image) \ Directories(image)
      BY <3>1, <3>2, <3>3 DEF RefusalsAreTrue, InumberOf, absolute_name
    <3>. QED BY <2>2, <3>1, <3>4, LookupOutcome
  <2>3. CASE Next /\ ~ Lookup
    <3>1. SUFFICES ASSUME pc' = "umount"
                   PROVE  ret' \notin {ERR_FILENAME_ALREADY_EXISTS, ERR_NO_SUCH_FILE,
                                       ERR_INVALID_DIRECTORY_INODE}
      BY DEF RefusalsAreTrue
    <3>2. ret' \in {ERR_NONE, ERR_IO, ERR_BITMAP_FULL, ERR_INODE_OUT_OF_RANGE}
      BY <1>2, <2>3, <3>1, OtherAnswers
    <3>. QED BY <3>2 DEF ERR_NO_SUCH_FILE, ERR_INVALID_DIRECTORY_INODE,
                ERR_FILENAME_ALREADY_EXISTS, ERR_NONE, ERR_IO, ERR_BITMAP_FULL, ERR_INODE_OUT_OF_RANGE
  <2>. QED BY <1>2, <2>1, <2>2, <2>3
<1>. QED BY <1>1, <1>2, InvariantHolds, PTL DEF Spec

-----------------------------------------------------------------------------------
(* Answers of success. *)

\* What the steps do that the promises depend on: an image is left alone, given up for
\* the one on the disk, or grows, and a file only grows if it is being made.
LEMMA ImageStep ==
    ASSUME IInv, WithinLimits', Next
    PROVE  /\ disk' \in {disk, image}
           /\ \/ image' \in {disk, image}
              \/ /\ Sound(image') /\ Grown(image, image')
                 /\ pc \in {"create", "residual", "resinode", "sector", "secinode"}
                 /\ \A i \in Live(image) :
                       \/ image'.itab[i].size = image.itab[i].size
                       \/ image.itab[i].mode = "dir"
                       \/ pc = "secinode" /\ i = child
<1>1. disk' \in {disk, image}
  BY DiskStep
<1>2. /\ Sound(image) /\ Small(image') /\ ProcessTyped
  BY DEF IInv, TypeOK, WithinLimits
<1>3. CASE (\E c \in Commands : Mount(c)) \/ Lookup \/ NameOverflow \/ Parent \/ Content
             \/ Umount \/ Exit \/ Crash \/ IoError
  BY <1>1, <1>3 DEF Mount, Lookup, NameOverflow, Parent, Content, Umount, Exit, Crash, IoError
<1>4. CASE Create
  <2>1. Live(image) \subseteq ibm.bits /\ ibm \in BmBlockArray(ROOT_INUMBER, s_isize * InodesPerSector)
    BY <1>2, <1>4 DEF IInv, BitmapsKnow, Searching, Create, ProcessTyped
  <2>2. CASE image' = image
    BY <1>1, <2>2
  <2>3. CASE image' # image
    <3>1. /\ Sound(image') /\ Grown(image, image') /\ pc = "create"
          /\ \A i \in Live(image) : image'.itab[i] = image.itab[i]
      BY <1>2, <1>4, <2>1, <2>3, CreateOutcome DEF Create
    <3>. QED BY <1>1, <3>1
  <2>. QED BY <2>2, <2>3
<1>5. CASE Residual
  <2>1. Sound(image') /\ Grown(image, image') /\ image'.itab = image.itab
    BY <1>5, ResidualOutcome
  <2>. QED BY <1>1, <1>5, <2>1 DEF Residual
<1>6. CASE ResInode
  <2>1. pc = "resinode" /\ Sound(image') /\ Grown(image, image')
        /\ \A j \in InodeNumbers \ {parent} : image'.itab[j] = image.itab[j]
    BY <1>2, <1>6, ResInodeOutcome DEF ResInode
  <2>2. image.itab[parent].mode = "dir"
    <3>1. fv.entry /\ parent \in Directories(image)
      BY <2>1 DEF IInv, FileOpen, ParentFound, Writing, Entering
    <3>. QED BY <3>1 DEF Directories
  <2>3. Live(image) \subseteq InodeNumbers
    BY DEF Live
  <2>. QED BY <1>1, <2>1, <2>2, <2>3
<1>7. CASE Sector
  <2>1. image' = image \/ (Sound(image') /\ Grown(image, image') /\ image'.itab = image.itab)
    BY <1>2, <1>7, SectorOutcome
  <2>. QED BY <1>1, <1>7, <2>1 DEF Sector
<1>8. CASE SecInode
  <2>1. pc = "secinode" /\ Sound(image') /\ Grown(image, image')
        /\ \A j \in InodeNumbers \ {fv.inr} : image'.itab[j] = image.itab[j]
    BY <1>2, <1>8, SecInodeOutcome DEF SecInode
  <2>2. image.itab[fv.inr].mode = "dir" \/ fv.inr = child
    <3>1. CASE fv.entry
      <4>1. fv.inr = parent /\ parent \in Directories(image)
        BY <2>1, <3>1 DEF IInv, FileOpen, ParentFound, Writing, Entering
      <4>. QED BY <4>1 DEF Directories
    <3>2. CASE ~ fv.entry
      BY <2>1, <3>2 DEF IInv, FileOpen, Writing
    <3>. QED BY <3>1, <3>2
  <2>3. Live(image) \subseteq InodeNumbers
    BY DEF Live
  <2>. QED BY <1>1, <2>1, <2>2, <2>3
<1>. QED BY <1>3, <1>4, <1>5, <1>6, <1>7, <1>8 DEF Next, Process

\* Who goes on making a file goes on with the same one, until it is a new one.
LEMMA ChildStep ==
    ASSUME IInv, WithinLimits', Next, pc' \in {"parent", "content"} \union Writing
    PROVE  \/ child' = child /\ pc \in {"parent", "content"} \union Writing
           \/ child' \notin Live(image)
<1>1. CASE Create
  <2>1. /\ Live(image) \subseteq ibm.bits /\ Sound(image) /\ Small(image')
        /\ ibm \in BmBlockArray(ROOT_INUMBER, s_isize * InodesPerSector) /\ pc' # "umount"
    BY <1>1 DEF IInv, TypeOK, BitmapsKnow, Searching, Create, ProcessTyped, WithinLimits, Writing
  <2>. QED BY <1>1, <2>1, CreateOutcome
<1>2. CASE Next /\ ~ Create
  <2>1. \/ Parent \/ Residual \/ ResInode \/ Sector \/ SecInode \/ Content
        \/ IoError /\ pc \in {"residual", "resinode"}
    BY <1>2 DEF Next, Process, Mount, Lookup, NameOverflow, Umount, Exit, Crash, IoError,
                Forget, Leave, Writing
  <2>. QED BY <2>1 DEF Parent, Residual, ResInode, Sector, SecInode, Content, IoError, Writing
<1>. QED BY <1>1, <1>2

\* Promises are kept by every step.
LEMMA PromisedStep ==
    ASSUME IInv, WithinLimits', Next, Promised, Answered, IInv'
    PROVE  Promised'
<1>1. /\ Sound(image) /\ Sound(disk) /\ Grown(disk, image) /\ ProcessTyped
  BY DEF IInv, TypeOK
<1>2. /\ disk' \in {disk, image}
      /\ \/ image' \in {disk, image}
         \/ /\ Sound(image') /\ Grown(image, image')
            /\ pc \in {"create", "residual", "resinode", "sector", "secinode"}
            /\ \A i \in Live(image) :
                  \/ image'.itab[i].size = image.itab[i].size
                  \/ image.itab[i].mode = "dir"
                  \/ pc = "secinode" /\ i = child
  BY ImageStep
<1>3. ASSUME NEW c \in acked \ ignored
      PROVE  /\ KeptIn(disk', c) /\ KeptIn(image', c)
             /\ pc' \in {"parent", "content"} \union Writing =>
                   direntv6_dirlookup(image', ROOT_INUMBER, c.path) # child'
  <2>1. c \in Commands
    BY <1>1 DEF ProcessTyped
  <2> DEFINE inr == direntv6_dirlookup(image, ROOT_INUMBER, c.path)
  <2>2. /\ KeptIn(disk, c) /\ KeptIn(image, c) /\ inr \in Live(image)
        /\ pc \in {"parent", "content"} \union Writing => inr # child
    BY DEF Promised, KeptIn
  <2>3. direntv6_dirlookup(disk, ROOT_INUMBER, c.path) = inr
    <3>1. c.path \in Seq(Names \union LongNames)
      BY <2>1, CommandsAssumption DEF CommandSet
    <3>2. direntv6_dirlookup(disk, ROOT_INUMBER, c.path) \in Live(disk)
      BY <2>2 DEF KeptIn
    <3>. QED BY <1>1, <3>1, <3>2, PathStays
  <2>4. KeptIn(image', c) /\ direntv6_dirlookup(image', ROOT_INUMBER, c.path) = inr
    <3>1. CASE image' \in {disk, image}
      BY <2>2, <2>3, <3>1
    <3>2. CASE image' \notin {disk, image}
      <4>1. /\ Sound(image') /\ Grown(image, image')
            /\ \/ image'.itab[inr].size = image.itab[inr].size
               \/ image.itab[inr].mode = "dir"
               \/ pc = "secinode" /\ inr = child
        BY <1>2, <2>2, <3>2
      <4>2. ~ (pc = "secinode" /\ inr = child)
        BY <2>2 DEF Writing
      <4>3. c.op = "add" => image.itab[inr].mode # "dir"
        BY <2>2 DEF KeptIn
      <4>. QED BY <1>1, <2>1, <2>2, <4>1, <4>2, <4>3, KeptStays
    <3>. QED BY <3>1, <3>2
  <2>5. pc' \in {"parent", "content"} \union Writing => inr # child'
    BY <2>2, ChildStep
  <2>. QED BY <1>2, <2>2, <2>4, <2>5
<1>4. ASSUME NEW c \in acked' \ ignored'
      PROVE  c \in acked \ ignored \/ (Exit /\ c = cmd /\ ret = ERR_NONE /\ cmd \notin ignored)
  <2>1. CASE Exit
    BY <1>4, <2>1 DEF Exit
  <2>2. CASE Next /\ ~ Exit
    <3>1. acked' = acked /\ ignored \subseteq ignored'
      BY <2>2 DEF Next, Process, Mount, Lookup, Create, NameOverflow, Parent, Residual, ResInode,
                  Sector, SecInode, Content, Umount, Crash, IoError, history
    <3>. QED BY <1>4, <3>1
  <2>. QED BY <2>1, <2>2
<1>5. ASSUME Exit, ret = ERR_NONE, cmd \notin ignored
      PROVE  KeptIn(disk', cmd) /\ KeptIn(image', cmd) /\ pc' \notin {"parent", "content"} \union Writing
  <2>1. KeptIn(image, cmd) /\ image = disk /\ image' = image /\ disk' = disk /\ pc' = "idle"
    BY <1>5 DEF Exit, Forget, Answered, IInv, Synced
  <2>. QED BY <2>1 DEF Writing
<1>. QED BY <1>3, <1>4, <1>5 DEF Promised

\* The entry made, the path of the command leads to the new inode.
LEMMA EntryLeads ==
    ASSUME NEW e, Sound(e), cmd \in Commands, relative_name \in Names,
           parent \in Directories(e), direntv6_dirlookup(e, ROOT_INUMBER, absolute_name) = parent,
           NEW p \in Positions(e, parent), Cell(e, parent, p) = [inr |-> child, name |-> relative_name]
    PROVE  direntv6_dirlookup(e, ROOT_INUMBER, cmd.path) = child
<1>1. relative_name \notin LongNames /\ ~ Bare
  BY VolumeAssumption DEF Bare
<1>2. parent \in Live(e)
  BY DEF Directories
<1>3. direntv6_dirlookup(e, ROOT_INUMBER, cmd.path) = LookupEntry(e, parent, relative_name)
  BY <1>1, <1>2, CommandLookup
<1>4. Cell(e, parent, p).inr = child /\ Cell(e, parent, p).name = relative_name
  OBVIOUS
<1>. QED BY <1>3, <1>4, EntryFound

\* The write of the parent's inode makes the entry.
LEMMA EntryMade ==
    ASSUME IInv, WithinLimits', PathLeads, ResInode \/ SecInode, fv.entry
    PROVE  /\ direntv6_dirlookup(image', ROOT_INUMBER, cmd.path) = child
           /\ child \in Live(image')
           /\ image'.itab[child].mode = IF cmd.op = "mkdir" THEN "dir" ELSE "file"
<1>1. /\ Sound(image) /\ FileOpen /\ pc \in {"resinode", "secinode"} /\ pc \in Writing /\ cmd \in Commands
      /\ Small(image') /\ fv \in Files
  BY DEF IInv, TypeOK, ProcessTyped, ResInode, SecInode, Writing, WithinLimits
<1>2. /\ fv.inr = parent /\ parent \in Directories(image) /\ relative_name \in Names
      /\ child \in Live(image) \ {ROOT_INUMBER, parent}
      /\ image.itab[child].mode = (IF cmd.op = "mkdir" THEN "dir" ELSE "file")
      /\ fv.buf[1] = [inr |-> child, name |-> relative_name] /\ Len(fv.buf) = 1
      /\ direntv6_dirlookup(image, ROOT_INUMBER, absolute_name) = parent
  <2>1. relative_name \in Names /\ direntv6_dirlookup(image, ROOT_INUMBER, absolute_name) = parent
    BY <1>1 DEF IInv, ParentFound, PathLeads, Entering
  <2>2. /\ fv.inr = parent /\ parent \in Directories(image)
        /\ child \in Live(image) \ {ROOT_INUMBER, parent}
        /\ image.itab[child].mode = (IF cmd.op = "mkdir" THEN "dir" ELSE "file")
        /\ fv.buf[1] = [inr |-> child, name |-> relative_name] /\ Len(fv.buf) = 1
    BY <1>1, EntryBuffer
  <2>. QED BY <2>1, <2>2
<1>3. /\ Sound(image') /\ Grown(image, image')
      /\ Live(image') = Live(image) /\ Directories(image') = Directories(image)
      /\ \E p \in Positions(image', parent) :
            Cell(image', parent, p) = [inr |-> child, name |-> relative_name]
  <2>1. CASE ResInode
    BY <1>1, <2>1, ResInodeOutcome
  <2>2. CASE SecInode
    <3>1. /\ Sound(image') /\ Grown(image, image')
          /\ Live(image') = Live(image) /\ Directories(image') = Directories(image)
          /\ \A k \in 1 .. Len(fv.buf) :
                /\ fv.size + k - 1 \in Positions(image', fv.inr)
                /\ Cell(image', fv.inr, fv.size + k - 1) = fv.buf[k]
      BY <1>1, <2>2, SecInodeOutcome
    <3>2. 1 \in 1 .. Len(fv.buf)
      BY <1>2
    <3>3. /\ fv.size + 1 - 1 \in Positions(image', parent)
          /\ Cell(image', parent, fv.size + 1 - 1) = [inr |-> child, name |-> relative_name]
      BY <1>2, <3>1, <3>2
    <3>. QED BY <3>1, <3>3
  <2>. QED BY <2>1, <2>2
<1>4. direntv6_dirlookup(image', ROOT_INUMBER, absolute_name) = parent
  <2>1. absolute_name \in Seq(Names \union LongNames) /\ parent \in Live(image)
    BY <1>1, <1>2, PathsAreSequences, VolumeAssumption DEF Directories
  <2>. QED BY <1>1, <1>2, <1>3, <2>1, PathStays
<1>5. direntv6_dirlookup(image', ROOT_INUMBER, cmd.path) = child
  BY <1>1, <1>2, <1>3, <1>4, EntryLeads
<1>6. child \in Live(image') /\ image'.itab[child].mode = image.itab[child].mode
  BY <1>2, <1>3 DEF Grown
<1>. QED BY <1>2, <1>5, <1>6

\* A path that leads somewhere leads there after any write of the process.
LEMMA LeadsStill ==
    ASSUME IInv, WithinLimits', Create \/ Residual \/ Sector \/ SecInode, pc' # "umount",
           NEW path \in Seq(Names \union LongNames),
           direntv6_dirlookup(image, ROOT_INUMBER, path) \in Live(image)
    PROVE  direntv6_dirlookup(image', ROOT_INUMBER, path) = direntv6_dirlookup(image, ROOT_INUMBER, path)
<1>1. Sound(image) /\ Small(image') /\ ProcessTyped
  BY DEF IInv, TypeOK, WithinLimits
<1>2. Create => /\ Live(image) \subseteq ibm.bits
                /\ ibm \in BmBlockArray(ROOT_INUMBER, s_isize * InodesPerSector)
  BY <1>1 DEF IInv, BitmapsKnow, Searching, Create, ProcessTyped
<1>3. Sound(image') /\ Grown(image, image')
  <2>1. CASE Create
    BY <1>1, <1>2, <2>1, CreateOutcome
  <2>2. CASE Residual
    BY <2>2, ResidualOutcome
  <2>3. CASE Sector
    BY <1>1, <2>3, SectorOutcome
  <2>4. CASE SecInode
    BY <1>1, <2>4, SecInodeOutcome
  <2>. QED BY <2>1, <2>2, <2>3, <2>4
<1> DEFINE T == Names \union LongNames
<1> HIDE DEF T
<1>4. path \in Seq(T)
  BY DEF T
<1>. QED BY <1>1, <1>3, <1>4, PathStays

\* The paths lead where they should after every step.
LEMMA PathLeadsStep ==
    ASSUME IInv, WithinLimits', Next, PathLeads PROVE PathLeads'
<1> DEFINE absolute(d) == direntv6_dirlookup(d, ROOT_INUMBER, absolute_name)
           whole(d) == direntv6_dirlookup(d, ROOT_INUMBER, cmd.path)
<1>1. CASE pc' \in {"idle", "lookup", "umount", "exit"}
  BY <1>1 DEF PathLeads, Entering, Writing
<1>2. CASE pc' \notin {"idle", "lookup", "umount", "exit"} /\ Lookup
  <2>1. /\ pc' = "create" /\ parent' = absolute(image) /\ image' = image /\ cmd' = cmd
    <3>1. Sound(image) /\ cmd \in Commands
      BY <1>2 DEF IInv, Lookup
    <3>2. pc' = "create" /\ parent' = absolute(image)
      BY <1>2, <3>1, LookupOutcome
    <3>. QED BY <1>2, <3>2 DEF Lookup
  <2>. QED BY <2>1 DEF PathLeads, Entering, Writing, absolute_name
<1>3. CASE pc' \notin {"idle", "lookup", "umount", "exit"} /\ ~ Lookup
  <2>1. /\ cmd' = cmd /\ parent' = parent /\ absolute_name' = absolute_name
        /\ cmd \in Commands /\ Sound(image) /\ ignored \subseteq ignored'
        /\ pc \notin {"idle", "lookup", "umount", "exit"}
        /\ \/ Create \/ Parent \/ Residual \/ ResInode \/ Sector \/ SecInode \/ Content
           \/ IoError /\ pc \in {"residual", "resinode"}
    <3>1. \/ Create \/ Parent \/ Residual \/ ResInode \/ Sector \/ SecInode \/ Content
          \/ IoError /\ pc \in {"residual", "resinode"}
      BY <1>3 DEF Next, Process, Mount, NameOverflow, Umount, Exit, Crash, IoError, Forget, Leave
    <3>2. /\ cmd' = cmd /\ parent' = parent /\ pc \notin {"idle", "lookup", "umount", "exit"}
          /\ ignored \subseteq ignored'
      BY <3>1 DEF Create, Parent, Residual, ResInode, Sector, SecInode, Content, IoError, history
    <3>. QED BY <3>1, <3>2 DEF IInv, absolute_name
  <2>2. pc # "content" /\ ~ (pc \in Writing /\ ~ fv.entry) =>
           parent \in Live(image) /\ absolute_name \in Seq(Names \union LongNames) /\ absolute(image) = parent
    <3>1. SUFFICES ASSUME pc \in {"create", "parent"} \/ Entering
                   PROVE  parent \in Live(image) /\ absolute_name \in Seq(Names \union LongNames)
                          /\ absolute(image) = parent
      BY <2>1 DEF IInv, TypeOK, ProcessTyped, Writing, Entering
    <3>2. parent \in Live(image) /\ relative_name \in Names /\ absolute(image) = parent
      BY <3>1 DEF IInv, ParentFound, PathLeads, Directories
    <3>3. relative_name \notin LongNames
      BY <3>2, VolumeAssumption
    <3> HIDE DEF absolute
    <3>. QED BY <2>1, <3>2, <3>3, PathsAreSequences
  <2>3. CASE Create
    <3>1. pc = "create" /\ pc' = "parent" /\ pc' # "umount"
      BY <1>3, <2>3 DEF Create, Leave
    <3>2. absolute(image') = parent
      BY <2>2, <2>3, <3>1, LeadsStill DEF Writing
    <3>. QED BY <2>1, <3>1, <3>2 DEF PathLeads, Writing, Entering
  <2>4. CASE Parent
    <3>1. pc = "parent" /\ image' = image /\ fv'.entry /\ pc' \in {"sector", "residual"}
      BY <2>4, ParentOutcome DEF Parent
    <3>. QED BY <2>1, <2>2, <3>1 DEF PathLeads, Writing, Entering
  <2>5. CASE Residual
    <3>1. pc = "residual" /\ pc' = "resinode" /\ fv' = fv /\ fv.entry
      BY <2>5, ResidualOutcome DEF Residual, IInv, FileOpen, Writing
    <3>2. absolute(image') = parent
      BY <2>2, <2>5, <3>1, LeadsStill DEF Writing
    <3>. QED BY <2>1, <3>1, <3>2 DEF PathLeads, Writing, Entering
  <2>6. CASE ResInode
    <3>1. /\ fv.entry /\ child' = child /\ Small(image')
      BY <2>6 DEF ResInode, IInv, FileOpen, Writing, WithinLimits
    <3>2. pc' = "content"
      BY <1>3, <2>6, <3>1, ResInodeOutcome
    <3>3. whole(image') = child
      BY <2>6, <3>1, EntryMade
    <3>. QED BY <2>1, <3>1, <3>2, <3>3 DEF PathLeads, Writing, Entering
  <2>7. CASE Sector
    <3>1. pc = "sector" /\ pc' = "secinode" /\ fv' = fv /\ child' = child /\ ignored' = ignored
      BY <1>3, <2>7 DEF Sector, Leave, history
    <3>2. CASE fv.entry
      <4>1. absolute(image') = parent
        BY <2>2, <2>7, <3>1, <3>2, LeadsStill DEF Writing
      <4>. QED BY <2>1, <3>1, <3>2, <4>1 DEF PathLeads, Writing, Entering
    <3>3. CASE ~ fv.entry /\ cmd \notin ignored
      <4>1. whole(image) = child /\ child \in Live(image) /\ cmd.path \in Seq(Names \union LongNames)
        BY <2>1, <3>1, <3>3, CommandsAssumption DEF PathLeads, IInv, ChildCreated, Writing, CommandSet
      <4>2. whole(image') = child
        BY <2>7, <3>1, <4>1, LeadsStill
      <4>. QED BY <2>1, <3>1, <3>3, <4>2 DEF PathLeads, Writing, Entering
    <3>4. CASE ~ fv.entry /\ cmd \in ignored
      BY <2>1, <3>1, <3>4 DEF PathLeads, Writing, Entering
    <3>. QED BY <3>2, <3>3, <3>4
  <2>8. CASE SecInode
    <3>1. child' = child /\ Small(image')
      BY <2>8 DEF SecInode, WithinLimits
    <3>2. pc' = "content" /\ fv.entry
      BY <1>3, <2>8, <3>1, SecInodeOutcome
    <3>3. whole(image') = child
      BY <2>8, <3>2, EntryMade
    <3>. QED BY <2>1, <3>1, <3>2, <3>3 DEF PathLeads, Writing, Entering
  <2>9. CASE Content
    <3>1. /\ pc = "content" /\ image' = image /\ child' = child /\ ignored' = ignored
          /\ pc' = "sector" /\ fv'.entry = FALSE
      BY <1>3, <2>9, ContentOutcome DEF Content, history
    <3>. QED BY <2>1, <3>1 DEF PathLeads, Writing, Entering
  <2>10. CASE IoError /\ pc \in {"residual", "resinode"}
    <3>1. pc' = "content" /\ cmd \in ignored'
      BY <1>3, <2>10, IoErrorOutcome
    <3>. QED BY <2>1, <3>1 DEF PathLeads, Writing, Entering
  <2>. QED BY <2>1, <2>3, <2>4, <2>5, <2>6, <2>7, <2>8, <2>9, <2>10
<1>. QED BY <1>1, <1>2, <1>3

\* An answer of success is true from the step that decides it on.
LEMMA AnsweredStep ==
    ASSUME IInv, WithinLimits', Next, PathLeads, Answered PROVE Answered'
<1>1. SUFFICES ASSUME pc' \in {"umount", "exit"}, ret' = ERR_NONE, cmd' \notin ignored'
               PROVE  /\ KeptIn(image', cmd')
                      /\ direntv6_dirlookup(image', ROOT_INUMBER, cmd'.path) = child'
  BY DEF Answered
<1>2. Sound(image) /\ Small(image') /\ ProcessTyped
  BY DEF IInv, TypeOK, WithinLimits
<1>3. CASE Lookup
  <2>1. Sound(image) /\ cmd \in Commands
    BY <1>3 DEF IInv, Lookup
  <2>2. pc' = "create" \/ ret' # ERR_NONE
    BY <1>3, <2>1, LookupOutcome
  <2>. QED BY <1>1, <2>2
<1>4. CASE Create
  <2>1. Live(image) \subseteq ibm.bits /\ ibm \in BmBlockArray(ROOT_INUMBER, s_isize * InodesPerSector)
    BY <1>2, <1>4 DEF IInv, BitmapsKnow, Searching, Create, ProcessTyped
  <2>2. pc' = "parent" \/ ret' # ERR_NONE
    BY <1>2, <1>4, <2>1, CreateOutcome
  <2>. QED BY <1>1, <2>2
<1>5. CASE Parent
  BY <1>1, <1>5, ParentOutcome
<1>6. CASE Residual
  BY <1>1, <1>6, ResidualOutcome
<1>7. CASE ResInode
  <2>1. fv.entry /\ cmd' = cmd /\ cmd \in Commands /\ child' = child
    BY <1>7 DEF ResInode, IInv, FileOpen, Writing
  <2>2. cmd.op # "add"
    BY <1>1, <1>2, <1>7, ResInodeOutcome
  <2>3. cmd.op = "mkdir"
    BY <2>1, <2>2, CommandsAssumption DEF CommandSet
  <2>. QED BY <1>7, <2>1, <2>2, <2>3, EntryMade DEF KeptIn
<1>8. CASE Sector
  <2>1. pc' = "secinode" \/ ret' = ERR_BITMAP_FULL
    BY <1>2, <1>8, SectorOutcome
  <2>. QED BY <1>1, <2>1, Errors
<1>9. CASE SecInode
  <2>1. /\ pc = "secinode" /\ pc \in Writing /\ cmd' = cmd /\ cmd \in Commands
        /\ ignored' = ignored /\ child' = child
    BY <1>9 DEF SecInode, IInv, Writing, history
  <2>2. CASE fv.entry
    <3>1. cmd.op # "add"
      BY <1>1, <1>2, <1>9, <2>2, SecInodeOutcome
    <3>2. cmd.op = "mkdir"
      BY <2>1, <3>1, CommandsAssumption DEF CommandSet
    <3>. QED BY <1>9, <2>1, <2>2, <3>1, <3>2, EntryMade DEF KeptIn
  <2>3. CASE ~ fv.entry
    <3>1. /\ cmd.op = "add" /\ fv.inr = child /\ fv.buf = cmd.buf
          /\ child \in Live(image) /\ image.itab[child].mode = "file" /\ fv.size = 0
          /\ direntv6_dirlookup(image, ROOT_INUMBER, cmd.path) = child
          /\ cmd.path \in Seq(Names \union LongNames) /\ cmd.buf \in Seq(Cells)
      <4>1. /\ cmd.op = "add" /\ fv.inr = child /\ fv.buf = cmd.buf /\ fv.size = fv.inode.size
            /\ fv.inode = image.itab[fv.inr]
        BY <2>1, <2>3 DEF IInv, FileOpen
      <4>2. /\ child \in Live(image) /\ image.itab[child].size = 0
            /\ image.itab[child].mode = (IF cmd.op = "mkdir" THEN "dir" ELSE "file")
        BY <2>1 DEF IInv, ChildCreated
      <4>3. direntv6_dirlookup(image, ROOT_INUMBER, cmd.path) = child
        BY <1>1, <2>1, <2>3 DEF PathLeads
      <4>4. cmd.path \in Seq(Names \union LongNames) /\ cmd.buf \in Seq(Cells)
        BY <2>1, CommandsAssumption DEF CommandSet
      <4>. QED BY <4>1, <4>2, <4>3, <4>4
    <3>2. /\ Live(image') = Live(image)
          /\ image'.itab[child].mode = image.itab[child].mode
          /\ image'.itab[child].size = fv.size + Len(fv.buf)
          /\ \A k \in 1 .. Len(fv.buf) : Cell(image', child, fv.size + k - 1) = fv.buf[k]
      BY <1>2, <1>9, <3>1, SecInodeOutcome
    <3>3. direntv6_dirlookup(image', ROOT_INUMBER, cmd.path) = child
      <4>1. Sound(image') /\ Grown(image, image')
        BY <1>2, <1>9, SecInodeOutcome
      <4> DEFINE T == Names \union LongNames
      <4> HIDE DEF T
      <4>2. cmd.path \in Seq(T)
        BY <3>1 DEF T
      <4>. QED BY <1>2, <3>1, <4>1, <4>2, PathStays
    <3>4. image'.itab[child].size = Len(cmd.buf)
      <4>1. Len(cmd.buf) \in Nat
        BY <3>1
      <4>. QED BY <3>1, <3>2, <4>1
    <3>5. \A k \in 1 .. Len(cmd.buf) : Cell(image', child, k - 1) = cmd.buf[k]
      <4>1. \A k \in 1 .. Len(cmd.buf) : Cell(image', child, 0 + k - 1) = cmd.buf[k]
        BY <3>1, <3>2
      <4>2. \A k \in 1 .. Len(cmd.buf) : 0 + k - 1 = k - 1
        BY <3>1
      <4>. QED BY <4>1, <4>2
    <3>. QED BY <2>1, <3>1, <3>2, <3>3, <3>4, <3>5 DEF KeptIn
  <2>. QED BY <2>2, <2>3
<1>10. CASE Content
  <2>1. /\ pc = "content" /\ image' = image /\ cmd' = cmd /\ ignored' = ignored
        /\ cmd \in Commands /\ child' = child
    BY <1>10 DEF Content, history, IInv
  <2>2. /\ cmd.buf = << >> /\ cmd.op = "add" /\ child \in Live(image) /\ image.itab[child].size = 0
    BY <1>1, <1>10, ContentOutcome
  <2>3. /\ direntv6_dirlookup(image, ROOT_INUMBER, cmd.path) = child
        /\ image.itab[child].mode = "file"
    BY <1>1, <2>1, <2>2 DEF PathLeads, IInv, ChildCreated
  <2>. QED BY <2>1, <2>2, <2>3 DEF KeptIn
<1>11. CASE Umount
  <2>1. pc = "umount" /\ UNCHANGED <<image, cmd, child, ret, ignored>>
    BY <1>11 DEF Umount, history
  <2>. QED BY <1>1, <2>1 DEF Answered
<1>12. CASE IoError
  <2>1. cmd' = cmd /\ cmd \in ignored'
    BY <1>1, <1>12, IoErrorOutcome
  <2>. QED BY <1>1, <2>1
<1>13. CASE (\E c \in Commands : Mount(c)) \/ NameOverflow \/ Exit \/ Crash
  BY <1>1, <1>13 DEF Mount, NameOverflow, Exit, Crash, Forget
<1>. QED BY <1>3, <1>4, <1>5, <1>6, <1>7, <1>8, <1>9, <1>10, <1>11, <1>12, <1>13 DEF Next, Process

\* The number of the new inode is set by Create and forgotten at the end.
LEMMA NoChildYetStep == ASSUME IInv, Next, NoChildYet PROVE NoChildYet'
<1>1. SUFFICES ASSUME pc' \in {"idle", "lookup", "create"} PROVE child' = 0
  BY DEF NoChildYet
<1>2. CASE NameOverflow \/ Exit \/ Crash
  BY <1>2 DEF NameOverflow, Exit, Crash, Forget
<1>3. CASE (\E c \in Commands : Mount(c)) \/ Lookup
  BY <1>3 DEF Mount, Lookup, NoChildYet
<1>4. CASE IoError
  BY <1>1, <1>4, IoErrorOutcome DEF NoChildYet
<1>5. CASE Create \/ Parent \/ Residual \/ ResInode \/ Sector \/ SecInode \/ Content \/ Umount
  <2>1. pc' \in {"parent", "residual", "resinode", "sector", "secinode", "content", "umount", "exit"}
    BY <1>5, ParentOutcome, ContentOutcome DEF Create, Residual, ResInode, Sector, SecInode, Umount,
       Continue, Leave
  <2>. QED BY <1>1, <2>1
<1>. QED BY <1>2, <1>3, <1>4, <1>5 DEF Next, Process

\* After the write of the parent's inode the disk lacks the new entry, and no other.
LEMMA EntryBecomesPending ==
    ASSUME IInv, WithinLimits', PathLeads, ResInode \/ SecInode, fv.entry,
           NEW dir \in Directories(disk')
    PROVE  image'.itab[dir].size = disk'.itab[dir].size \/ (dir = parent' /\ EntryPending')
<1>1. /\ Sound(image) /\ FileOpen /\ pc \in {"resinode", "secinode"} /\ pc \in Writing /\ cmd \in Commands
      /\ Small(image') /\ fv \in Files /\ UNCHANGED <<cmd, parent, child>> /\ disk' = image
  BY DEF IInv, TypeOK, ProcessTyped, ResInode, SecInode, Writing, WithinLimits, Flush
<1>2. /\ fv.inr = parent /\ parent \in Directories(image) /\ relative_name \in Names
      /\ ~ Holds(image, parent, relative_name)
      /\ child \in Live(image) \ {ROOT_INUMBER, parent}
      /\ image.itab[child].size = 0
      /\ image.itab[child].mode = (IF cmd.op = "mkdir" THEN "dir" ELSE "file")
      /\ fv.buf[1] = [inr |-> child, name |-> relative_name] /\ Len(fv.buf) = 1
      /\ direntv6_dirlookup(image, ROOT_INUMBER, absolute_name) = parent
  <2>1. relative_name \in Names /\ direntv6_dirlookup(image, ROOT_INUMBER, absolute_name) = parent
        /\ ~ Holds(image, parent, relative_name)
    BY <1>1 DEF IInv, ParentFound, PathLeads, Entering
  <2>2. /\ fv.inr = parent /\ parent \in Directories(image)
        /\ child \in Live(image) \ {ROOT_INUMBER, parent} /\ image.itab[child].size = 0
        /\ image.itab[child].mode = (IF cmd.op = "mkdir" THEN "dir" ELSE "file")
        /\ fv.buf[1] = [inr |-> child, name |-> relative_name] /\ Len(fv.buf) = 1
    BY <1>1, EntryBuffer
  <2>. QED BY <2>1, <2>2
<1>3. /\ pc' \in {"content", "umount"} /\ Live(image') = Live(image)
      /\ \A j \in InodeNumbers \ {parent} : image'.itab[j] = image.itab[j]
      /\ Positions(image', parent) \ Positions(image, parent) # {}
      /\ \A p \in Positions(image', parent) \ Positions(image, parent) :
            Cell(image', parent, p) = [inr |-> child, name |-> relative_name]
  <2>1. CASE ResInode
    BY <1>1, <2>1, ResInodeOutcome
  <2>2. CASE SecInode
    <3>1. /\ pc' \in {"content", "umount"} /\ Live(image') = Live(image)
          /\ \A j \in InodeNumbers \ {parent} : image'.itab[j] = image.itab[j]
          /\ image'.itab[parent].size = fv.size + 1
          /\ \A k \in 1 .. 1 : Cell(image', parent, fv.size + k - 1) = fv.buf[k]
      BY <1>1, <1>2, <2>2, SecInodeOutcome
    <3>2. fv.size = image.itab[parent].size /\ fv.size \in Nat
      BY <1>1, <1>2 DEF FileOpen, Files
    <3> DEFINE size == fv.size
    <3>3. Positions(image', parent) \ Positions(image, parent) = {size}
      <4>1. Positions(image', parent) = 0 .. (size + 1) - 1 /\ Positions(image, parent) = 0 .. size - 1
        BY <3>1, <3>2 DEF Positions
      <4>2. size \in Nat
        BY <3>2
      <4> HIDE DEF size
      <4>. QED BY <4>1, <4>2
    <3>4. Cell(image', parent, size) = fv.buf[1]
      <4>1. 1 \in 1 .. 1 /\ size + 1 - 1 = size
        BY <3>2
      <4>. QED BY <3>1, <4>1
    <3> HIDE DEF size
    <3>. QED BY <1>2, <3>1, <3>3, <3>4
  <2>. QED BY <2>1, <2>2
<1>4. CASE dir = parent
  <2>1. image'.itab[child] = image.itab[child]
    BY <1>2, <1>3 DEF Live
  <2>2. relative_name' = relative_name /\ absolute_name' = absolute_name
    BY <1>1 DEF relative_name, absolute_name
  <2>3. /\ direntv6_dirlookup(disk', ROOT_INUMBER, absolute_name') = parent'
        /\ relative_name' \in Names /\ ~ Holds(disk', parent', relative_name')
    BY <1>1, <1>2, <2>2
  <2>4. /\ Positions(image', parent') \ Positions(disk', parent') # {}
        /\ \A p \in Positions(image', parent') \ Positions(disk', parent') :
              Cell(image', parent', p) = [inr |-> child', name |-> relative_name']
    BY <1>1, <1>3, <2>2
  <2>5. /\ child' \in Live(image') \ {ROOT_INUMBER, parent'} /\ image'.itab[child'].size = 0
        /\ image'.itab[child'].mode = IF cmd'.op = "mkdir" THEN "dir" ELSE "file"
    BY <1>1, <1>2, <1>3, <2>1
  <2>. QED BY <1>3, <1>4, <1>1, <2>3, <2>4, <2>5 DEF EntryPending
<1>5. CASE dir # parent
  <2>1. dir \in InodeNumbers
    BY DEF Directories, Live
  <2>2. image'.itab[dir] = image.itab[dir]
    BY <1>3, <1>5, <2>1
  <2>3. image'.itab[dir].size = disk'.itab[dir].size
    BY <1>1, <2>2
  <2>. QED BY <2>3
<1>. QED BY <1>4, <1>5

\* The disk never lacks more than that entry.
LEMMA DiskBehindStep ==
    ASSUME IInv, WithinLimits', IInv', Next, PathLeads, DiskBehind PROVE DiskBehind'
<1>1. Sound(image) /\ Small(image') /\ ProcessTyped
  BY DEF IInv, TypeOK, WithinLimits
<1>2. CASE image' = disk'
  BY <1>2 DEF DiskBehind
<1>3. ASSUME disk' = image, \A i \in Directories(image) : image'.itab[i].size = image.itab[i].size
      PROVE  DiskBehind'
  BY <1>3 DEF DiskBehind
<1>4. CASE (\E c \in Commands : Mount(c)) \/ Lookup \/ NameOverflow \/ Exit
  <2>1. image = disk /\ image' = image /\ disk' = disk
    BY <1>4 DEF Mount, Lookup, NameOverflow, Exit, IInv, Synced
  <2>. QED BY <1>2, <2>1
<1>5. CASE Parent \/ Content \/ Umount \/ Crash \/ IoError
  <2>1. image' = disk'
    BY <1>5, IoErrorOutcome DEF Parent, Content, Umount, Crash, Flush
  <2>. QED BY <1>2, <2>1
<1>6. CASE Create
  <2>1. Live(image) \subseteq ibm.bits /\ ibm \in BmBlockArray(ROOT_INUMBER, s_isize * InodesPerSector)
    BY <1>1, <1>6 DEF IInv, BitmapsKnow, Searching, Create, ProcessTyped
  <2>2. image' = image \/ \A i \in Live(image) : image'.itab[i] = image.itab[i]
    BY <1>1, <1>6, <2>1, CreateOutcome
  <2>3. \A i \in Directories(image) : image'.itab[i].size = image.itab[i].size
    BY <2>2 DEF Directories
  <2>4. disk' = image
    BY <1>6 DEF Create, Flush
  <2>. QED BY <1>3, <2>3, <2>4
<1>7. CASE Residual
  <2>1. disk' = image /\ image'.itab = image.itab
    BY <1>7, ResidualOutcome
  <2>. QED BY <1>3, <2>1
<1>8. CASE Sector
  <2>1. CASE pc' = "umount"
    <3>1. image' = image /\ disk' = disk /\ pc = "sector"
      BY <1>1, <1>8, <2>1, SectorOutcome DEF Sector
    <3>2. \A dir \in Directories(disk) : image.itab[dir].size = disk.itab[dir].size
      BY <3>1 DEF DiskBehind, EntryPending
    <3>. QED BY <3>1, <3>2 DEF DiskBehind
  <2>2. CASE pc' # "umount"
    <3>1. disk' = image /\ image'.itab = image.itab
      BY <1>1, <1>8, <2>2, SectorOutcome
    <3>. QED BY <1>3, <3>1
  <2>. QED BY <2>1, <2>2
<1>9. CASE (ResInode \/ SecInode) /\ fv.entry
  BY <1>9, EntryBecomesPending DEF DiskBehind
<1>10. CASE (ResInode \/ SecInode) /\ ~ fv.entry
  <2>1. SecInode /\ pc = "secinode" /\ pc \in Writing /\ disk' = image
    BY <1>10 DEF ResInode, SecInode, IInv, FileOpen, Writing, Flush
  <2>2. fv.inr = child /\ image.itab[child].mode = "file"
    BY <1>10, <2>1 DEF IInv, FileOpen, ChildCreated
  <2>3. \A j \in InodeNumbers \ {child} : image'.itab[j] = image.itab[j]
    BY <1>1, <2>1, <2>2, SecInodeOutcome
  <2>4. \A i \in Directories(image) : i \in InodeNumbers /\ i # child
    BY <2>2 DEF Directories, Live
  <2>. QED BY <1>3, <2>1, <2>3, <2>4
<1>. QED BY <1>4, <1>5, <1>6, <1>7, <1>8, <1>9, <1>10 DEF Next, Process

\* All of it is kept by every step.
LEMMA AnswersStep == ASSUME AInv, WithinLimits', [Next]_vars PROVE AInv'
<1>1. IInv'
  BY NextStep DEF AInv
<1>2. CASE Next
  <2>1. Promised' /\ PathLeads' /\ Answered'
    BY <1>1, <1>2, PromisedStep, PathLeadsStep, AnsweredStep DEF AInv
  <2>2. IgnoredAreFaults'
    <3>1. faults \in Nat /\ IgnoredAreFaults
      BY CommandsAssumption DEF AInv, IInv, TypeOK, ProcessTyped
    <3>2. CASE IoError
      <4>1. faults' = faults + 1
        BY <3>2 DEF IoError
      <4>. QED BY <3>1, <4>1 DEF IgnoredAreFaults
    <3>3. CASE Next /\ ~ IoError
      <4>1. ignored' = ignored /\ faults' = faults
        BY <3>3 DEF Next, Process, Mount, Lookup, Create, NameOverflow, Parent, Residual, ResInode,
                    Sector, SecInode, Content, Umount, Exit, Crash, history
      <4>. QED BY <3>1, <4>1 DEF IgnoredAreFaults
    <3>. QED BY <1>2, <3>2, <3>3
  <2>3. NoChildYet' /\ DiskBehind'
    BY <1>1, <1>2, NoChildYetStep, DiskBehindStep DEF AInv
  <2>. QED BY <1>1, <2>1, <2>2, <2>3 DEF AInv
<1>3. CASE UNCHANGED vars
  <2>1. UNCHANGED <<image, disk, pc, cmd, parent, child, fv, ret, faults, acked, ignored>>
    BY <1>3 DEF vars, history
  <2>2. Promised' /\ Answered' /\ IgnoredAreFaults'
    BY <2>1 DEF AInv, Promised, Answered, IgnoredAreFaults, Writing
  <2>3. PathLeads'
    BY <2>1 DEF AInv, PathLeads, Entering, Writing, absolute_name
  <2>4. NoChildYet' /\ DiskBehind'
    BY <2>1 DEF AInv, NoChildYet, DiskBehind, EntryPending, absolute_name, relative_name
  <2>. QED BY <1>1, <2>2, <2>3, <2>4 DEF AInv
<1>. QED BY <1>2, <1>3

\* Nothing has been answered at the start.
LEMMA AnswersStart == ASSUME SoundImages, Init, WithinLimits PROVE AInv
<1>1. /\ Promised /\ PathLeads /\ Answered /\ IgnoredAreFaults
      /\ NoChildYet /\ DiskBehind
  BY DEF Init, Promised, PathLeads, Answered, IgnoredAreFaults, NoChildYet, DiskBehind,
     Entering, Writing
<1>. QED BY <1>1, Starts DEF AInv

\* From sound images, and within the limits, a process that is about to answer success
\* has done what it says, and the disk lacks one entry at most.
THEOREM AnswersHold == SoundImages => (Spec /\ []WithinLimits => []AInv)
<1>1. SoundImages /\ Init /\ WithinLimits => AInv
  BY AnswersStart
<1>2. AInv /\ WithinLimits' /\ [Next]_vars => AInv'
  BY AnswersStep
<1>. QED BY <1>1, <1>2, PTL DEF Spec

\* On a sound disk a promise is what the checked invariants mean by it.
LEMMA KeptOnDisk ==
    ASSUME Sound(disk), NEW c \in Commands, KeptIn(disk, c) PROVE Kept(c)
<1> DEFINE inr == InumberOf(c.path)
<1>1. inr = direntv6_dirlookup(disk, ROOT_INUMBER, c.path)
  BY DEF InumberOf
<1>2. Allocated = Live(disk) /\ Dirs = Directories(disk)
  BY DEF Allocated, Dirs, Live, Directories
<1>3. c.buf \in Seq(Cells)
  BY CommandsAssumption DEF CommandSet
<1>4. /\ inr \in Live(disk)
      /\ disk.itab[inr].mode = (IF c.op = "mkdir" THEN "dir" ELSE "file")
      /\ c.op = "add" => /\ disk.itab[inr].size = Len(c.buf)
                         /\ \A k \in 1 .. Len(c.buf) : Cell(disk, inr, k - 1) = c.buf[k]
  BY <1>1 DEF KeptIn
<1> HIDE DEF inr
<1>5. c.op = "mkdir" => inr \in Directories(disk)
  BY <1>4 DEF Directories
<1>6. c.op = "add" => inr \notin Directories(disk)
  BY <1>4 DEF Directories
<1>7. ASSUME c.op = "add", NEW k \in 1 .. Len(c.buf)
      PROVE  SectorOf(<<inr, k - 1>>) >= 0 /\ CellOf(<<inr, k - 1>>) = c.buf[k]
  <2>1. k - 1 \in Positions(disk, inr)
    BY <1>3, <1>4, <1>7 DEF Positions
  <2>2. /\ CellSector(disk, disk.itab[inr], k - 1) \in Numbered
        /\ CellAt(disk, disk.itab[inr], k - 1) = Cell(disk, inr, k - 1)
    BY <1>4, <2>1, Readable
  <2>3. SectorOf(<<inr, k - 1>>) \in Numbered
    BY <2>2 DEF SectorOf
  <2>. QED BY <1>4, <1>7, <2>2, <2>3, Format DEF CellOf, Numbered
<1>. QED BY <1>2, <1>4, <1>5, <1>6, <1>7 DEF Kept, inr

\* A command that answered success has happened, unless the one error was ignored in it
\* that filev6_writebytes ignores, whatever else fails or dies.
THEOREM LostWritesReported ==
    SoundImages => (Spec /\ []WithinLimits => []LostWritesAreReported)
<1>1. ASSUME AInv PROVE LostWritesAreReported
  <2>1. Sound(disk) /\ acked \subseteq Commands /\ Promised
    BY <1>1 DEF AInv, IInv, TypeOK, ProcessTyped
  <2>. QED BY <2>1, KeptOnDisk DEF LostWritesAreReported, Promised
<1>. QED BY <1>1, AnswersHold, PTL

\* Without faults of the disk, a command that answered success has happened and stays
\* so through every crash.
THEOREM AckedCommandsLast ==
    SoundImages /\ MaxFaults = 0 => (Spec /\ []WithinLimits => []AckedIsDurable)
<1>1. SUFFICES ASSUME MaxFaults = 0
               PROVE  SoundImages => (Spec /\ []WithinLimits => []AckedIsDurable)
  OBVIOUS
<1>2. AInv => AckedIsDurable
  <2>1. SUFFICES ASSUME AInv PROVE AckedIsDurable
    OBVIOUS
  <2>2. Sound(disk) /\ acked \subseteq Commands /\ Promised
    BY <2>1 DEF AInv, IInv, TypeOK, ProcessTyped
  <2>3. ignored = {}
    BY <1>1, <2>1 DEF AInv, IInv, TypeOK, ProcessTyped, IgnoredAreFaults
  <2>. QED BY <2>2, <2>3, KeptOnDisk DEF AckedIsDurable, Promised
<1>. QED BY <1>2, AnswersHold, PTL

-----------------------------------------------------------------------------------
(* The volume is filled from its first data sector on, and the number behind its last *)
(* one is used at the very end.                                                       *)

\* The bitmap that mount makes marks nothing but what is in use.
LEMMA MountedTrue ==
    ASSUME NEW d, Sound(d), Filled(d)
    PROVE  fill_bitmaps(d).fbm.bits \subseteq SectorsInUse(d) /\ fill_bitmaps(d).fbm.cursor = 0
<1> DEFINE used == {inr \in ScannedInodes : inode_read(d, inr) = ERR_NONE}
           X    == UNION {UsedSectors(d, d.itab[inr]) : inr \in used}
<1>1. used = Live(d)
  <2>1. \A inr : inode_read(d, inr) = ERR_NONE <=> inr \in Live(d)
    BY DEF inode_read, Live, ERR_NONE, ERR_INODE_OUT_OF_RANGE, ERR_UNALLOCATED_INODE
  <2>. QED BY <2>1 DEF Sound, Small
<1>2. fill_bitmaps(d).fbm = MarkAll(DataBitmap, X)
  BY DEF fill_bitmaps
<1>3. ASSUME NEW inr \in Live(d), NEW s \in UsedSectors(d, d.itab[inr]), s \in Numbered
      PROVE  s \in SectorsInUse(d)
  <2> DEFINE i == d.itab[inr]
             m == SizeTot(i.size)
  <2>1. /\ i.size \in Nat /\ i.size < MAX_SIZE /\ i.mode # "free"
        /\ i.addr \in [0 .. AddrSmall - 1 -> Word]
    BY InodeInUse DEF Sound
  <2>2. m \in Nat /\ m <= AddrSmall /\ m >= 1
    <3>1. m \in Nat /\ m <= AddrSmall /\ 0 \div SectorSize \in 0 .. m - 1
      <4> HIDE DEF i
      <4>1. 0 \in 0 .. i.size
        BY <2>1
      <4>. QED BY <2>1, <4>1, Slot
    <3> HIDE DEF m
    <3>. QED BY <3>1
  <2> HIDE DEF i, m
  <2>3. PICK k \in 0 .. AddrSmall - 1 : s = i.addr[k]
    <3>1. CASE s \in {inode_findsector(Words(d), i, k) : k \in Translated(d, i)}
      <4>1. PICK k \in 0 .. m - 1 : s = inode_findsector(Words(d), i, k)
        BY <3>1 DEF Translated, m
      <4>2. s = i.addr[k]
        BY <2>1, <2>2, <4>1 DEF inode_findsector, m
      <4>. QED BY <2>2, <4>1, <4>2, Format
    <3>2. CASE s \in {i.addr[k] : k \in 0 .. m \div AddressesPerSector}
      <4>1. PICK k \in 0 .. m \div AddressesPerSector : s = i.addr[k]
        BY <3>2
      <4> DEFINE q == m \div AddressesPerSector
      <4>2. /\ m = SectorSize * q + (m % SectorSize) /\ m % SectorSize \in 0 .. SectorSize - 1
            /\ q \in Int
        BY <2>2, Format, Division DEF AddressesPerSector
      <4> HIDE DEF q
      <4>3. q <= m - 1
        <5>1. CASE q <= 0
          BY <2>2, <4>2, <5>1
        <5>2. CASE q >= 1
          <6> DEFINE a == SectorSize * q
          <6>1. a \in Int /\ a >= 2 * q
            BY <4>2, <5>2, Format, SMTT(30)
          <6>2. m = a + (m % SectorSize)
            BY <4>2
          <6> HIDE DEF a
          <6>. QED BY <2>2, <4>2, <5>2, <6>1, <6>2, Format
        <5>. QED BY <4>2, <5>1, <5>2
      <4>4. k \in 0 .. q
        BY <4>1 DEF q
      <4>. QED BY <2>2, <4>1, <4>2, <4>3, <4>4, Format
    <3>3. s \in UsedSectors(d, i)
      BY <1>3 DEF i
    <3>4. \/ s \in {inode_findsector(Words(d), i, k) : k \in Translated(d, i)}
          \/ s \in {i.addr[k] : k \in 0 .. m \div AddressesPerSector}
      BY <3>3 DEF UsedSectors, m
    <3>. QED BY <3>1, <3>2, <3>4
  <2>4. PICK p \in Positions(d, inr) : p \div SectorSize = k
    BY <1>3, <2>3 DEF Filled, NoSpareAddress, i
  <2>5. Place(d, inr, p) = s
    BY <2>3, <2>4 DEF Place, i
  <2>. QED BY <2>5, SectorInUse
<1> HIDE DEF used
<1>4. X \intersect Numbered \subseteq SectorsInUse(d)
  BY <1>1, <1>3
<1> HIDE DEF X
<1>5. /\ MarkAll(DataBitmap, X).bits = X \intersect Numbered
      /\ MarkAll(DataBitmap, X).cursor = 0
  BY DEF MarkAll, DataBitmap, bm_alloc, Numbered
<1>. QED BY <1>2, <1>4, <1>5

\* An inode that keeps its addresses and its cells has no spare address after.
LEMMA AddressesKept ==
    ASSUME NEW d, NEW e, NEW inr, NoSpareAddress(d, inr),
           e.itab[inr].addr = d.itab[inr].addr, Positions(d, inr) \subseteq Positions(e, inr)
    PROVE  NoSpareAddress(e, inr)
BY DEF NoSpareAddress

\* An image that has grown is filled still, if its inodes have no spare address and it
\* takes the number behind the last sector from a full volume only.
LEMMA FilledKept ==
    ASSUME NEW d, NEW e, Sound(d), Sound(e), Grown(d, e), Filled(d),
           s_fsize \in SectorsInUse(e) => s_fsize \in SectorsInUse(d) \/ VolumeFull(d),
           \A inr \in Live(e) : NoSpareAddress(e, inr)
    PROVE  Filled(e)
<1>1. SectorsInUse(d) \subseteq SectorsInUse(e)
  BY GrownKeeps
<1>. QED BY <1>1 DEF Filled, VolumeFull

\* A step that writes nothing new, and fills no bitmap.
LEMMA NothingWritten ==
    ASSUME FInv, IInv', fbm'.bits \subseteq fbm.bits,
           \/ image' = image /\ disk' \in {disk, image}
           \/ image' = disk /\ disk' = disk,
           Searching' => fbm'.cursor = 0,
           pc' = "secinode" => pc = "secinode" /\ found' = found
    PROVE  FInv'
<1>1. /\ Filled(image) /\ Filled(disk) /\ GrownInside(disk, image) /\ BitmapTrue
      /\ Sound(image) /\ Sound(disk) /\ Grown(disk, image)
  BY DEF FInv, IInv
<1>2. Filled(image') /\ Filled(disk')
  BY <1>1
<1>3. GrownInside(disk', image')
  <2>1. CASE image' = image /\ disk' = disk
    BY <1>1, <2>1
  <2>2. CASE image' = disk'
    BY <2>2 DEF GrownInside
  <2>. QED BY <2>1, <2>2
<1>4. SectorsInUse(disk) \subseteq SectorsInUse(disk')
  BY <1>1, GrownKeeps
<1>5. BitmapTrue'
  BY <1>1, <1>4 DEF BitmapTrue, VolumeFull
<1>. QED BY <1>2, <1>3, <1>5 DEF FInv

\* A step that puts a new write into the buffer of the stream.
LEMMA OneWritten ==
    ASSUME FInv, IInv', fbm'.bits = fbm.bits, disk' = image,
           Filled(image'), GrownInside(image, image'),
           Searching' => fbm'.cursor = 0,
           pc' = "secinode" /\ found' = s_fsize => VolumeFull(image)
    PROVE  FInv'
<1>1. SectorsInUse(disk) \subseteq SectorsInUse(image)
  BY GrownKeeps DEF FInv, IInv
<1>2. BitmapTrue'
  BY <1>1 DEF FInv, BitmapTrue
<1>. QED BY <1>2 DEF FInv

\* Mounting.
LEMMA FullMount == ASSUME FInv, IInv', NEW c \in Commands, Mount(c) PROVE FInv'
<1>1. /\ Sound(image) /\ image = disk /\ Filled(image) /\ Filled(disk)
      /\ GrownInside(disk, image) /\ pc = "idle"
  BY DEF FInv, IInv, Synced, Mount
<1>2. /\ pc' = "lookup" /\ fbm' = fill_bitmaps(image).fbm
      /\ UNCHANGED <<image, disk>>
  <2>1. fill_bitmaps(image).ret = ERR_NONE
    BY <1>1, Mounted
  <2>. QED BY <2>1 DEF Mount
<1>3. fbm'.bits \subseteq SectorsInUse(image) /\ fbm'.cursor = 0
  BY <1>1, <1>2, MountedTrue
<1>4. BitmapTrue'
  BY <1>1, <1>2, <1>3 DEF BitmapTrue
<1>. QED BY <1>1, <1>2, <1>4 DEF FInv

\* A new inode has no address.
LEMMA FullCreate == ASSUME FInv, IInv', WithinLimits', Create PROVE FInv'
<1>1. /\ Sound(image) /\ Filled(image) /\ BitmapTrue /\ pc = "create" /\ image = disk
      /\ ibm \in BmBlockArray(ROOT_INUMBER, s_isize * InodesPerSector)
      /\ Live(image) \subseteq ibm.bits /\ Small(image')
  BY DEF FInv, IInv, TypeOK, ProcessTyped, Create, BitmapsKnow, Synced, WithinLimits
<1>2. disk' = image /\ fbm' = fbm /\ Searching
  BY <1>1 DEF Create, Flush, Searching
<1>3. fbm.cursor = 0
  BY <1>1, <1>2 DEF BitmapTrue
<1>4. \/ pc' = "umount" /\ image' = image
      \/ /\ pc' = "parent"
         /\ child' \in InodeNumbers \ {0} /\ child' \notin Live(image)
         /\ Sound(image') /\ Grown(image, image')
         /\ Live(image') = Live(image) \union {child'}
         /\ SectorsInUse(image') = SectorsInUse(image)
         /\ \A i \in Live(image) : image'.itab[i] = image.itab[i]
         /\ image'.data = image.data /\ image'.itab[child'].addr = NoAddr
  BY <1>1, CreateOutcome
<1>5. CASE image' = image /\ pc' = "umount"
  BY <1>2, <1>3, <1>5, NothingWritten
<1>6. CASE pc' = "parent" /\ ~ (image' = image /\ pc' = "umount")
  <2>1. GrownInside(image, image')
    BY <1>4, <1>6 DEF GrownInside
  <2>2. ASSUME NEW inr \in Live(image') PROVE NoSpareAddress(image', inr)
    <3>1. CASE inr \in Live(image)
      <4>1. image'.itab[inr] = image.itab[inr] /\ NoSpareAddress(image, inr)
        BY <1>1, <1>4, <1>6, <3>1 DEF Filled
      <4>. QED BY <4>1, AddressesKept DEF Positions
    <3>2. CASE inr = child'
      <4>1. \A k \in 0 .. AddrSmall - 1 : image'.itab[inr].addr[k] \notin Numbered
        BY <1>4, <1>6, <3>2, Format DEF NoAddr, Numbered
      <4>. QED BY <4>1 DEF NoSpareAddress
    <3>. QED BY <1>4, <1>6, <3>1, <3>2
  <2>3. Filled(image')
    BY <1>1, <1>4, <1>6, <2>2, FilledKept
  <2>. QED BY <1>2, <1>3, <1>6, <2>1, <2>3, OneWritten
<1>. QED BY <1>4, <1>5, <1>6

\* What is filled up is a sector in use.
LEMMA FullResidual == ASSUME FInv, IInv', Residual PROVE FInv'
<1>1. /\ Sound(image) /\ Filled(image) /\ BitmapTrue /\ IInv /\ pc = "residual"
      /\ fbm' = fbm /\ Searching
  BY DEF FInv, IInv, Residual, Searching
<1>2. fbm.cursor = 0
  BY <1>1 DEF BitmapTrue
<1>3. /\ pc' = "resinode" /\ disk' = image
      /\ Sound(image') /\ Grown(image, image') /\ Live(image') = Live(image)
      /\ SectorsInUse(image') = SectorsInUse(image) /\ image'.itab = image.itab
      /\ \A t \in DOMAIN image'.data \ SectorsInUse(image) :
            t \in DOMAIN image.data /\ image'.data[t] = image.data[t]
  BY <1>1, ResidualOutcome
<1>4. \A inr \in Live(image') : NoSpareAddress(image', inr)
  BY <1>1, <1>3 DEF Filled, NoSpareAddress, Positions
<1>5. Filled(image')
  BY <1>1, <1>3, <1>4, FilledKept
<1>6. SectorsInUse(image) \subseteq DataArea \union {s_fsize}
  <2>1. SUFFICES ASSUME NEW inr \in Live(image), NEW p \in Positions(image, inr)
                 PROVE  Place(image, inr, p) \in DataArea \union {s_fsize}
    BY DEF SectorsInUse
  <2>2. Place(image, inr, p) \in s_block_start .. s_fsize
    BY <1>1, Readable, Windows
  <2>. QED BY <2>2, Format DEF DataArea
<1>7. GrownInside(image, image')
  <2>1. SUFFICES ASSUME NEW s \in DOMAIN image'.data \ DataArea
                 PROVE  \/ s \in DOMAIN image.data /\ image'.data[s] = image.data[s]
                        \/ s = s_fsize /\ VolumeFull(image)
    BY DEF GrownInside
  <2>2. CASE s \in SectorsInUse(image)
    BY <1>1, <1>6, <2>2 DEF Filled
  <2>. QED BY <1>3, <2>2
<1>. QED BY <1>1, <1>2, <1>3, <1>5, <1>7, OneWritten

\* The entry in the last sector of the parent takes no sector.
LEMMA FullResInode == ASSUME FInv, IInv', WithinLimits', ResInode PROVE FInv'
<1>1. /\ Sound(image) /\ Filled(image) /\ BitmapTrue /\ IInv /\ pc = "resinode"
      /\ fbm' = fbm /\ Searching /\ Small(image')
  BY DEF FInv, IInv, ResInode, Searching, WithinLimits
<1>2. fbm.cursor = 0
  BY <1>1 DEF BitmapTrue
<1>3. /\ pc' \in {"content", "umount"} /\ disk' = image
      /\ Sound(image') /\ Grown(image, image') /\ Live(image') = Live(image)
      /\ SectorsInUse(image') \subseteq SectorsInUse(image)
      /\ \A j \in InodeNumbers \ {parent} : image'.itab[j] = image.itab[j]
      /\ image'.data = image.data /\ image'.itab[parent].addr = image.itab[parent].addr
  BY <1>1, ResInodeOutcome
<1>4. ASSUME NEW inr \in Live(image') PROVE NoSpareAddress(image', inr)
  <2>1. /\ inr \in Live(image) /\ inr \in InodeNumbers /\ NoSpareAddress(image, inr)
        /\ Positions(image, inr) \subseteq Positions(image', inr)
    BY <1>1, <1>3, GrownKeeps DEF Filled, Live
  <2>2. image'.itab[inr].addr = image.itab[inr].addr
    BY <1>3, <2>1
  <2>. QED BY <2>1, <2>2, AddressesKept
<1>5. Filled(image')
  BY <1>1, <1>3, <1>4, FilledKept
<1>6. GrownInside(image, image')
  BY <1>3 DEF GrownInside
<1>. QED BY <1>1, <1>2, <1>3, <1>5, <1>6, OneWritten

\* The search answers the number behind the last sector only if all before it are marked,
\* and so in use.
LEMMA FullSector == ASSUME FInv, IInv', Sector PROVE FInv'
<1>1. /\ Sound(image) /\ Sound(disk) /\ Grown(disk, image) /\ Filled(image) /\ BitmapTrue
      /\ IInv /\ pc = "sector" /\ Searching /\ fbm \in BmBlockArray(s_block_start, s_fsize)
  BY DEF FInv, IInv, TypeOK, ProcessTyped, Sector, Searching
<1>2. fbm.cursor = 0 /\ fbm.bits \subseteq SectorsInUse(image)
  BY <1>1, GrownKeeps DEF BitmapTrue
<1>3. /\ fbm'.bits = fbm.bits
      /\ \/ pc' = "umount" /\ image' = image /\ disk' = disk
         \/ /\ pc' = "secinode" /\ disk' = image /\ found' = bm_find_next(fbm).ret
            /\ found' \in Numbered
            /\ \A t \in DOMAIN image'.data \ {found'} :
                  t \in DOMAIN image.data /\ image'.data[t] = image.data[t]
            /\ image'.itab = image.itab /\ Live(image') = Live(image)
            /\ Sound(image') /\ Grown(image, image')
            /\ SectorsInUse(image') = SectorsInUse(image)
  BY <1>1, SectorOutcome
<1>4. CASE pc' = "umount" /\ image' = image /\ disk' = disk
  BY <1>3, <1>4, NothingWritten DEF Searching
<1>5. CASE pc' = "secinode"
  <2>1. found' \in s_block_start .. s_fsize /\ found' # ERR_BITMAP_FULL
    BY <1>3, <1>5, Windows, FullIsNoNumber
  <2>2. found' = s_fsize => VolumeFull(image)
    <3>1. SUFFICES ASSUME found' = s_fsize, NEW s \in DataArea, s \notin SectorsInUse(image)
                   PROVE  FALSE
      BY DEF VolumeFull
    <3>2. s \in (s_block_start .. s_fsize) \ fbm.bits /\ s < s_fsize
      BY <1>2, <3>1, Format DEF DataArea
    <3>3. \A w \in 0 .. fbm.cursor - 1 : FreeInWord(fbm, w) = {}
      BY <1>2
    <3>4. bm_find_next(fbm).ret # ERR_BITMAP_FULL /\ bm_find_next(fbm).ret = s_fsize
      BY <1>3, <1>5, <2>1, <3>1
    <3>5. bm_find_next(fbm).ret <= s
      BY <1>1, <3>2, <3>3, <3>4, FindLeast, Format
    <3>. QED BY <3>2, <3>4, <3>5, Format
  <2>3. GrownInside(image, image')
    <3>1. SUFFICES ASSUME NEW s \in DOMAIN image'.data \ DataArea
                   PROVE  \/ s \in DOMAIN image.data /\ image'.data[s] = image.data[s]
                          \/ s = s_fsize /\ VolumeFull(image)
      BY DEF GrownInside
    <3>2. CASE s = found'
      <4>1. s = s_fsize
        BY <2>1, <3>1, <3>2, Format DEF DataArea
      <4>. QED BY <2>2, <3>2, <4>1
    <3>. QED BY <1>3, <1>5, <3>1, <3>2
  <2>4. \A inr \in Live(image') : NoSpareAddress(image', inr)
    BY <1>1, <1>3, <1>5 DEF Filled, NoSpareAddress, Positions
  <2>5. Filled(image')
    BY <1>1, <1>3, <1>5, <2>4, FilledKept
  <2>. QED BY <1>3, <1>5, <2>2, <2>3, <2>5, OneWritten DEF Searching
<1>. QED BY <1>3, <1>4, <1>5

\* The sector found becomes a part of the file.
LEMMA FullSecInode == ASSUME FInv, IInv', WithinLimits', SecInode PROVE FInv'
<1>1. /\ Sound(image) /\ Sound(disk) /\ Grown(disk, image) /\ Filled(image) /\ BitmapTrue
      /\ IInv /\ pc = "secinode" /\ pc \in Writing /\ FileOpen
      /\ fbm' = fbm /\ cmd' = cmd /\ Small(image')
  BY DEF FInv, IInv, SecInode, Writing, WithinLimits
<1>2. /\ disk' = image
      /\ \/ pc' = "content" /\ fv.entry /\ cmd.op = "add"
         \/ pc' = "umount"
      /\ Sound(image') /\ Grown(image, image') /\ Live(image') = Live(image)
      /\ \A j \in InodeNumbers \ {fv.inr} : image'.itab[j] = image.itab[j]
      /\ image'.data = image.data
      /\ SectorsInUse(image') \subseteq SectorsInUse(image) \union {found}
      /\ \A k \in 0 .. AddrSmall - 1 :
            \/ image'.itab[fv.inr].addr[k] = image.itab[fv.inr].addr[k]
            \/ \E p \in Positions(image', fv.inr) : p \div SectorSize = k
  BY <1>1, SecInodeOutcome
<1>3. ~ Searching'
  BY <1>1, <1>2 DEF Searching, FileOpen
<1>4. VolumeFull(disk) => VolumeFull(image)
  BY <1>1, GrownKeeps DEF VolumeFull
<1>5. ASSUME NEW inr \in Live(image') PROVE NoSpareAddress(image', inr)
  <2>1. /\ inr \in Live(image) /\ inr \in InodeNumbers /\ NoSpareAddress(image, inr)
        /\ Positions(image, inr) \subseteq Positions(image', inr)
    BY <1>1, <1>2, GrownKeeps DEF Filled, Live
  <2>2. CASE inr # fv.inr
    BY <1>2, <2>1, <2>2, AddressesKept
  <2>3. CASE inr = fv.inr
    BY <1>2, <2>1, <2>3 DEF NoSpareAddress
  <2>. QED BY <2>2, <2>3
<1>6. s_fsize \in SectorsInUse(image') => s_fsize \in SectorsInUse(image) \/ VolumeFull(image)
  BY <1>1, <1>2, <1>4 DEF BitmapTrue
<1>7. Filled(image')
  BY <1>1, <1>2, <1>5, <1>6, FilledKept
<1>8. GrownInside(image, image')
  BY <1>2 DEF GrownInside
<1>. QED BY <1>1, <1>2, <1>3, <1>7, <1>8, OneWritten

\* A process that has ended has no bitmap.
LEMMA FullForget ==
    ASSUME FInv, IInv', Forget,
           \/ image' = image /\ disk' = disk
           \/ image' = disk /\ disk' = disk
    PROVE  FInv'
<1>1. fbm'.bits = {} /\ pc' = "idle"
  BY DEF Forget, DataBitmap, bm_alloc
<1>. QED BY <1>1, NothingWritten DEF Searching

\* Every step keeps the volume filled from its first data sector on.
LEMMA FullStep == ASSUME FInv, IInv', WithinLimits', [Next]_vars PROVE FInv'
<1>1. IInv /\ BitmapTrue
  BY DEF FInv
<1>2. Searching => fbm.cursor = 0
  BY <1>1 DEF BitmapTrue
<1>3. CASE \E c \in Commands : Mount(c)
  BY <1>3, FullMount
<1>4. CASE Lookup
  <2>1. UNCHANGED <<image, disk, fbm>> /\ pc = "lookup" /\ pc' \in {"umount", "create"}
    BY <1>4 DEF Lookup, Leave
  <2>. QED BY <1>2, <2>1, NothingWritten DEF Searching
<1>5. CASE Parent
  <2>1. UNCHANGED <<image, fbm>> /\ disk' = image /\ pc = "parent"
    BY <1>5 DEF Parent, Flush
  <2>2. pc' \in {"sector", "residual"}
    BY <1>1, <1>5, ParentOutcome
  <2>. QED BY <1>2, <2>1, <2>2, NothingWritten DEF Searching
<1>6. CASE Content
  <2>1. UNCHANGED <<image, cmd, fbm>> /\ disk' = image /\ pc = "content"
    BY <1>6 DEF Content, Flush
  <2>2. \/ cmd.buf # << >> /\ pc' = "sector"
        \/ cmd.buf = << >> /\ pc' = "umount"
    BY <1>1, <1>6, ContentOutcome
  <2>. QED BY <1>2, <2>1, <2>2, NothingWritten DEF Searching
<1>7. CASE Umount
  <2>1. UNCHANGED <<image, fbm>> /\ disk' = image /\ pc' = "exit"
    BY <1>7 DEF Umount, Flush
  <2>. QED BY <2>1, NothingWritten DEF Searching
<1>8. CASE Exit \/ NameOverflow \/ Crash
  BY <1>8, FullForget DEF Exit, NameOverflow, Crash
<1>9. CASE IoError
  <2>1. /\ UNCHANGED <<cmd, fbm>>
        /\ \/ image' = disk /\ disk' = disk
           \/ image' = image /\ disk' = image
    BY <1>9 DEF IoError, Flush
  <2>2. \/ pc' \in {"idle", "umount", "exit"}
        \/ pc \in {"residual", "resinode"} /\ pc' = "content"
    BY <1>1, <1>9, IoErrorOutcome
  <2>. QED BY <1>2, <2>1, <2>2, NothingWritten DEF Searching
<1>10. CASE UNCHANGED vars
  <2>1. UNCHANGED <<image, disk, pc, cmd, fbm, found>>
    BY <1>10 DEF vars
  <2>. QED BY <1>2, <2>1, NothingWritten DEF Searching
<1>11. CASE Create \/ Residual \/ ResInode \/ Sector \/ SecInode
  BY <1>11, FullCreate, FullResidual, FullResInode, FullSector, FullSecInode
<1>. QED BY <1>3, <1>4, <1>5, <1>6, <1>7, <1>8, <1>9, <1>10, <1>11 DEF Next, Process

\* From images that are sound and filled that way, every image is, and so is what the
\* bitmaps know of them.
THEOREM FullInvariantHolds == SoundImages /\ FilledImages => (Spec /\ []WithinLimits => []FInv)
<1>1. SoundImages /\ FilledImages /\ Init /\ WithinLimits => FInv
  <2>1. SUFFICES ASSUME SoundImages, FilledImages, Init, WithinLimits PROVE FInv
    OBVIOUS
  <2>2. Filled(image) /\ disk = image /\ pc = "idle" /\ fbm.bits = {}
    BY <2>1 DEF Init, FilledImages, DataBitmap, bm_alloc
  <2>3. BitmapTrue /\ GrownInside(disk, image)
    BY <2>2 DEF BitmapTrue, GrownInside, Searching
  <2>. QED BY <2>1, <2>2, <2>3, Starts DEF FInv
<1>2. FInv /\ IInv' /\ WithinLimits' /\ [Next]_vars => FInv'
  BY FullStep
<1>. QED BY <1>1, <1>2, InvariantHolds, PTL DEF Spec

\* File data go to data sectors of the volume, and to the number behind the last one only
\* when every data sector holds a part of a file.
THEOREM VolumeIsFilledFirst ==
    SoundImages /\ FilledImages => (Spec /\ []WithinLimits => VolumeFillsFirst)
<1> DEFINE Inside ==
       \A s \in DOMAIN disk'.data :
          s \notin DOMAIN disk.data \/ disk'.data[s] # disk.data[s] =>
              s \in DataArea \/ (s = s_fsize /\ DataArea \subseteq Occupied)
<1>1. ASSUME FInv, [Next]_vars PROVE Inside
  <2>1. disk' \in {disk, image} /\ Sound(disk) /\ GrownInside(disk, image)
    BY <1>1, DiskStep DEF FInv
  <2>2. SectorsInUse(disk) \subseteq Occupied
    <3>1. SUFFICES ASSUME NEW inr \in Live(disk), NEW p \in Positions(disk, inr)
                   PROVE  Place(disk, inr, p) \in Occupied
      BY DEF SectorsInUse
    <3>2. <<inr, p>> \in LiveCells
      BY DEF LiveCells, Allocated, Live, Positions
    <3>3. SectorOf(<<inr, p>>) = Place(disk, inr, p)
      BY <2>1, Readable DEF SectorOf
    <3>. QED BY <3>2, <3>3 DEF Occupied
  <2>3. CASE disk' = disk
    BY <2>3
  <2>4. CASE disk' = image
    BY <2>1, <2>2, <2>4 DEF GrownInside, VolumeFull
  <2>. QED BY <2>1, <2>3, <2>4
<1>2. FInv /\ [Next]_vars => [Inside]_disk
  BY <1>1
<1>. QED BY <1>2, FullInvariantHolds, PTL DEF Spec, VolumeFillsFirst

-----------------------------------------------------------------------------------
(* Inodes that are lost. *)

\* The inodes that an image may have lost are finite in number.
LEMMA LostIsFinite == ASSUME NEW d PROVE IsFiniteSet(Lost(d))
<1>1. IsFiniteSet(InodeNumbers)
  <2>1. InodesPerSector * s_isize - 1 \in Int
    BY Format, SMTT(30)
  <2>. QED BY <2>1, FS_Interval DEF InodeNumbers
<1>2. Lost(d) \in SUBSET InodeNumbers
  BY DEF Lost, Live
<1>. QED BY <1>1, <1>2, FS_Subset

\* A set within another has no more elements.
LEMMA NoMore ==
    ASSUME NEW T, IsFiniteSet(T), NEW n \in Nat, Cardinality(T) <= n, NEW S, S \subseteq T
    PROVE  Cardinality(S) <= n
<1>1. IsFiniteSet(S) /\ Cardinality(S) <= Cardinality(T)
  BY FS_Subset
<1>. QED BY <1>1, FS_CardinalityType

\* One element more is one more in number, at most.
LEMMA OneMore ==
    ASSUME NEW S, IsFiniteSet(S), NEW x, NEW n \in Nat, Cardinality(S \ {x}) <= n
    PROVE  Cardinality(S) <= n + 1
<1>1. /\ Cardinality(S) \in Nat
      /\ Cardinality(S \ {x}) = IF x \in S THEN Cardinality(S) - 1 ELSE Cardinality(S)
  BY FS_CardinalityType, FS_RemoveElement
<1>. QED BY <1>1

\* What has grown has lost nothing that was not lost before, but what is new in it.
LEMMA LostShrinks ==
    ASSUME NEW d, Sound(d), NEW e, Sound(e), Grown(d, e)
    PROVE  Lost(e) \intersect Live(d) \subseteq Lost(d)
<1>1. SUFFICES ASSUME NEW i \in Lost(e) \intersect Live(d), Linked(d, i) PROVE FALSE
  BY DEF Lost
<1>2. PICK dir \in Directories(d) : \E p \in Positions(d, dir) : Cell(d, dir, p).inr = i
  BY <1>1 DEF Linked
<1>3. PICK p \in Positions(d, dir) : Cell(d, dir, p).inr = i
  BY <1>2
<1>4. dir \in Live(d)
  BY DEF Directories
<1>5. dir \in Directories(e) /\ p \in Positions(e, dir)
  BY <1>4, GrownKeeps
<1>6. Cell(e, dir, p).inr = i
  BY <1>3, <1>4 DEF Grown
<1>7. Linked(e, i)
  BY <1>5, <1>6 DEF Linked
<1>. QED BY <1>1, <1>7 DEF Lost

\* A write that makes no inode loses none.
LEMMA NothingNewLost ==
    ASSUME IInv, Sound(image'), Grown(image, image'), Live(image') = Live(image)
    PROVE  Lost(image') \subseteq Lost(image)
<1>1. Sound(image) /\ Lost(image') \subseteq Live(image')
  BY DEF IInv, Lost
<1>. QED BY <1>1, LostShrinks

\* The write that makes the entry finds the new inode.
LEMMA ChildFound ==
    ASSUME IInv, WithinLimits', ResInode \/ SecInode, fv.entry
    PROVE  Lost(image') \subseteq Lost(image) \ {child}
<1>1. Small(image') /\ pc \in Writing
  BY DEF WithinLimits, ResInode, SecInode, Writing
<1>2. /\ parent \in Directories(image) /\ fv.inr = parent
      /\ fv.buf[1] = [inr |-> child, name |-> relative_name] /\ Len(fv.buf) = 1
  BY <1>1, EntryBuffer
<1>3. /\ Sound(image') /\ Grown(image, image')
      /\ Live(image') = Live(image) /\ Directories(image') = Directories(image)
      /\ \E p \in Positions(image', parent) :
            Cell(image', parent, p) = [inr |-> child, name |-> relative_name]
  <2>1. CASE ResInode
    BY <1>1, <2>1, ResInodeOutcome
  <2>2. CASE SecInode
    <3>1. /\ Sound(image') /\ Grown(image, image')
          /\ Live(image') = Live(image) /\ Directories(image') = Directories(image)
          /\ \A k \in 1 .. Len(fv.buf) :
                /\ fv.size + k - 1 \in Positions(image', fv.inr)
                /\ Cell(image', fv.inr, fv.size + k - 1) = fv.buf[k]
      BY <1>1, <2>2, SecInodeOutcome
    <3>2. 1 \in 1 .. Len(fv.buf)
      BY <1>2
    <3>3. /\ fv.size + 1 - 1 \in Positions(image', parent)
          /\ Cell(image', parent, fv.size + 1 - 1) = [inr |-> child, name |-> relative_name]
      BY <1>2, <3>1, <3>2
    <3>. QED BY <3>1, <3>3
  <2>. QED BY <2>1, <2>2
<1>4. Linked(image', child)
  <2>1. PICK p \in Positions(image', parent) :
           Cell(image', parent, p) = [inr |-> child, name |-> relative_name]
    BY <1>3
  <2>2. Cell(image', parent, p).inr = child
    BY <2>1
  <2>. QED BY <1>2, <1>3, <2>2 DEF Linked
<1>5. Lost(image') \subseteq Lost(image)
  BY <1>3, NothingNewLost
<1>. QED BY <1>4, <1>5 DEF Lost

\* What a step of the process leaves lost, next to what was lost before.
LEMMA LostByStep ==
    ASSUME IInv, WithinLimits', RoomForEntries', (\E c \in Commands : Mount(c)) \/ Process
    PROVE  /\ Lost(image') \ ToCome' \subseteq Lost(image) \ ToCome
           /\ \/ Lost(disk') \ ToComeOnDisk' \subseteq Lost(disk) \ ToComeOnDisk
              \/ Lost(disk') \ ToComeOnDisk' \subseteq Lost(image) \ ToCome
<1>1. /\ Sound(image) /\ ProcessTyped /\ Synced /\ BitmapsKnow
      /\ Small(image')
  BY DEF IInv, TypeOK, WithinLimits
<1>2. CASE \E c \in Commands : Mount(c)
  <2>1. PICK c \in Commands : Mount(c)
    BY <1>2
  <2>2. pc = "idle" /\ pc' \in {"idle", "lookup"} /\ UNCHANGED <<image, disk>>
    BY <2>1 DEF Mount
  <2>. QED BY <2>2 DEF ToCome, ToComeOnDisk, Entering, Writing
<1>3. CASE Lookup
  <2>1. pc = "lookup" /\ pc' \in {"create", "umount"} /\ UNCHANGED <<image, disk>>
    BY <1>3 DEF Lookup, Leave
  <2>. QED BY <2>1 DEF ToCome, ToComeOnDisk, Entering, Writing
<1>4. CASE Create
  <2>1. /\ Live(image) \subseteq ibm.bits
        /\ ibm \in BmBlockArray(ROOT_INUMBER, s_isize * InodesPerSector)
        /\ pc = "create" /\ disk' = image /\ image = disk
    BY <1>1, <1>4 DEF BitmapsKnow, Searching, Create, ProcessTyped, Synced, Flush
  <2>2. \/ pc' = "umount" /\ image' = image
        \/ /\ pc' = "parent" /\ Sound(image') /\ Grown(image, image')
           /\ Live(image') = Live(image) \union {child'}
    BY <1>1, <1>4, <2>1, CreateOutcome
  <2>3. CASE pc' = "umount" /\ image' = image
    BY <2>1, <2>3 DEF ToCome, ToComeOnDisk, Entering, Writing
  <2>4. CASE /\ pc' = "parent" /\ Sound(image') /\ Grown(image, image')
             /\ Live(image') = Live(image) \union {child'}
    <3>1. Lost(image') \intersect Live(image) \subseteq Lost(image)
      BY <1>1, <2>4, LostShrinks
    <3>2. Lost(image') \subseteq Live(image) \union {child'}
      BY <2>4 DEF Lost
    <3>3. ToCome' = {child'} /\ ToCome = {} /\ ToComeOnDisk = {}
      BY <2>1, <2>4 DEF ToCome, ToComeOnDisk, Entering, Writing
    <3>. QED BY <2>1, <3>1, <3>2, <3>3
  <2>. QED BY <2>2, <2>3, <2>4
<1>5. CASE NameOverflow \/ Exit
  <2>1. /\ pc \in {"create", "exit"} /\ pc' = "idle" /\ UNCHANGED <<image, disk>>
    BY <1>5 DEF NameOverflow, Exit, Forget
  <2>. QED BY <2>1 DEF ToCome, ToComeOnDisk, Entering, Writing
<1>6. CASE Parent
  <2>1. /\ pc = "parent" /\ pc' \in {"sector", "residual"} /\ fv'.entry
        /\ image' = image /\ disk' = image /\ child' = child
    <3>1. /\ pc' \in {"sector", "residual"}
          /\ fv' = [inr |-> parent, inode |-> image.itab[parent],
                    buf |-> <<[inr |-> child, name |-> relative_name]>>,
                    size |-> image.itab[parent].size, entry |-> TRUE]
      BY <1>6, ParentOutcome
    <3>2. fv'.entry
      BY <3>1
    <3>. QED BY <1>6, <3>1, <3>2 DEF Parent, Flush
  <2>. QED BY <2>1 DEF ToCome, ToComeOnDisk, Entering, Writing
<1>7. CASE Residual
  <2>1. /\ pc = "residual" /\ pc' = "resinode" /\ fv' = fv /\ disk' = image /\ child' = child
        /\ Lost(image') \subseteq Lost(image)
    BY <1>7, ResidualOutcome, NothingNewLost DEF Residual
  <2>. QED BY <2>1 DEF ToCome, ToComeOnDisk, Entering, Writing
<1>8. CASE ResInode
  <2>1. pc = "resinode" /\ fv.entry /\ child' = child
    BY <1>8 DEF ResInode, IInv, FileOpen, Writing
  <2>2. disk' = image /\ pc' \in {"content", "umount"}
    BY <1>1, <1>8, ResInodeOutcome
  <2>3. Lost(image') \subseteq Lost(image) \ {child}
    BY <1>8, <2>1, ChildFound
  <2>. QED BY <2>1, <2>2, <2>3 DEF ToCome, ToComeOnDisk, Entering, Writing
<1>9. CASE Sector
  <2>1. pc = "sector" /\ child' = child /\ fv' = fv /\ child # 0
    <3>1. child \in Live(image)
      BY <1>9 DEF IInv, ChildCreated, Writing, Sector
    <3>. QED BY <1>9, <3>1 DEF Sector, Live
  <2>2. ~ (pc' = "umount" /\ ret' = ERR_BITMAP_FULL)
    BY <2>1 DEF RoomForEntries
  <2>3. /\ pc' = "secinode" /\ disk' = image
        /\ Sound(image') /\ Grown(image, image') /\ Live(image') = Live(image)
    BY <1>1, <1>9, <2>2, SectorOutcome
  <2>4. Lost(image') \subseteq Lost(image)
    BY <2>3, NothingNewLost
  <2>. QED BY <2>1, <2>3, <2>4 DEF ToCome, ToComeOnDisk, Entering, Writing
<1>10. CASE SecInode
  <2>1. pc = "secinode" /\ child' = child
    BY <1>10 DEF SecInode
  <2>2. /\ disk' = image /\ pc' \in {"content", "umount"}
        /\ Sound(image') /\ Grown(image, image') /\ Live(image') = Live(image)
    BY <1>1, <1>10, SecInodeOutcome
  <2>3. Lost(image') \subseteq Lost(image) \ (IF fv.entry THEN {child} ELSE {})
    BY <1>10, <2>2, ChildFound, NothingNewLost
  <2>. QED BY <2>1, <2>2, <2>3 DEF ToCome, ToComeOnDisk, Entering, Writing
<1>11. CASE Content
  <2>1. /\ pc = "content" /\ image' = image /\ disk' = image /\ child' = child
    BY <1>11 DEF Content, Flush
  <2>2. pc' \in {"sector", "umount"} /\ ~ fv'.entry
    <3>1. fv'.entry = FALSE
      BY <1>11, ContentOutcome
    <3>. QED BY <1>11, <3>1, ContentOutcome
  <2>. QED BY <2>1, <2>2 DEF ToCome, ToComeOnDisk, Entering, Writing
<1>12. CASE Umount
  <2>1. pc = "umount" /\ pc' = "exit" /\ image' = image /\ disk' = image
    BY <1>12 DEF Umount, Flush
  <2>. QED BY <2>1 DEF ToCome, ToComeOnDisk, Entering, Writing
<1>. QED BY <1>2, <1>3, <1>4, <1>5, <1>6, <1>7, <1>8, <1>9, <1>10, <1>11, <1>12 DEF Process

\* Only a crash or an error can lose one inode more.
LEMMA FewLostStep ==
    ASSUME IInv, WithinLimits', RoomForEntries', [Next]_vars, FewLost
    PROVE  FewLost'
<1> DEFINE n == crashes + faults
<1>1. n \in Nat /\ crashes \in Nat /\ faults \in Nat
  BY CommandsAssumption DEF IInv, TypeOK, ProcessTyped
<1>2. /\ IsFiniteSet(Lost(image)) /\ IsFiniteSet(Lost(disk))
      /\ IsFiniteSet(Lost(image) \ ToCome) /\ IsFiniteSet(Lost(disk) \ ToComeOnDisk)
  BY LostIsFinite, FS_Subset
<1>3. Cardinality(Lost(image) \ ToCome) <= n /\ Cardinality(Lost(disk) \ ToComeOnDisk) <= n
  BY DEF FewLost
<1>4. Cardinality(Lost(image)) <= n + 1 /\ Cardinality(Lost(disk)) <= n + 1
  <2>1. /\ Lost(image) \ {child} \subseteq Lost(image) \ ToCome
        /\ Lost(disk) \ {child} \subseteq Lost(disk) \ ToComeOnDisk
    BY DEF ToCome, ToComeOnDisk
  <2>2. Cardinality(Lost(image) \ {child}) <= n /\ Cardinality(Lost(disk) \ {child}) <= n
    <3> HIDE DEF n
    <3>. QED BY <1>1, <1>2, <1>3, <2>1, NoMore
  <2> HIDE DEF n
  <2>. QED BY <1>1, <1>2, <2>2, OneMore
<1>5. CASE (\E c \in Commands : Mount(c)) \/ Process
  <2>1. /\ Lost(image') \ ToCome' \subseteq Lost(image) \ ToCome
        /\ \/ Lost(disk') \ ToComeOnDisk' \subseteq Lost(disk) \ ToComeOnDisk
           \/ Lost(disk') \ ToComeOnDisk' \subseteq Lost(image) \ ToCome
    BY <1>5, LostByStep
  <2>2. crashes' = crashes /\ faults' = faults
    BY <1>5 DEF Process, Mount, Lookup, Create, NameOverflow, Parent, Residual, ResInode, Sector,
                SecInode, Content, Umount, Exit, history
  <2>3. /\ Cardinality(Lost(image') \ ToCome') <= n
        /\ Cardinality(Lost(disk') \ ToComeOnDisk') <= n
    <3> HIDE DEF n
    <3>. QED BY <1>1, <1>2, <1>3, <2>1, NoMore
  <2>. QED BY <2>2, <2>3 DEF FewLost
<1>6. CASE Crash \/ IoError
  <2>1. image' = disk' /\ disk' \in {disk, image} /\ crashes' + faults' = n + 1
    BY <1>1, <1>6 DEF Crash, IoError, Flush
  <2>2. /\ Cardinality(Lost(image') \ ToCome') <= n + 1
        /\ Cardinality(Lost(disk') \ ToComeOnDisk') <= n + 1
    <3>1. /\ Lost(image') \in {Lost(disk), Lost(image)}
          /\ Lost(disk') \in {Lost(disk), Lost(image)}
      BY <2>1
    <3>2. n + 1 \in Nat
      BY <1>1
    <3>3. ASSUME NEW S, IsFiniteSet(S), Cardinality(S) <= n + 1, NEW X
          PROVE  Cardinality(S \ X) <= n + 1
      <4> HIDE DEF n
      <4>. QED BY <3>2, <3>3, NoMore
    <3> HIDE DEF n
    <3>. QED BY <1>2, <1>4, <3>1, <3>3
  <2>. QED BY <2>1, <2>2 DEF FewLost
<1>7. CASE UNCHANGED vars
  BY <1>7 DEF vars, history, FewLost, ToCome, ToComeOnDisk, Entering
<1>. QED BY <1>5, <1>6, <1>7 DEF Next

\* What few images have lost is what the orphans on the disk are.
LEMMA OrphansAreLost == ASSUME IInv, FewLost PROVE OrphansAreAccounted
<1>1. Sound(disk) /\ crashes + faults \in Nat
  BY CommandsAssumption DEF IInv, TypeOK, ProcessTyped
<1>2. Orphans \subseteq Lost(disk)
  <2>1. SUFFICES ASSUME NEW i \in Orphans PROVE i \in Lost(disk)
    OBVIOUS
  <2>2. i \in Live(disk) \ {ROOT_INUMBER} /\ \A l \in Links : CellOf(l).inr # i
    BY DEF Orphans, Allocated, Live
  <2>3. ASSUME NEW dir \in Directories(disk), NEW p \in Positions(disk, dir)
        PROVE  Cell(disk, dir, p).inr # i
    <3>1. dir \in Live(disk) /\ dir \in Allocated /\ dir \in Dirs
      BY DEF Directories, Live, Allocated, Dirs
    <3>2. <<dir, p>> \in Links
      <4>1. <<dir, p>> \in {dir} \X (0 .. disk.itab[dir].size - 1)
        BY DEF Positions
      <4>2. <<dir, p>> \in LiveCells
        BY <3>1, <4>1 DEF LiveCells
      <4>. QED BY <3>1, <4>2 DEF Links
    <3>3. CellOf(<<dir, p>>) = Cell(disk, dir, p)
      BY <1>1, <3>1, Readable DEF CellOf
    <3>. QED BY <2>2, <3>2, <3>3
  <2>. QED BY <2>2, <2>3 DEF Lost, Linked
<1>3. Orphans \ (IF pc = "idle" THEN {} ELSE {child}) \subseteq Lost(disk) \ ToComeOnDisk
  <2>1. ToComeOnDisk \subseteq (IF pc = "idle" THEN {} ELSE {child})
    BY DEF ToComeOnDisk, Writing
  <2>. QED BY <1>2, <2>1
<1>4. IsFiniteSet(Lost(disk) \ ToComeOnDisk)
  BY LostIsFinite, FS_Subset
<1>. QED BY <1>1, <1>3, <1>4, NoMore DEF FewLost, OrphansAreAccounted

\* From images that have lost no inode, and as long as the volume has room for the
\* entries, few are lost.
LEMMA FewAreLost ==
    SoundImages /\ NothingLost =>
        (Spec /\ []WithinLimits /\ []RoomForEntries => [](IInv /\ FewLost))
<1>1. SoundImages /\ NothingLost /\ Init /\ WithinLimits => IInv /\ FewLost
  <2>1. SUFFICES ASSUME SoundImages, NothingLost, Init, WithinLimits PROVE IInv /\ FewLost
    OBVIOUS
  <2>2. Lost(image) = {} /\ Lost(disk) = {} /\ crashes = 0 /\ faults = 0
    BY <2>1 DEF Init, NothingLost
  <2>3. Lost(image) \ ToCome = {} /\ Lost(disk) \ ToComeOnDisk = {}
    BY <2>2
  <2>4. FewLost
    BY <2>2, <2>3, FS_EmptySet DEF FewLost
  <2>. QED BY <2>1, <2>4, Starts
<1>2. IInv /\ FewLost /\ WithinLimits' /\ RoomForEntries' /\ [Next]_vars => IInv' /\ FewLost'
  BY NextStep, FewLostStep
<1>. QED BY <1>1, <1>2, PTL DEF Spec

\* The whole invariant that the run `faults' checks holds, from images that have lost no
\* inode and are filled from the first data sector on.
THEOREM WholeInvariantHolds ==
    SoundImages /\ FilledImages /\ NothingLost =>
        (Spec /\ []WithinLimits /\ []RoomForEntries => []Inv)
<1>1. AInv /\ FInv /\ FewLost => Inv
  BY DEF Inv
<1>. QED BY <1>1, AnswersHold, FullInvariantHolds, FewAreLost, PTL

\* An inode is lost only where a process died or an access to the disk failed, and one
\* at most each time.
THEOREM OrphansAccounted ==
    SoundImages /\ NothingLost =>
        (Spec /\ []WithinLimits /\ []RoomForEntries => []OrphansAreAccounted)
<1>1. IInv /\ FewLost => OrphansAreAccounted
  BY OrphansAreLost
<1>. QED BY <1>1, FewAreLost, PTL

-----------------------------------------------------------------------------------
(* The commands implement Namespace. *)

\* The names that lead somewhere on image d.
Leads(d) == {p \in Universe : direntv6_dirlookup(d, ROOT_INUMBER, p) \in Live(d)}
Node(d, p) == [path |-> p, kind |-> d.itab[direntv6_dirlookup(d, ROOT_INUMBER, p)].mode]
TreeIn(d) == {Node(d, p) : p \in Leads(d)}

\* The tree is the one on the disk.
LEMMA TreeOfDisk == Tree = TreeIn(disk)
<1>1. Allocated = Live(disk)
  BY DEF Allocated, Live
<1>2. \A node : node \in Tree <=> \E p \in Universe : InumberOf(p) \in Live(disk) /\ node = Node(disk, p)
  BY <1>1 DEF Tree, Node, InumberOf
<1>3. \A node : node \in TreeIn(disk) <=> \E p \in Universe : InumberOf(p) \in Live(disk) /\ node = Node(disk, p)
  BY DEF TreeIn, Leads, InumberOf
<1>. QED BY <1>2, <1>3

\* So it is after a step.
LEMMA TreeOfNextDisk == Tree' = TreeIn(disk')
<1>1. Allocated' = Live(disk')
  BY DEF Allocated, Live
<1>2. \A node : node \in Tree' <=> \E p \in Universe : InumberOf(p)' \in Live(disk') /\ node = Node(disk', p)
  BY <1>1 DEF Tree, Node, InumberOf
<1>3. \A node : node \in TreeIn(disk') <=> \E p \in Universe : InumberOf(p)' \in Live(disk') /\ node = Node(disk', p)
  BY DEF TreeIn, Leads, InumberOf
<1>. QED BY <1>2, <1>3

\* The names the commands deal with are paths, none of them empty.
LEMMA NamesOfCommands ==
    ASSUME NEW c \in Commands
    PROVE  /\ c.path \in Seq(Names \union LongNames) /\ Len(c.path) \in Nat
           /\ \A n \in 1 .. Len(c.path) : SubSeq(c.path, 1, n) \in Universe
           /\ Len(c.path) >= 1 => c.path \in Universe
           /\ \A p \in Universe : p \in Seq(Names \union LongNames)
<1> DEFINE T == Names \union LongNames
<1>1. \A x \in Commands : x.path \in Seq(T)
  BY CommandsAssumption DEF CommandSet
<1> HIDE DEF T
<1>2. \A x \in Commands : \A n \in 1 .. Len(x.path) : SubSeq(x.path, 1, n) \in Seq(T)
  <2>1. SUFFICES ASSUME NEW x \in Commands, NEW n \in 1 .. Len(x.path)
                 PROVE  SubSeq(x.path, 1, n) \in Seq(T)
    OBVIOUS
  <2>2. PICK path \in Seq(T) : path = x.path
    BY <1>1
  <2>3. \A k \in 1 .. Len(path) : SubSeq(path, 1, k) \in Seq(T)
    OBVIOUS
  <2>. QED BY <2>2, <2>3
<1>3. \A p \in Universe : p \in Seq(T)
  BY <1>2 DEF Universe
<1>4. \A n \in 1 .. Len(c.path) : SubSeq(c.path, 1, n) \in Universe
  BY DEF Universe
<1>5. PICK path \in Seq(T) : path = c.path
  BY <1>1
<1>6. Len(path) \in Nat /\ SubSeq(path, 1, Len(path)) = path
  OBVIOUS
<1>7. Len(c.path) >= 1 => c.path \in Universe
  <2>1. SUFFICES ASSUME Len(c.path) >= 1 PROVE c.path \in Universe
    OBVIOUS
  <2>2. Len(path) \in 1 .. Len(c.path)
    BY <1>5, <1>6, <2>1
  <2>3. SubSeq(c.path, 1, Len(path)) \in Universe
    BY <1>4, <2>2
  <2>. QED BY <1>5, <1>6, <2>3
<1>. QED BY <1>1, <1>3, <1>4, <1>5, <1>6, <1>7 DEF T

\* A job is never the absence of one.
LEMMA JobIsNone ==
    ASSUME IInv
    PROVE  /\ pc # "idle" => Job # NoJob /\ Job.cmd = cmd /\ Job.entered = Entered
           /\ pc = "idle" => Job = NoJob
<1>1. SUFFICES ASSUME pc # "idle" PROVE Job # NoJob /\ Job.cmd = cmd /\ Job.entered = Entered
  BY DEF Job
<1>2. cmd \in Commands
  BY <1>1 DEF IInv
<1>3. Entered \in BOOLEAN
  BY DEF Entered
<1>4. Job = [cmd |-> cmd, entered |-> Entered]
  BY <1>1 DEF Job
<1>. QED BY <1>2, <1>3, <1>4, NoJobAssumption

\* The image the disk becomes has the same names, or one more, that of the request.
LEMMA TreeStep ==
    ASSUME AInv, cmd \in Commands
    PROVE  \/ /\ TreeIn(image) = TreeIn(disk)
              /\ direntv6_dirlookup(image, ROOT_INUMBER, cmd.path)
                    = direntv6_dirlookup(disk, ROOT_INUMBER, cmd.path)
           \/ /\ ~ Entered /\ child # 0
              /\ direntv6_dirlookup(image, ROOT_INUMBER, cmd.path) = child
              /\ TreeIn(image) = TreeIn(disk) \union
                    {[path |-> cmd.path, kind |-> IF cmd.op = "mkdir" THEN "dir" ELSE "file"]}
              /\ \A node \in TreeIn(disk) : node.path # cmd.path
              /\ \/ Len(cmd.path) = 1
                 \/ \E node \in TreeIn(disk) :
                       /\ node.kind = "dir"
                       /\ node.path = SubSeq(cmd.path, 1, Len(cmd.path) - 1)
<1> DEFINE T == Names \union LongNames
           r(p) == direntv6_dirlookup(disk, ROOT_INUMBER, p)
           s(p) == direntv6_dirlookup(image, ROOT_INUMBER, p)
<1>1. /\ Sound(disk) /\ Sound(image) /\ Grown(disk, image) /\ DiskBehind
      /\ Live(disk) \subseteq Live(image)
  BY GrownKeeps DEF AInv, IInv
<1>2. /\ cmd.path \in Seq(T) /\ Len(cmd.path) \in Nat
      /\ \A n \in 1 .. Len(cmd.path) : SubSeq(cmd.path, 1, n) \in Universe
      /\ Len(cmd.path) >= 1 => cmd.path \in Universe
      /\ \A p \in Universe : p \in Seq(T)
  BY NamesOfCommands
<1> HIDE DEF T
<1>3. \A p \in Universe : r(p) \in Live(disk) => s(p) = r(p) /\ Node(image, p) = Node(disk, p)
  <2>1. SUFFICES ASSUME NEW p \in Universe, r(p) \in Live(disk)
                 PROVE  s(p) = r(p) /\ Node(image, p) = Node(disk, p)
    OBVIOUS
  <2>2. s(p) = r(p)
    BY <1>1, <1>2, <2>1, PathStays
  <2>3. image.itab[r(p)].mode = disk.itab[r(p)].mode
    BY <1>1, <2>1 DEF Grown
  <2>. QED BY <2>2, <2>3 DEF Node
<1>4. CASE \A dir \in Directories(disk) : image.itab[dir].size = disk.itab[dir].size
  <2>1. \A p \in Seq(T) : s(p) = r(p)
    BY <1>1, <1>4, SamePaths
  <2>2. \A p \in Universe : r(p) \in Live(image) => r(p) \in Live(disk)
    <3>1. SUFFICES ASSUME NEW p \in Universe, r(p) \in Live(image) PROVE r(p) \in Live(disk)
      OBVIOUS
    <3>2. (r(p) \in Live(disk) /\ r(p) \notin error_codes) \/ r(p) \in error_codes
      BY <1>1, <1>2, PathEnds
    <3>. QED BY <3>1, <3>2, LiveIsAnswer
  <2>3. Leads(image) = Leads(disk)
    BY <1>1, <1>2, <2>1, <2>2 DEF Leads
  <2>4. \A p \in Leads(disk) : Node(image, p) = Node(disk, p)
    BY <1>3 DEF Leads
  <2>5. TreeIn(image) = TreeIn(disk)
    BY <2>3, <2>4 DEF TreeIn
  <2>. QED BY <1>2, <2>1, <2>5
<1>5. CASE ~ \A dir \in Directories(disk) : image.itab[dir].size = disk.itab[dir].size
  <2>1. /\ parent \in Directories(disk) /\ EntryPending
        /\ \A dir \in Directories(disk) : dir = parent \/ image.itab[dir].size = disk.itab[dir].size
    BY <1>1, <1>5 DEF DiskBehind
  <2>2. /\ r(absolute_name) = parent
        /\ relative_name \in Names /\ ~ Holds(disk, parent, relative_name)
        /\ \A p \in Positions(image, parent) \ Positions(disk, parent) :
              Cell(image, parent, p) = [inr |-> child, name |-> relative_name]
        /\ child \in Live(image) /\ image.itab[child].size = 0
        /\ image.itab[child].mode = (IF cmd.op = "mkdir" THEN "dir" ELSE "file")
    BY <2>1 DEF EntryPending
  <2>3. parent \in Live(disk) /\ parent \in Live(image) /\ parent \in Directories(image)
    BY <1>1, <2>1, GrownKeeps DEF Directories
  <2>4. /\ relative_name \notin LongNames /\ ~ Bare
        /\ absolute_name = SubSeq(cmd.path, 1, Len(cmd.path) - 1)
        /\ relative_name = cmd.path[Len(cmd.path)] /\ Len(cmd.path) >= 1
        /\ absolute_name \in Seq(T)
    BY <2>2, VolumeAssumption, PathParts, PathsAreSequences DEF Bare, T
  <2>5. r(cmd.path) = ERR_NO_SUCH_FILE
    <3>1. r(cmd.path) = LookupEntry(disk, parent, relative_name)
      BY <1>1, <2>2, <2>3, <2>4, CommandLookup
    <3>. QED BY <1>1, <2>1, <2>2, <3>1, EntryFound
  <2>6. s(cmd.path) = child
    <3>1. s(absolute_name) = parent
      <4>1. r(absolute_name) = parent /\ parent \in Live(disk) /\ absolute_name \in Seq(T)
        BY <2>2, <2>3, <2>4
      <4> HIDE DEF T
      <4>2. direntv6_dirlookup(image, ROOT_INUMBER, absolute_name) =
               direntv6_dirlookup(disk, ROOT_INUMBER, absolute_name)
        BY <1>1, <4>1, PathStays
      <4>. QED BY <4>1, <4>2
    <3>2. PICK p \in Positions(image, parent) \ Positions(disk, parent) : TRUE
      BY <2>1 DEF EntryPending
    <3>3. Cell(image, parent, p) = [inr |-> child, name |-> relative_name]
      BY <2>2, <3>2
    <3>. QED BY <1>1, <2>2, <2>3, <3>1, <3>2, <3>3, EntryLeads
  <2>7. child # 0 /\ child \notin error_codes /\ ERR_NO_SUCH_FILE \in error_codes
    BY <2>2, LiveIsAnswer DEF error_codes, ERR_NO_SUCH_FILE
  <2>8. ~ Entered
    BY <2>5, <2>7 DEF Entered, InumberOf
  <2>9. cmd.path \notin Leads(disk)
    <3>1. r(cmd.path) \notin Live(disk)
      BY <2>5, <2>7, LiveIsAnswer
    <3>. QED BY <3>1 DEF Leads
  <2>10. Leads(image) = Leads(disk) \union {cmd.path}
    <3>1. Leads(disk) \subseteq Leads(image)
      BY <1>1, <1>3 DEF Leads
    <3>2. cmd.path \in Leads(image)
      BY <1>2, <2>2, <2>4, <2>6 DEF Leads
    <3>3. ASSUME NEW p \in Leads(image), p \notin Leads(disk) PROVE p = cmd.path
      <4>1. p \in Seq(T) /\ s(p) \in Live(image) /\ r(p) \notin Live(disk)
        BY <1>2, <3>3 DEF Leads
      <4>2. s(p) # r(p)
        <5>1. (r(p) \in Live(disk) /\ r(p) \notin error_codes) \/ r(p) \in error_codes
          BY <1>1, <4>1, PathEnds
        <5>. QED BY <4>1, <5>1, LiveIsAnswer
      <4>3. /\ Len(p) >= 1 /\ p[Len(p)] = relative_name
            /\ r(SubSeq(p, 1, Len(p) - 1)) = parent
        <5>1. OneEntryMore(disk, image, parent, child, relative_name)
          BY <2>1, <2>2 DEF OneEntryMore
        <5>2. /\ direntv6_dirlookup(image, ROOT_INUMBER, p) \in Live(image)
              /\ direntv6_dirlookup(image, ROOT_INUMBER, p) # direntv6_dirlookup(disk, ROOT_INUMBER, p)
              /\ p \in Seq(T)
          BY <4>1, <4>2
        <5> HIDE DEF r, s
        <5>3. /\ Len(p) >= 1 /\ p[Len(p)] = relative_name
              /\ direntv6_dirlookup(disk, ROOT_INUMBER, SubSeq(p, 1, Len(p) - 1)) = parent
          BY <1>1, <5>1, <5>2, OnePathMore
        <5>. QED BY <5>3 DEF r
      <4>4. PICK path \in Seq(T) : path = p
        BY <4>1
      <4>5. SubSeq(path, 1, Len(path) - 1) \in Seq(T)
        <5>1. Len(path) \in Nat /\ Len(path) >= 1
          BY <4>3, <4>4
        <5>2. \A n \in 0 .. Len(path) : SubSeq(path, 1, n) \in Seq(T)
          OBVIOUS
        <5>. QED BY <5>1, <5>2
      <4>6. SubSeq(path, 1, Len(path) - 1) = absolute_name
        BY <1>1, <2>2, <2>3, <2>4, <4>3, <4>4, <4>5, PathsAreUnique
      <4>7. path[Len(path)] = cmd.path[Len(cmd.path)] /\ Len(path) >= 1
        BY <2>4, <4>3, <4>4
      <4>8. path = cmd.path
        BY <1>2, <2>4, <4>6, <4>7, FrontAndLast
      <4>. QED BY <4>4, <4>8
    <3>. QED BY <3>1, <3>2, <3>3
  <2>11. TreeIn(image) = TreeIn(disk) \union
            {[path |-> cmd.path, kind |-> IF cmd.op = "mkdir" THEN "dir" ELSE "file"]}
    <3>1. \A p \in Leads(disk) : Node(image, p) = Node(disk, p)
      BY <1>3 DEF Leads
    <3>2. Node(image, cmd.path) = [path |-> cmd.path, kind |-> IF cmd.op = "mkdir" THEN "dir" ELSE "file"]
      BY <2>2, <2>6 DEF Node
    <3>. QED BY <2>10, <3>1, <3>2 DEF TreeIn
  <2>12. \A node \in TreeIn(disk) : node.path # cmd.path
    BY <2>9 DEF TreeIn, Node
  <2>13. ASSUME Len(cmd.path) # 1
         PROVE  \E node \in TreeIn(disk) :
                   node.kind = "dir" /\ node.path = SubSeq(cmd.path, 1, Len(cmd.path) - 1)
    <3>1. Len(cmd.path) - 1 \in 1 .. Len(cmd.path)
      <4>1. \A n \in Nat : n >= 1 /\ n # 1 => n - 1 \in 1 .. n
        OBVIOUS
      <4>. QED BY <1>2, <2>4, <2>13, <4>1
    <3>2. absolute_name \in Universe
      BY <1>2, <2>4, <3>1
    <3>3. absolute_name \in Leads(disk)
      BY <2>2, <2>3, <3>2 DEF Leads
    <3>4. Node(disk, absolute_name) = [path |-> absolute_name, kind |-> "dir"]
      BY <2>1, <2>2 DEF Node, Directories
    <3>5. Node(disk, absolute_name) \in TreeIn(disk)
      BY <3>3 DEF TreeIn
    <3>6. Node(disk, absolute_name).kind = "dir" /\ Node(disk, absolute_name).path = absolute_name
      BY <3>4
    <3>. QED BY <2>4, <3>5, <3>6
  <2>. QED BY <2>6, <2>7, <2>8, <2>11, <2>12, <2>13
<1>. QED BY <1>4, <1>5

\* A step of the process that does not end it enters its name when it writes out the
\* image with the entry, and is invisible otherwise.
LEMMA FlushRefines ==
    ASSUME AInv, IInv', pc # "idle", pc' # "idle", disk' \in {disk, image},
           UNCHANGED <<cmd, child, acked>>
    PROVE  NS!Enter \/ UNCHANGED NS!nvars
<1>1. IInv /\ cmd \in Commands /\ cmd' = cmd /\ child' = child /\ acked' = acked
  BY DEF AInv, IInv
<1>2. /\ Tree = TreeIn(disk) /\ Tree' = TreeIn(disk')
      /\ Job # NoJob /\ Job = [cmd |-> cmd, entered |-> Entered]
      /\ Job' = [cmd |-> cmd, entered |-> Entered']
  BY <1>1, TreeOfDisk, TreeOfNextDisk, JobIsNone DEF Job
<1>3. Entered' <=> child # 0 /\ direntv6_dirlookup(disk', ROOT_INUMBER, cmd.path) = child
  BY <1>1 DEF Entered, InumberOf
<1>4. Entered <=> child # 0 /\ direntv6_dirlookup(disk, ROOT_INUMBER, cmd.path) = child
  BY DEF Entered, InumberOf
<1>5. ASSUME TreeIn(disk') = TreeIn(disk),
             direntv6_dirlookup(disk', ROOT_INUMBER, cmd.path)
                = direntv6_dirlookup(disk, ROOT_INUMBER, cmd.path)
      PROVE  UNCHANGED NS!nvars
  <2>1. Entered' <=> Entered
    BY <1>3, <1>4, <1>5
  <2>2. Entered' = Entered
    <3>1. Entered \in BOOLEAN /\ Entered' \in BOOLEAN
      BY DEF Entered
    <3>. QED BY <2>1, <3>1
  <2>3. Tree' = Tree /\ Job' = Job
    BY <1>2, <1>5, <2>2
  <2>. QED BY <1>1, <2>3 DEF NS!nvars
<1>6. CASE disk' = disk
  BY <1>5, <1>6
<1>7. ASSUME disk' = image, ~ Entered, child # 0,
             direntv6_dirlookup(image, ROOT_INUMBER, cmd.path) = child,
             TreeIn(image) = TreeIn(disk) \union
                {[path |-> cmd.path, kind |-> IF cmd.op = "mkdir" THEN "dir" ELSE "file"]},
             \A node \in TreeIn(disk) : node.path # cmd.path,
             \/ Len(cmd.path) = 1
             \/ \E node \in TreeIn(disk) :
                   /\ node.kind = "dir"
                   /\ node.path = SubSeq(cmd.path, 1, Len(cmd.path) - 1)
      PROVE  NS!Enter
  <2>1. Entered' /\ Entered' = TRUE
    <3>1. Entered'
      BY <1>3, <1>7
    <3>2. Entered' \in BOOLEAN
      BY DEF Entered
    <3>. QED BY <3>1, <3>2
  <2>2. Job.cmd = cmd /\ Job.entered = Entered
    BY <1>2
  <2>3. Job' = [cmd |-> Job.cmd, entered |-> TRUE]
    <3>1. Job' = [cmd |-> cmd, entered |-> TRUE]
      BY <1>2, <2>1
    <3>. QED BY <2>2, <3>1
  <2>4. NS!KindOf(Job.cmd) = IF cmd.op = "mkdir" THEN "dir" ELSE "file"
    BY <2>2 DEF NS!KindOf
  <2>5. Tree' = Tree \union {[path |-> Job.cmd.path, kind |-> NS!KindOf(Job.cmd)]}
    BY <1>2, <1>7, <2>2, <2>4
  <2>. QED BY <1>1, <1>2, <1>7, <2>2, <2>3, <2>5 DEF NS!Enter
<1>8. CASE disk' = image
  BY <1>1, <1>5, <1>7, <1>8, TreeStep
<1>. QED BY <1>6, <1>8

\* A process that is gone without success, its name entered or not.
LEMMA EndRefines ==
    ASSUME IInv, pc # "idle", pc' = "idle", disk' = disk, acked' = acked
    PROVE  NS!Failure
<1>1. Job # NoJob /\ Job' = NoJob
  BY JobIsNone DEF Job
<1>2. Tree' = Tree
  BY TreeOfDisk, TreeOfNextDisk
<1>. QED BY <1>1, <1>2 DEF NS!Failure

\* Every step of u6fs is one of Namespace or changes nothing there.
LEMMA StepRefines ==
    ASSUME MaxFaults = 0, AInv, IInv', WithinLimits', [Next]_vars
    PROVE  NS!NNext \/ UNCHANGED NS!nvars
<1>1. IInv /\ Sound(image) /\ Sound(disk) /\ disk' \in {disk, image} /\ ProcessTyped
  BY DiskStep DEF AInv, IInv, TypeOK
<1>2. ASSUME NEW c \in Commands, Mount(c) PROVE NS!Request(c)
  <2>1. pc = "idle" /\ fill_bitmaps(image).ret = ERR_NONE
    BY <1>1, <1>2, Mounted DEF Mount
  <2>2. pc' = "lookup" /\ cmd' = c /\ UNCHANGED <<disk, child, acked>>
    BY <1>2, <2>1 DEF Mount, history
  <2>3. child = 0
    BY <2>1 DEF AInv, NoChildYet
  <2>4. Entered' = FALSE
    BY <2>2, <2>3 DEF Entered
  <2>5. Job = NoJob /\ Job' = [cmd |-> c, entered |-> FALSE]
    BY <2>1, <2>2, <2>4 DEF Job
  <2>6. Tree' = Tree
    BY <2>2, TreeOfDisk, TreeOfNextDisk
  <2>. QED BY <2>2, <2>5, <2>6 DEF NS!Request
<1>3. ASSUME Lookup \/ Parent \/ Residual \/ ResInode \/ Sector \/ SecInode \/ Content \/ Umount
      PROVE  NS!Enter \/ UNCHANGED NS!nvars
  <2>1. /\ pc # "idle" /\ UNCHANGED <<cmd, child, acked>>
    BY <1>3 DEF Lookup, Parent, Residual, ResInode, Sector, SecInode, Content, Umount, history
  <2>2. pc' # "idle"
    <3>1. Parent \/ Content => pc' # "idle"
      BY <1>1, ParentOutcome, ContentOutcome
    <3>2. Lookup \/ Sector \/ Umount => pc' # "idle"
      BY DEF Lookup, Sector, Umount, Leave
    <3>3. Residual \/ ResInode \/ SecInode => pc' # "idle"
      BY DEF Residual, ResInode, SecInode, Continue, Leave
    <3>. QED BY <1>3, <3>1, <3>2, <3>3
  <2>. QED BY <1>1, <2>1, <2>2, FlushRefines
<1>4. ASSUME Create PROVE UNCHANGED NS!nvars
  <2>1. /\ pc = "create" /\ pc' # "idle" /\ UNCHANGED <<cmd, acked>> /\ cmd \in Commands
        /\ image = disk /\ disk' = image /\ child = 0
    BY <1>1, <1>4 DEF Create, Leave, Flush, history, IInv, Synced, AInv, NoChildYet
  <2>2. child' = 0 \/ (child' \in InodeNumbers \ {0} /\ child' \notin Live(image))
    <3>1. Live(image) \subseteq ibm.bits /\ ibm \in BmBlockArray(ROOT_INUMBER, s_isize * InodesPerSector)
      BY <1>1, <2>1 DEF IInv, BitmapsKnow, Searching, ProcessTyped
    <3>2. Small(image')
      BY DEF WithinLimits
    <3>3. child' = child \/ (child' \in InodeNumbers \ {0} /\ child' \notin Live(image))
      BY <1>1, <1>4, <3>1, <3>2, CreateOutcome
    <3>. QED BY <2>1, <3>3
  <2>3. ~ Entered /\ ~ Entered'
    <3>1. ASSUME child' # 0, direntv6_dirlookup(disk, ROOT_INUMBER, cmd.path) = child' PROVE FALSE
      <4> DEFINE T == Names \union LongNames
      <4>1. cmd.path \in Seq(T)
        BY <2>1, NamesOfCommands
      <4> HIDE DEF T
      <4>2. child' \in Live(disk) \/ child' \in error_codes
        BY <1>1, <3>1, <4>1, PathEnds
      <4>3. child' \in Nat
        <5>1. InodesPerSector * s_isize \in Int
          BY Format, SMTT(30)
        <5>. QED BY <2>2, <3>1, <5>1 DEF InodeNumbers
      <4>. QED BY <2>1, <2>2, <3>1, <4>2, <4>3 DEF error_codes
    <3>2. Entered' => child' # 0 /\ direntv6_dirlookup(disk, ROOT_INUMBER, cmd.path) = child'
      BY <2>1 DEF Entered, InumberOf
    <3>. QED BY <2>1, <3>1, <3>2 DEF Entered
  <2>4. Entered = FALSE /\ Entered' = FALSE
    BY <2>3 DEF Entered
  <2>5. Job' = Job
    BY <2>1, <2>4 DEF Job
  <2>6. Tree' = Tree
    BY <2>1, TreeOfDisk, TreeOfNextDisk
  <2>. QED BY <2>1, <2>5, <2>6 DEF NS!nvars
<1>5. ASSUME NameOverflow \/ Crash \/ (Exit /\ ret # ERR_NONE) PROVE NS!Failure
  <2>1. pc # "idle" /\ pc' = "idle" /\ disk' = disk /\ acked' = acked
    BY <1>5 DEF NameOverflow, Crash, Exit, Forget, history
  <2>. QED BY <1>1, <2>1, EndRefines
<1>6. ASSUME Exit, ret = ERR_NONE PROVE NS!Success
  <2>1. /\ pc = "exit" /\ pc' = "idle" /\ disk' = disk /\ acked' = acked \union {cmd} /\ image = disk
    BY <1>1, <1>6 DEF Exit, Forget, IInv, Synced
  <2>2. ignored = {}
    BY <1>1 DEF AInv, IgnoredAreFaults, ProcessTyped
  <2>3. KeptIn(disk, cmd) /\ direntv6_dirlookup(disk, ROOT_INUMBER, cmd.path) = child
    BY <1>6, <2>1, <2>2 DEF AInv, Answered
  <2>4. child # 0
    <3>1. child \in Live(disk)
      BY <2>3 DEF KeptIn
    <3>. QED BY <3>1, LiveIsAnswer
  <2>5. Entered
    BY <2>3, <2>4 DEF Entered, InumberOf
  <2>6. Job # NoJob /\ Job.cmd = cmd /\ Job.entered /\ Job' = NoJob
    <3>1. Job # NoJob /\ Job.cmd = cmd /\ Job.entered = Entered
      BY <1>1, <2>1, JobIsNone
    <3>2. Job' = NoJob
      BY <2>1 DEF Job
    <3>. QED BY <2>5, <3>1, <3>2
  <2>7. Tree' = Tree
    BY <2>1, TreeOfDisk, TreeOfNextDisk
  <2>. QED BY <2>1, <2>6, <2>7 DEF NS!Success
<1>7. ~ IoError
  BY <1>1 DEF IoError, ProcessTyped
<1>8. CASE UNCHANGED vars
  <2>1. UNCHANGED <<disk, pc, cmd, child, acked>>
    BY <1>8 DEF vars, history
  <2>2. Tree' = Tree
    BY <2>1, TreeOfDisk, TreeOfNextDisk
  <2>3. Entered' = Entered
    BY <2>1 DEF Entered, InumberOf
  <2>4. Job' = Job
    BY <2>1, <2>3 DEF Job
  <2>. QED BY <2>1, <2>2, <2>4 DEF NS!nvars
<1>. QED BY <1>2, <1>3, <1>4, <1>5, <1>6, <1>7, <1>8 DEF Next, Process, NS!NNext

\* Without faults of the disk, the commands implement Namespace: a name is entered in
\* one instant or never, whatever dies, and success means that it is entered.
THEOREM CommandsImplementNamespace ==
    SoundImages /\ MaxFaults = 0 => (Spec /\ []WithinLimits => NamespaceSpec)
<1>1. SUFFICES ASSUME MaxFaults = 0
               PROVE  SoundImages => (Spec /\ []WithinLimits => NamespaceSpec)
  OBVIOUS
<1>2. Init => NS!NInit
  BY DEF Init, NS!NInit, Job
<1>3. AInv /\ AInv' /\ WithinLimits' /\ [Next]_vars => [NS!NNext]_NS!nvars
  <2>1. AInv' => IInv'
    BY DEF AInv
  <2>. QED BY <1>1, <2>1, StepRefines
<1>4. SoundImages => (Spec /\ []WithinLimits => []AInv)
  BY AnswersHold
<1>. QED BY <1>2, <1>3, <1>4, PTL DEF Spec, NamespaceSpec, NS!NSpec
===================================================================================
