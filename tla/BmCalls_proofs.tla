------------------------------- MODULE BmCalls_proofs -------------------------------
(***********************************************************************************)
(* Proofs about a bitmap vector under every sequence of calls, for every word      *)
(* width and every window.                                                         *)
(***********************************************************************************)
EXTENDS BmCalls, Format_proofs

Vectors == BmBlockArray(MinBit, MaxBit)

USE WindowAssumption DEF Vectors, Window

\* What the last call left behind: a search repeats, and after a take every number
\* still free is greater than the one taken.
LastCall ==
    /\ call = "find" => ret = bm_find_next(bm).ret
    /\ ~cleared /\ call = "take" =>
          IF ret = ERR_BITMAP_FULL THEN bm.bits = Window
          ELSE ret \in Window /\ \A x \in Window \ bm.bits : ret < x

IInv == TypeOK /\ BehindCursorIsFull /\ LastCall

\* A vector just allocated is well formed.
LEMMA InitIInv == Init => IInv
<1>1. SUFFICES ASSUME Init PROVE IInv
  OBVIOUS
<1>2. (MaxBit - MinBit) \div BitsPerVector \in Nat
  BY WindowAssumption, DivMonotone, BitsPerVectorAssumption
<1>3. bm \in BmBlockArray(MinBit, MaxBit) /\ bm.cursor = 0
  BY <1>1, <1>2 DEF Init, bm_alloc, BmBlockArray
<1>4. TypeOK
  BY <1>1, <1>3 DEF Init, TypeOK
<1>5. BehindCursorIsFull
  <2>1. 0 .. bm.cursor - 1 = {}
    BY <1>3
  <2>. QED BY <2>1 DEF BehindCursorIsFull
<1>6. LastCall
  BY <1>1 DEF Init, LastCall
<1>. QED BY <1>4, <1>5, <1>6 DEF IInv

\* Every call keeps the invariant: a bit set leaves nothing free where nothing was.
LEMMA NextIInv == IInv /\ [Next]_vars => IInv'
<1>. SUFFICES ASSUME IInv, [Next]_vars PROVE IInv'
  OBVIOUS
<1>0. bm \in Vectors /\ TypeOK /\ BehindCursorIsFull /\ LastCall
  BY DEF IInv, TypeOK, Vectors
<1>. USE DEF IInv
<1>1. ASSUME NEW x \in Arguments, Mark(x) PROVE IInv'
  <2>1. x \in Int
    BY WindowAssumption DEF Arguments
  <2>2. bm' \in Vectors /\ bm'.cursor = bm.cursor /\ bm.bits \subseteq bm'.bits
    BY <1>0, <1>1, <2>1, SetClear DEF Mark
  <2>3. \A w : FreeInWord(bm, w) = {} => FreeInWord(bm', w) = {}
    BY <1>0, <2>2, FreeNumbers
  <2>4. BehindCursorIsFull'
    BY <1>0, <1>1, <2>2, <2>3 DEF BehindCursorIsFull, Mark
  <2>5. TypeOK'
    BY <1>0, <1>1, <2>2 DEF TypeOK, Mark, Vectors
  <2>. QED BY <1>1, <2>4, <2>5 DEF LastCall, Mark
<1>2. ASSUME NEW x \in Arguments, Clear(x) PROVE IInv'
  <2>1. x \in Int
    BY WindowAssumption DEF Arguments
  <2>2. bm' \in Vectors
    BY <1>0, <1>2, <2>1, SetClear DEF Clear
  <2>3. TypeOK'
    BY <1>0, <1>2, <2>2 DEF TypeOK, Clear, Vectors
  <2>. QED BY <1>2, <2>3 DEF LastCall, BehindCursorIsFull, Clear
<1>3. CASE Find
  <2>1. bm' \in Vectors /\ bm'.bits = bm.bits
    BY <1>0, <1>3, FindNext DEF Find
  <2>2. TypeOK'
    BY <1>0, <1>3, <2>1, FindNext DEF TypeOK, Find, Vectors
  <2>3. BehindCursorIsFull'
    <3>1. SUFFICES ASSUME ~cleared PROVE \A w \in 0 .. bm'.cursor - 1 : FreeInWord(bm', w) = {}
      BY <1>3 DEF Find, BehindCursorIsFull
    <3>2. \A w \in 0 .. bm'.cursor - 1 : FreeInWord(bm, w) = {}
      BY <1>0, <1>3, <3>1, FindForward DEF Find, BehindCursorIsFull
    <3>. QED BY <1>0, <2>1, <3>2, FreeNumbers
  <2>4. LastCall'
    BY <1>0, <1>3, FindTwice DEF LastCall, Find
  <2>. QED BY <2>2, <2>3, <2>4
<1>4. CASE Take
  <2>1. /\ bm' \in Vectors
        /\ ret' = bm_find_next(bm).ret
        /\ bm'.cursor = bm_find_next(bm).bm.cursor
        /\ bm'.bits = bm.bits \union ({ret'} \ {ERR_BITMAP_FULL})
    BY <1>0, <1>4, InodeAlloc DEF Take
  <2>2. TypeOK'
    BY <1>0, <1>4, <2>1, FindNext DEF TypeOK, Take, Vectors
  <2>3. BehindCursorIsFull'
    <3>1. SUFFICES ASSUME ~cleared PROVE \A w \in 0 .. bm'.cursor - 1 : FreeInWord(bm', w) = {}
      BY <1>4 DEF Take, BehindCursorIsFull
    <3>2. \A w \in 0 .. bm'.cursor - 1 : FreeInWord(bm, w) = {}
      BY <1>0, <2>1, <3>1, FindForward DEF BehindCursorIsFull
    <3>3. bm.bits \subseteq bm'.bits
      BY <2>1
    <3>4. ASSUME NEW w, FreeInWord(bm, w) = {} PROVE FreeInWord(bm', w) = {}
      <4>1. FreeInWord(bm, w) = {x \in Window \ bm.bits : (x - MinBit) \div BitsPerVector = w}
        BY <1>0, FreeNumbers
      <4>2. FreeInWord(bm', w) = {x \in Window \ bm'.bits : (x - MinBit) \div BitsPerVector = w}
        BY <2>1, FreeNumbers
      <4>. QED BY <3>3, <3>4, <4>1, <4>2
    <3>. QED BY <3>2, <3>4
  <2>4. LastCall'
    <3>1. SUFFICES ASSUME ~cleared
                   PROVE  IF ret' = ERR_BITMAP_FULL THEN bm'.bits = Window
                          ELSE ret' \in Window /\ \A x \in Window \ bm'.bits : ret' < x
      BY <1>4 DEF Take, LastCall
    <3>2. CASE ret' = ERR_BITMAP_FULL
      <4>1. bm.bits = Window
        <5>1. \/ bm_find_next(bm).ret = ERR_BITMAP_FULL /\ bm.bits = Window
              \/ bm_find_next(bm).ret \in Window
          BY <1>0, FindNext
        <5>. QED BY <2>1, <3>2, <5>1, FullIsNoNumber
      <4>. QED BY <2>1, <3>2, <4>1
    <3>3. CASE ret' # ERR_BITMAP_FULL
      <4>1. ret' \in Window
        BY <1>0, <2>1, <3>3, FindNext
      <4>2. \A x \in Window \ bm.bits : ret' <= x
        BY <1>0, <2>1, <3>1, <3>3, FindLeast DEF BehindCursorIsFull
      <4>3. ret' \in bm'.bits /\ bm.bits \subseteq bm'.bits
        BY <2>1, <3>3
      <4>. QED BY <3>3, <4>1, <4>2, <4>3, WindowAssumption DEF Window
    <3>. QED BY <3>2, <3>3
  <2>. QED BY <2>2, <2>3, <2>4
<1>5. CASE UNCHANGED vars
  BY <1>0, <1>5 DEF vars, TypeOK, BehindCursorIsFull, LastCall, FreeInWord, bm_get,
                    bm_find_next, Rounds, Visited
<1>. QED BY <1>1, <1>2, <1>3, <1>4, <1>5 DEF Next

\* Under every sequence of calls the vector keeps its window, bits outside it are
\* never set, its cursor is on one of its words, and every answer is a number of the
\* window, ERR_NONE or ERR_BITMAP_FULL (src/done/bmblock.c).
THEOREM VectorTyping == Spec => []TypeOK
<1>1. IInv => TypeOK
  BY DEF IInv
<1>. QED BY InitIInv, NextIInv, <1>1, PTL DEF Spec

\* In every reachable state the vector is well formed and its cursor is on one of
\* its words (src/done/bmblock.c), and no free number is behind the cursor unless a
\* bit was cleared.
THEOREM BmInvariant == Spec => [](TypeOK /\ BehindCursorIsFull)
<1>1. IInv => TypeOK /\ BehindCursorIsFull
  BY DEF IInv
<1>. QED BY InitIInv, NextIInv, <1>1, PTL DEF Spec

\* bm_find_next reserves nothing: two searches with no other call in between answer
\* the same number (the fact behind src/done/filev6.c:94).
THEOREM FindRepeatsTheorem == Spec => FindRepeats
<1>1. IInv /\ [Next]_vars => [(call = "find" /\ call' = "find") => ret' = ret]_vars
  <2>1. SUFFICES ASSUME IInv, Next, call = "find", call' = "find" PROVE ret' = ret
    BY DEF vars
  <2>2. Find
    BY <2>1 DEF Next, Mark, Clear, Take
  <2>. QED BY <2>1, <2>2 DEF IInv, LastCall, Find
<1>. QED BY InitIInv, NextIInv, <1>1, PTL DEF Spec, FindRepeats

\* Without a bm_clear, two takes in a row give ascending numbers until the vector
\* is full (src/done/inode.c:139): the search never comes back to what it passed.
THEOREM TakesAscendTheorem == Spec => TakesAscend
<1>1. IInv /\ [Next]_vars =>
        [(~cleared' /\ call = "take" /\ call' = "take") =>
            \/ ret' = ERR_BITMAP_FULL
            \/ ret # ERR_BITMAP_FULL /\ ret' > ret]_vars
  <2>1. SUFFICES ASSUME IInv, Next, ~cleared', call = "take", call' = "take",
                        ret' # ERR_BITMAP_FULL
                 PROVE  ret # ERR_BITMAP_FULL /\ ret' > ret
    BY DEF vars
  <2>2. Take
    BY <2>1 DEF Next, Mark, Clear, Find
  <2>3. bm \in Vectors /\ ~cleared /\ LastCall
    BY <2>1, <2>2 DEF IInv, TypeOK, Vectors, Take
  <2>4. ret' \in Window \ bm.bits
    BY <2>1, <2>2, <2>3, FindNext, InodeAlloc DEF Take
  <2>. QED BY <2>1, <2>3, <2>4, WindowAssumption DEF LastCall, Window
<1>. QED BY InitIInv, NextIInv, <1>1, PTL DEF Spec, TakesAscend

\* The vector implements the pool of numbers: whatever its word width and wherever
\* its cursor, an answer is free and "full" means full.
THEOREM PoolRefinement == Spec => PoolSpec
<1>1. Init => Pool!AInit
  BY DEF Init, bm_alloc, Pool!AInit, ERR_NONE, Pool!ERR_NONE
<1>2. IInv /\ [Next]_vars => [Pool!ANext]_<<bm.bits, call, ret>>
  <2>. SUFFICES ASSUME IInv, [Next]_vars PROVE [Pool!ANext]_<<bm.bits, call, ret>>
    OBVIOUS
  <2>0. bm \in Vectors /\ bm.bits \subseteq Window
    BY WordCount DEF IInv, TypeOK, Vectors
  <2>1. ASSUME NEW x \in Arguments, Mark(x) PROVE Pool!AMark
    <3>1. x \in Int
      BY WindowAssumption DEF Arguments
    <3>2. bm'.bits = bm.bits \union ({x} \intersect Window)
      BY <2>0, <2>1, <3>1, SetClear DEF Mark
    <3>3. {x} \intersect Window \in SUBSET Window
      OBVIOUS
    <3>. QED BY <2>1, <3>2, <3>3 DEF Pool!AMark, Mark, ERR_NONE, Pool!ERR_NONE
  <2>2. ASSUME NEW x \in Arguments, Clear(x) PROVE Pool!ARelease
    <3>1. x \in Int
      BY WindowAssumption DEF Arguments
    <3>2. bm'.bits = bm.bits \ {x}
      BY <2>0, <2>2, <3>1, SetClear DEF Clear
    <3>3. bm'.bits = bm.bits \ ({x} \intersect Window)
      BY <2>0, <3>2
    <3>4. {x} \intersect Window \in SUBSET Window
      OBVIOUS
    <3>. QED BY <2>2, <3>3, <3>4 DEF Pool!ARelease, Clear, ERR_NONE, Pool!ERR_NONE
  <2>3. bm_find_next(bm).ret \in Pool!Offers
    BY <2>0, FindNext, FullIsNoNumber
    DEF Pool!Offers, ERR_BITMAP_FULL, Pool!ERR_BITMAP_FULL
  <2>4. CASE Find
    BY <2>0, <2>3, <2>4, FindNext DEF Pool!ANext, Pool!APeek, Find
  <2>5. CASE Take
    BY <2>0, <2>3, <2>5, InodeAlloc
    DEF Pool!ANext, Pool!ATake, Take, ERR_BITMAP_FULL, Pool!ERR_BITMAP_FULL
  <2>6. CASE UNCHANGED vars
    BY <2>6 DEF vars
  <2>. QED BY <2>1, <2>2, <2>4, <2>5, <2>6 DEF Next, Pool!ANext
<1>. QED BY InitIInv, NextIInv, <1>1, <1>2, PTL DEF Spec, PoolSpec, Pool!ASpec, Pool!avars
===================================================================================
