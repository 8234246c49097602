------------------------------- MODULE Format_proofs -------------------------------
(***********************************************************************************)
(* The arithmetic of the format: minima, quotients and remainders, which vectors,  *)
(* sectors and directory entries rest on; the size of a file in two fields, where  *)
(* inode_setsize and inode_getsize are inverse to each other on all sizes that 24  *)
(* bits can hold; what inode_findsector can answer on any image; and the search of *)
(* a bitmap vector.  Products of two variables are kept in steps of their own, for *)
(* the prover only follows them one by one, and bounds of sizes are comparisons,   *)
(* not intervals: the provers do not cope with intervals of that size.             *)
(***********************************************************************************)
EXTENDS Inode, BmBlock, WellFoundedInduction, TLAPS

-----------------------------------------------------------------------------------
(* Minima, quotients and remainders. *)

\* A non-empty set of naturals has a least element, and Min picks it.
LEMMA MinOfNat ==
    ASSUME NEW S \in SUBSET Nat, S # {}
    PROVE  Min(S) \in S /\ \A y \in S : Min(S) <= y
<1>1. PICK x \in S : \A y \in S : ~ (<<y, x>> \in OpToRel(<, Nat))
  BY NatLessThanWellFounded, WFMin
<1>2. \A y \in S : x <= y
  <2>1. SUFFICES ASSUME NEW y \in S, y < x PROVE FALSE
    OBVIOUS
  <2>2. <<y, x>> \in OpToRel(<, Nat)
    BY <2>1 DEF OpToRel
  <2>. QED BY <1>1, <2>2
<1>. QED BY <1>2 DEF Min

\* The minimum of two numbers.
LEMMA MinOfTwo ==
    ASSUME NEW a \in Int, NEW b \in Int
    PROVE  Min({a, b}) = IF a <= b THEN a ELSE b
<1> DEFINE m == IF a <= b THEN a ELSE b
<1>1. m \in {a, b} /\ \A y \in {a, b} : m <= y
  OBVIOUS
<1>2. \A x \in {a, b} : (\A y \in {a, b} : x <= y) => x = m
  OBVIOUS
<1>. QED BY <1>1, <1>2 DEF Min

\* A quotient and its remainder.
LEMMA Division ==
    ASSUME NEW n \in Int, NEW d \in Nat \ {0}
    PROVE  n \div d \in Int /\ n % d \in 0 .. d - 1 /\ n = d * (n \div d) + (n % d)
OBVIOUS

\* A multiple of d that is smaller than d in magnitude is zero.
LEMMA SmallMultiple ==
    ASSUME NEW d \in Nat \ {0}, NEW x \in Int, d * x < d, d * x > -d
    PROVE  x = 0
<1>1. CASE x >= 1
  <2>1. d * x >= d * 1
    BY <1>1, SMTT(30)
  <2>. QED BY <2>1
<1>2. CASE x <= -1
  <2>1. d * x <= d * (-1)
    BY <1>2, SMTT(30)
  <2>. QED BY <2>1
<1>. QED BY <1>1, <1>2

\* The places of a block that starts on a boundary all lie in one sector.
LEMMA InBlock ==
    ASSUME NEW n \in Nat, NEW d \in Nat \ {0}, n % d = 0, NEW j \in 0 .. d - 1
    PROVE  (n + j) \div d = n \div d /\ (n + j) % d = j
<1> DEFINE q == n \div d
           p == (n + j) \div d
           r == (n + j) % d
<1>1. q \in Int /\ n = d * q
  BY Division
<1>2. p \in Int /\ r \in 0 .. d - 1 /\ n + j = d * p + r
  <2>1. n + j \in Int
    OBVIOUS
  <2>. QED BY <2>1, Division
<1>3. d * q \in Int /\ d * p \in Int /\ d * (p - q) = d * p - d * q
  BY <1>1, <1>2, SMTT(30)
<1>4. d * p - d * q = j - r
  BY <1>1, <1>2, <1>3
<1>5. p - q = 0
  <2> HIDE DEF p, q, r
  <2>1. d * (p - q) < d /\ d * (p - q) > -d
    BY <1>2, <1>3, <1>4
  <2>. QED BY <1>1, <1>2, <2>1, SmallMultiple
<1>. QED BY <1>1, <1>2, <1>4, <1>5

\* The boundary after one.
LEMMA NextBoundary ==
    ASSUME NEW n \in Nat, NEW d \in Nat \ {0}, n % d = 0
    PROVE  (n + d) % d = 0
<1> DEFINE q == n \div d
           p == (n + d) \div d
           r == (n + d) % d
<1>1. q \in Int /\ n = d * q
  BY Division
<1>2. p \in Int /\ r \in 0 .. d - 1 /\ n + d = d * p + r
  <2>1. n + d \in Int
    OBVIOUS
  <2>. QED BY <2>1, Division
<1> HIDE DEF p, q, r
<1>3. /\ d * q \in Int /\ d * p \in Int
      /\ d * (q + 1 - p) = d * q + d - d * p
  BY <1>1, <1>2, SMTT(30)
<1>4. d * (q + 1 - p) = r
  BY <1>1, <1>2, <1>3
<1>5. q + 1 - p = 0
  <2>1. d * (q + 1 - p) < d /\ d * (q + 1 - p) > -d
    BY <1>2, <1>4
  <2>. QED BY <1>1, <1>2, <2>1, SmallMultiple
<1>6. d * (q + 1 - p) = 0
  BY <1>5
<1>. QED BY <1>4, <1>6 DEF r

\* Which sizes need fewer than k sectors, as inode_findsector counts them.
LEMMA Quotient ==
    ASSUME NEW n \in Nat, NEW d \in Nat \ {0}, NEW k \in Nat
    PROVE  n \div d \in Nat /\ (n \div d + 1 <= k <=> n < k * d)
<1> DEFINE q == n \div d
           r == n % d
<1>1. q \in Int /\ r \in 0 .. d - 1 /\ n = d * q + r
  BY Division
<1> HIDE DEF q, r
<1>2. d * q \in Int /\ k * d \in Int /\ d * (q + 1) = d * q + d
  BY <1>1, SMTT(30)
<1>3. q >= 0
  <2>1. SUFFICES ASSUME q <= -1 PROVE FALSE
    BY <1>1
  <2>2. d * q <= d * (-1)
    BY <1>1, <2>1, SMTT(30)
  <2>. QED BY <1>1, <1>2, <2>2
<1>4. ASSUME q + 1 <= k PROVE n < k * d
  <2>1. d * (q + 1) <= k * d
    BY <1>1, <1>4, SMTT(30)
  <2>. QED BY <1>1, <1>2, <2>1
<1>5. ASSUME ~(q + 1 <= k) PROVE ~(n < k * d)
  <2>1. k * d <= d * q
    BY <1>1, <1>5, SMTT(30)
  <2>. QED BY <1>1, <1>2, <2>1
<1>. QED BY <1>1, <1>3, <1>4, <1>5 DEF q

\* Quotients are monotone.
LEMMA DivMonotone ==
    ASSUME NEW a \in Nat, NEW b \in Nat, a <= b, NEW k \in Nat \ {0}
    PROVE  a \div k \in 0 .. b \div k
<1>1. a \div k \in Int /\ b \div k \in Int
  OBVIOUS
<1>2. a = k * (a \div k) + (a % k) /\ a % k \in 0 .. k - 1
  OBVIOUS
<1>3. b = k * (b \div k) + (b % k) /\ b % k \in 0 .. k - 1
  OBVIOUS
<1>4. a \div k >= 0
  BY <1>1, <1>2, SMTT(30)
<1>5. ~ (a \div k >= b \div k + 1)
  <2>1. SUFFICES ASSUME a \div k >= b \div k + 1 PROVE FALSE
    OBVIOUS
  <2>2. k * (a \div k) >= k * (b \div k + 1)
    BY <1>1, <2>1, SMTT(30)
  <2>3. k * (b \div k + 1) = k * (b \div k) + k
    BY <1>1, SMTT(30)
  <2>4. k * (a \div k) \in Int /\ k * (b \div k) \in Int
    BY <1>1
  <2>. QED BY <1>2, <1>3, <2>2, <2>3, <2>4
<1>. QED BY <1>1, <1>4, <1>5

\* A sum of two indices of a ring of n places, reduced.
LEMMA RingIndex ==
    ASSUME NEW n \in Nat \ {0}, NEW a \in 0 .. n - 1, NEW i \in 0 .. n - 1
    PROVE  (a + i) % n = IF a + i < n THEN a + i ELSE a + i - n
<1>1. PICK q \in Int, r \in 0 .. n - 1 :
        q = (a + i) \div n /\ r = (a + i) % n /\ a + i = n * q + r
  OBVIOUS
<1>2. q = 0 \/ q = 1
  <2>1. CASE q >= 2
    <3>1. n * q >= n * 2
      BY <2>1, SMTT(30)
    <3>. QED BY <1>1, <3>1
  <2>2. CASE q <= -1
    <3>1. n * q <= n * (-1)
      BY <2>2, SMTT(30)
    <3>. QED BY <1>1, <3>1
  <2>. QED BY <1>1, <2>1, <2>2
<1>3. CASE q = 0
  BY <1>1, <1>3
<1>4. CASE q = 1
  BY <1>1, <1>4
<1>. QED BY <1>2, <1>3, <1>4

\* The number before one that is no boundary is in the same block.
LEMMA BeforeInBlock ==
    ASSUME NEW n \in Nat, NEW d \in Nat \ {0}, n % d # 0
    PROVE  n - 1 \in Nat /\ (n - 1) \div d = n \div d
<1> DEFINE q == n \div d
           r == n % d
           p == (n - 1) \div d
           s == (n - 1) % d
<1>1. /\ q \in Int /\ r \in 0 .. d - 1 /\ n = d * q + r
      /\ p \in Int /\ s \in 0 .. d - 1 /\ n - 1 = d * p + s
  BY Division
<1>2. r # 0
  OBVIOUS
<1>3. n # 0
  BY <1>2 DEF r
<1> HIDE DEF q, r, p, s
<1>4. d * (p - q) = d * p - d * q
  BY <1>1, SMTT(30)
<1>5. d * p \in Int /\ d * q \in Int
  BY <1>1, SMTT(30)
<1>6. d * (p - q) = r - 1 - s
  BY <1>1, <1>4, <1>5
<1>7. d * (p - q) < d /\ d * (p - q) > -d /\ p - q \in Int
  BY <1>1, <1>2, <1>6
<1>8. p - q = 0
  BY <1>7, SmallMultiple
<1>. QED BY <1>1, <1>3, <1>8 DEF p, q

\* Two numbers of one block with the same remainder are the same.
LEMMA OnePlace ==
    ASSUME NEW n \in Nat, NEW m \in Nat, NEW d \in Nat \ {0},
           n \div d = m \div d, n % d = m % d
    PROVE  n = m
<1>1. n = d * (n \div d) + (n % d) /\ m = d * (m \div d) + (m % d)
  BY Division
<1>. QED BY <1>1

-----------------------------------------------------------------------------------
(* The size in two fields. *)

\* The bit arithmetic of a size of 24 bits: the mask of 17 bits followed by the
\* store into 16 bits takes it modulo 2^16, and the high byte needs no reduction.
LEMMA TwentyFourBits ==
    ASSUME NEW n \in Nat, n < 16777216
    PROVE  /\ n \div 16777216 = 0
           /\ n \div 65536 \in Nat /\ n \div 65536 < 256
           /\ (n \div 65536) % 256 = n \div 65536
           /\ (n % 131072) % 65536 = n % 65536
           /\ n % 65536 \in Nat /\ n % 65536 < 65536
           /\ (n \div 65536) * 65536 + (n % 65536) = n
  <1> DEFINE q == n \div 65536
             r == n % 65536
  <1>1. q \in Int /\ r \in Nat /\ r < 65536 /\ n = 65536 * q + r
    BY SMT
  <1>2. q \in Nat /\ q < 256
    BY <1>1, SMT
  <1>3. q % 256 = q
    BY <1>2, SMT
  <1>4. (n % 131072) % 65536 = r
    BY SMT
  <1>5. n \div 16777216 = 0
    BY SMT
  <1> QED BY <1>1, <1>2, <1>3, <1>4, <1>5, SMT

\* What inode_setsize stores, inode_getsize reads back (src/done/inode.c:149-162,
\* src/done/inode.h:25-28), and the fields hold what their C types can.
THEOREM SizeRoundTrip ==
    ASSUME NEW n \in Nat, n < 16777216
    PROVE  LET s == inode_setsize(n)
           IN  /\ s.ret = ERR_NONE
               /\ s.i_size0 \in Nat /\ s.i_size0 < 256
               /\ s.i_size1 \in Nat /\ s.i_size1 < 65536
               /\ inode_getsize(s.i_size0, s.i_size1) = n
  <1>1. ~(n < 0 \/ n \div 16777216 # 0)
    BY TwentyFourBits, SMT
  <1>2. inode_setsize(n) = [ret |-> ERR_NONE, i_size0 |-> n \div 65536, i_size1 |-> n % 65536]
    BY <1>1, TwentyFourBits, SMT DEF inode_setsize
  <1>3. inode_getsize(n \div 65536, n % 65536) = n
    BY TwentyFourBits, SMT DEF inode_getsize
  <1> QED BY <1>2, <1>3, TwentyFourBits, SMT

\* Every other size is refused (src/done/inode.c:152).
THEOREM SizeRefused ==
    ASSUME NEW n \in Int, n < 0 \/ n >= 16777216
    PROVE  inode_setsize(n).ret = ERR_BAD_PARAMETER
  <1>1. n < 0 \/ n \div 16777216 # 0
    BY SMT
  <1> QED BY <1>1, SMT DEF inode_setsize

\* No two pairs of fields stand for one size: nothing is hidden in the two fields
\* that the size does not say (src/done/inode.h:25-28).
THEOREM SizeInjective ==
    ASSUME NEW a \in Nat, NEW b \in Nat, NEW c \in Nat, NEW d \in Nat,
           b < 65536, d < 65536, inode_getsize(a, b) = inode_getsize(c, d)
    PROVE  a = c /\ b = d
  BY SMT DEF inode_getsize

-----------------------------------------------------------------------------------
(* The map from offsets to sectors. *)

\* inode_findsector answers an error, a sector, or a word taken for a negative one.
LEMMA FindSectorType ==
    ASSUME NEW sectors, \A s \in DOMAIN sectors : sectors[s] \in [0 .. SectorSize - 1 -> Word],
           NEW i, i.size \in Nat, i.addr \in [0 .. AddrSmall - 1 -> Word], NEW off \in Int
    PROVE  inode_findsector(sectors, i, off) \in error_codes \union -WordValues .. WordValues - 1
<1> DEFINE Answers == error_codes \union -WordValues .. WordValues - 1
<1>1. WordValues \in Nat \ {0} /\ SectorSize \in Nat \ {0} /\ AddrSmall \in Nat
  BY GeometryAssumption
<1>2. /\ ERR_OFFSET_OUT_OF_RANGE \in Answers /\ ERR_FILE_TOO_LARGE \in Answers
      /\ ERR_IO \in Answers /\ ERR_UNALLOCATED_INODE \in Answers /\ Word \subseteq Answers
  BY <1>1 DEF ERR_OFFSET_OUT_OF_RANGE, ERR_FILE_TOO_LARGE, ERR_IO, ERR_UNALLOCATED_INODE,
              error_codes, Word
<1>3. SizeTot(i.size) \in Nat
  BY <1>1, Quotient DEF SizeTot
<1>4. CASE i.mode = "free" \/ off \notin 0 .. SizeTot(i.size) - 1
  <2>1. inode_findsector(sectors, i, off) \in {ERR_UNALLOCATED_INODE, ERR_OFFSET_OUT_OF_RANGE}
    BY <1>4 DEF inode_findsector
  <2>. QED BY <1>2, <2>1
<1> DEFINE Inside == i.mode # "free" /\ off \in 0 .. SizeTot(i.size) - 1
<1>5. CASE Inside /\ SizeTot(i.size) <= AddrSmall
  <2>1. inode_findsector(sectors, i, off) = i.addr[off]
    BY <1>5 DEF inode_findsector
  <2>2. off \in 0 .. AddrSmall - 1
    BY <1>1, <1>3, <1>5
  <2>. QED BY <1>2, <2>1, <2>2
<1>6. CASE Inside /\ ~(SizeTot(i.size) <= AddrSmall) /\ SizeTot(i.size) <= MediumSize
  <2> DEFINE table == i.addr[off \div AddressesPerSector]
             w == sectors[table][off % AddressesPerSector]
  <2>1. inode_findsector(sectors, i, off) = IF table \notin DOMAIN sectors THEN ERR_IO ELSE Int16(w)
    BY <1>6 DEF inode_findsector, inode_findsector_bigfile
  <2>2. ASSUME table \in DOMAIN sectors PROVE w \in Word
    <3>1. sectors[table] \in [0 .. SectorSize - 1 -> Word]
      BY <2>2
    <3>2. off % SectorSize \in 0 .. SectorSize - 1
      BY <1>1, <1>6, Division
    <3>. QED BY <3>1, <3>2 DEF AddressesPerSector
  <2>3. ASSUME w \in Word PROVE Int16(w) \in Answers
    <3> HIDE DEF w
    <3>. QED BY <1>1, <2>3 DEF Int16, Word
  <2>. QED BY <1>2, <2>1, <2>2, <2>3
<1>7. CASE Inside /\ ~(SizeTot(i.size) <= AddrSmall) /\ ~(SizeTot(i.size) <= MediumSize)
  <2>1. inode_findsector(sectors, i, off) = ERR_FILE_TOO_LARGE
    BY <1>7 DEF inode_findsector
  <2>. QED BY <1>2, <2>1
<1>. QED BY <1>4, <1>5, <1>6, <1>7

-----------------------------------------------------------------------------------
(* The calls on a bitmap vector, whatever its word width and its window min .. max. *)

\* The answer "full" cannot be taken for a number of the window.
LEMMA FullIsNoNumber == ERR_BITMAP_FULL \notin Nat
BY DEF ERR_BITMAP_FULL

\* The number of words, and the word of a number of the window.
LEMMA WordCount ==
    ASSUME NEW min \in Nat, NEW max \in Nat, min <= max,
           NEW v \in BmBlockArray(min, max)
    PROVE  /\ v.length \in Nat \ {0} /\ (max - min) \div BitsPerVector = v.length - 1
           /\ v.cursor \in 0 .. v.length - 1
           /\ v.min = min /\ v.max = max /\ v.bits \subseteq min .. max
           /\ \A x \in min .. max : (x - v.min) \div BitsPerVector \in 0 .. v.length - 1
<1>1. max - min \in Nat
  OBVIOUS
<1>2. (max - min) \div BitsPerVector \in Nat
  BY <1>1, DivMonotone, BitsPerVectorAssumption
<1>3. /\ v.min = min /\ v.max = max /\ v.bits \subseteq min .. max
      /\ v.length = (max - min) \div BitsPerVector + 1
      /\ v.cursor \in 0 .. (max - min) \div BitsPerVector
  BY DEF BmBlockArray
<1>4. ASSUME NEW x \in min .. max PROVE (x - v.min) \div BitsPerVector \in 0 .. v.length - 1
  <2>1. x - min \in Nat /\ x - min <= max - min
    OBVIOUS
  <2>2. (x - min) \div BitsPerVector \in 0 .. (max - min) \div BitsPerVector
    BY <1>1, <2>1, DivMonotone, BitsPerVectorAssumption
  <2>. QED BY <1>2, <1>3, <2>2
<1>. QED BY <1>2, <1>3, <1>4

\* The outer loop visits every word, and visits none it should not.
LEMMA VisitsAll ==
    ASSUME NEW min \in Nat, NEW max \in Nat, min <= max,
           NEW v \in BmBlockArray(min, max)
    PROVE  /\ \A i \in 0 .. v.length - 1 : Visited(v, i) \in 0 .. v.length - 1
           /\ \A w \in 0 .. v.length - 1 : \E i \in 0 .. v.length - 1 : Visited(v, i) = w
           /\ \A i \in 0 .. v.length - 1 :
                 Visited(v, i) = IF v.cursor + i < v.length THEN v.cursor + i
                                 ELSE v.cursor + i - v.length
<1>1. v.length \in Nat \ {0} /\ v.cursor \in 0 .. v.length - 1
  BY WordCount
<1>2. \A i \in 0 .. v.length - 1 :
         Visited(v, i) = IF v.cursor + i < v.length THEN v.cursor + i
                         ELSE v.cursor + i - v.length
  BY <1>1, RingIndex DEF Visited
<1>3. ASSUME NEW w \in 0 .. v.length - 1
      PROVE  \E i \in 0 .. v.length - 1 : Visited(v, i) = w
  <2>1. CASE w >= v.cursor
    <3>1. w - v.cursor \in 0 .. v.length - 1
      BY <1>1, <2>1
    <3>. QED BY <1>1, <1>2, <3>1
  <2>2. CASE w < v.cursor
    <3>1. w - v.cursor + v.length \in 0 .. v.length - 1
      BY <1>1, <2>2
    <3>. QED BY <1>1, <1>2, <3>1
  <2>. QED BY <1>1, <2>1, <2>2
<1>. QED BY <1>1, <1>2, <1>3

\* What is free in a word is a free number of the window, and does not depend on
\* where the cursor is.
LEMMA FreeNumbers ==
    ASSUME NEW min \in Nat, NEW max \in Nat, min <= max,
           NEW v \in BmBlockArray(min, max), NEW w
    PROVE  FreeInWord(v, w) = {x \in (min .. max) \ v.bits : (x - min) \div BitsPerVector = w}
BY WordCount DEF FreeInWord, bm_get, ERR_BAD_PARAMETER

\* The search answers a free number of the window, or "full" and then every bit is
\* one.  It changes nothing but the cursor, which stays within the vector and ends
\* on the word of the answer.
LEMMA FindNext ==
    ASSUME NEW min \in Nat, NEW max \in Nat, min <= max,
           NEW v \in BmBlockArray(min, max)
    PROVE  /\ bm_find_next(v).bm \in BmBlockArray(min, max)
           /\ bm_find_next(v).bm.bits = v.bits
           /\ \/ /\ bm_find_next(v).ret = ERR_BITMAP_FULL
                 /\ v.bits = min .. max
                 /\ Rounds(v) = {}
              \/ /\ bm_find_next(v).ret \in (min .. max) \ v.bits
                 /\ Rounds(v) # {}
                 /\ bm_find_next(v).bm.cursor = Visited(v, Min(Rounds(v)))
                 /\ bm_find_next(v).ret = Min(FreeInWord(v, bm_find_next(v).bm.cursor))
                 /\ bm_find_next(v).ret \in FreeInWord(v, bm_find_next(v).bm.cursor)
<1>1. v.length \in Nat \ {0} /\ v.cursor \in 0 .. v.length - 1 /\ v.bits \subseteq min .. max
  BY WordCount
<1>2. ASSUME NEW w \in 0 .. v.length - 1
      PROVE  [v EXCEPT !.cursor = w] \in BmBlockArray(min, max) /\ [v EXCEPT !.cursor = w].bits = v.bits
  <2>1. w \in 0 .. (max - min) \div BitsPerVector
    BY WordCount
  <2>. QED BY <2>1 DEF BmBlockArray
<1>3. CASE Rounds(v) = {}
  <2>1. Visited(v, v.length - 1) \in 0 .. v.length - 1
    BY <1>1, VisitsAll
  <2>2. \A w \in 0 .. v.length - 1 : FreeInWord(v, w) = {}
    BY <1>3, VisitsAll DEF Rounds
  <2>3. v.bits = min .. max
    <3>1. ASSUME NEW x \in min .. max, x \notin v.bits PROVE FALSE
      <4>1. (x - min) \div BitsPerVector \in 0 .. v.length - 1
        BY WordCount
      <4>2. x \in FreeInWord(v, (x - min) \div BitsPerVector)
        BY <3>1, FreeNumbers
      <4>. QED BY <2>2, <4>1, <4>2
    <3>. QED BY <1>1, <3>1
  <2>. QED BY <1>2, <1>3, <2>1, <2>3 DEF bm_find_next
<1>4. CASE Rounds(v) # {}
  <2>. DEFINE w == Visited(v, Min(Rounds(v)))
  <2>1. Min(Rounds(v)) \in Rounds(v)
    <3>1. Rounds(v) \in SUBSET Nat
      BY <1>1 DEF Rounds
    <3>. QED BY <1>4, <3>1, MinOfNat
  <2>2. w \in 0 .. v.length - 1 /\ FreeInWord(v, w) # {}
    BY <2>1, VisitsAll DEF Rounds
  <2>3. FreeInWord(v, w) \in SUBSET Nat
    BY FreeNumbers
  <2>4. Min(FreeInWord(v, w)) \in FreeInWord(v, w)
    BY <2>2, <2>3, MinOfNat
  <2>5. Min(FreeInWord(v, w)) \in (min .. max) \ v.bits
    BY <2>4, FreeNumbers
  <2>6. /\ bm_find_next(v).ret = Min(FreeInWord(v, w))
        /\ bm_find_next(v).bm = [v EXCEPT !.cursor = w]
    BY <1>4 DEF bm_find_next
  <2>7. bm_find_next(v).bm.cursor = w
    BY <2>6 DEF BmBlockArray
  <2>. QED BY <1>2, <1>4, <2>2, <2>4, <2>5, <2>6, <2>7
<1>. QED BY <1>3, <1>4

\* Searching again from where a search ended gives the same answer.
LEMMA FindTwice ==
    ASSUME NEW min \in Nat, NEW max \in Nat, min <= max,
           NEW v \in BmBlockArray(min, max)
    PROVE  bm_find_next(bm_find_next(v).bm).ret = bm_find_next(v).ret
<1>. DEFINE u == bm_find_next(v).bm
<1>1. u \in BmBlockArray(min, max) /\ u.bits = v.bits
  BY FindNext
<1>2. ASSUME NEW w PROVE FreeInWord(u, w) = FreeInWord(v, w)
  <2>1. FreeInWord(u, w) = {x \in (min .. max) \ u.bits : (x - min) \div BitsPerVector = w}
    <3> HIDE DEF u
    <3>. QED BY <1>1, FreeNumbers
  <2>2. FreeInWord(v, w) = {x \in (min .. max) \ v.bits : (x - min) \div BitsPerVector = w}
    BY FreeNumbers
  <2>. QED BY <1>1, <2>1, <2>2
<1>3. CASE bm_find_next(v).ret = ERR_BITMAP_FULL
  <2>1. v.bits = min .. max
    BY <1>3, FindNext, FullIsNoNumber
  <2>. QED BY <1>1, <1>3, <2>1, FindNext
<1>4. CASE bm_find_next(v).ret # ERR_BITMAP_FULL
  <2>. DEFINE r == bm_find_next(v).ret
  <2>1. r = Min(FreeInWord(v, u.cursor)) /\ r \in FreeInWord(v, u.cursor)
    BY <1>4, FindNext
  <2>2. u.length \in Nat \ {0} /\ u.cursor \in 0 .. u.length - 1
    BY <1>1, WordCount
  <2>3. Visited(u, 0) = u.cursor
    BY <1>1, <2>2, VisitsAll
  <2>4. 0 \in Rounds(u)
    BY <1>2, <2>1, <2>2, <2>3 DEF Rounds
  <2>5. Min(Rounds(u)) = 0
    <3>1. Rounds(u) \in SUBSET Nat
      BY <2>2 DEF Rounds
    <3>2. Min(Rounds(u)) \in Nat /\ Min(Rounds(u)) <= 0
      BY <2>4, <3>1, MinOfNat
    <3>. QED BY <3>2
  <2>. QED BY <1>1, <1>2, <2>1, <2>3, <2>4, <2>5, FindNext
<1>. QED BY <1>3, <1>4

\* If the words behind the cursor have nothing free, the search moves forward and
\* leaves nothing free behind the new cursor either.
LEMMA FindForward ==
    ASSUME NEW min \in Nat, NEW max \in Nat, min <= max,
           NEW v \in BmBlockArray(min, max),
           \A w \in 0 .. v.cursor - 1 : FreeInWord(v, w) = {}
    PROVE  \A w \in 0 .. bm_find_next(v).bm.cursor - 1 : FreeInWord(v, w) = {}
<1>. DEFINE u == bm_find_next(v).bm
<1>1. CASE Rounds(v) = {}
  <2>1. v.bits = min .. max
    BY <1>1, FindNext
  <2>. QED BY <2>1, FreeNumbers
<1>2. CASE Rounds(v) # {}
  <2>. DEFINE i == Min(Rounds(v))
  <2>1. v.length \in Nat \ {0} /\ v.cursor \in 0 .. v.length - 1
    BY WordCount
  <2>2. Rounds(v) \in SUBSET Nat
    BY <2>1 DEF Rounds
  <2>3. i \in Rounds(v) /\ \A j \in Rounds(v) : i <= j
    BY <1>2, <2>2, MinOfNat
  <2>4. i \in 0 .. v.length - 1 /\ FreeInWord(v, Visited(v, i)) # {}
    BY <2>3 DEF Rounds
  <2>5. u.cursor = Visited(v, i)
    BY <1>2, FindNext
  <2>6. v.cursor + i < v.length /\ u.cursor = v.cursor + i
    <3>1. Visited(v, i) \notin 0 .. v.cursor - 1
      BY <2>4
    <3>. QED BY <2>1, <2>4, <2>5, <3>1, VisitsAll
  <2>7. ASSUME NEW w \in 0 .. u.cursor - 1 PROVE FreeInWord(v, w) = {}
    <3>1. CASE w < v.cursor
      BY <2>1, <3>1
    <3>2. CASE w >= v.cursor
      <4>1. w - v.cursor \in 0 .. v.length - 1 /\ w - v.cursor < i
        BY <2>1, <2>4, <2>6, <3>2
      <4>2. Visited(v, w - v.cursor) = w
        <5>1. v.cursor + (w - v.cursor) = w /\ w < v.length
          BY <2>1, <2>4, <2>6
        <5>. QED BY <4>1, <5>1, VisitsAll
      <4>3. w - v.cursor \notin Rounds(v)
        BY <2>3, <2>4, <4>1
      <4>. QED BY <4>1, <4>2, <4>3 DEF Rounds
    <3>. QED BY <2>1, <2>6, <3>1, <3>2
  <2>. QED BY <2>7
<1>. QED BY <1>1, <1>2

\* ... and then it answers the least free number of all.
LEMMA FindLeast ==
    ASSUME NEW min \in Nat, NEW max \in Nat, min <= max,
           NEW v \in BmBlockArray(min, max),
           \A w \in 0 .. v.cursor - 1 : FreeInWord(v, w) = {},
           bm_find_next(v).ret # ERR_BITMAP_FULL
    PROVE  \A x \in (min .. max) \ v.bits : bm_find_next(v).ret <= x
<1>. DEFINE r == bm_find_next(v).ret
            c == bm_find_next(v).bm.cursor
<1>1. r \in (min .. max) \ v.bits /\ r = Min(FreeInWord(v, c)) /\ r \in FreeInWord(v, c)
  BY FindNext
<1>2. \A w \in 0 .. c - 1 : FreeInWord(v, w) = {}
  BY FindForward
<1>3. SUFFICES ASSUME NEW x \in (min .. max) \ v.bits, x < r PROVE FALSE
  BY <1>1
<1>4. x - min \in Nat /\ r - min \in Nat /\ x - min <= r - min
  BY <1>1, <1>3
<1>5. (r - min) \div BitsPerVector = c
  BY <1>1, FreeNumbers
<1>6. (x - min) \div BitsPerVector \in 0 .. c
  BY <1>4, <1>5, DivMonotone, BitsPerVectorAssumption
<1>7. x \in FreeInWord(v, (x - min) \div BitsPerVector)
  BY FreeNumbers
<1>8. (x - min) \div BitsPerVector = c
  <2>1. c \in Nat
    BY FindNext, WordCount
  <2>2. (x - min) \div BitsPerVector \notin 0 .. c - 1
    BY <1>2, <1>7
  <2>. QED BY <1>6, <2>1, <2>2
<1>9. x \in FreeInWord(v, c)
  BY <1>7, <1>8
<1>10. FreeInWord(v, c) \in SUBSET Nat
  BY FreeNumbers
<1>. QED BY <1>1, <1>3, <1>9, <1>10, MinOfNat

\* bm_set and bm_clear on a vector of the window.
LEMMA SetClear ==
    ASSUME NEW min \in Nat, NEW max \in Nat, NEW v \in BmBlockArray(min, max), NEW x
    PROVE  /\ bm_set(v, x) \in BmBlockArray(min, max) /\ bm_clear(v, x) \in BmBlockArray(min, max)
           /\ bm_set(v, x).bits = v.bits \union ({x} \intersect (min .. max))
           /\ bm_clear(v, x).bits = v.bits \ {x}
           /\ bm_set(v, x).cursor = v.cursor
BY DEF bm_set, bm_clear, BmBlockArray

\* inode_alloc answers a free number and marks it, and nothing else.
LEMMA InodeAlloc ==
    ASSUME NEW min \in Nat, NEW max \in Nat, min <= max,
           NEW v \in BmBlockArray(min, max)
    PROVE  /\ inode_alloc(v).bm \in BmBlockArray(min, max)
           /\ inode_alloc(v).ret = bm_find_next(v).ret
           /\ inode_alloc(v).bm.cursor = bm_find_next(v).bm.cursor
           /\ inode_alloc(v).bm.bits =
                 v.bits \union ({bm_find_next(v).ret} \ {ERR_BITMAP_FULL})
<1>. DEFINE f == bm_find_next(v)
<1>1. f.bm \in BmBlockArray(min, max) /\ f.bm.bits = v.bits
  BY FindNext
<1>2. CASE f.ret = ERR_BITMAP_FULL
  BY <1>1, <1>2 DEF inode_alloc, ERR_BITMAP_FULL
<1>3. CASE f.ret # ERR_BITMAP_FULL
  <2>1. f.ret \in min .. max /\ f.ret \in Nat
    BY <1>3, FindNext
  <2>2. inode_alloc(v) = [ret |-> f.ret, bm |-> bm_set(f.bm, f.ret)]
    BY <2>1 DEF inode_alloc
  <2>3. inode_alloc(v).ret = f.ret /\ inode_alloc(v).bm = bm_set(f.bm, f.ret)
    BY <2>2
  <2>4. /\ bm_set(f.bm, f.ret) \in BmBlockArray(min, max)
        /\ bm_set(f.bm, f.ret).cursor = f.bm.cursor
        /\ bm_set(f.bm, f.ret).bits = v.bits \union {f.ret}
    <3>1. PICK b \in BmBlockArray(min, max), x \in min .. max : b = f.bm /\ x = f.ret
      BY <1>1, <2>1
    <3> HIDE DEF f
    <3>2. /\ bm_set(b, x) \in BmBlockArray(min, max)
          /\ bm_set(b, x).bits = b.bits \union ({x} \intersect (min .. max))
          /\ bm_set(b, x).cursor = b.cursor
      <4>1. x \in Int
        OBVIOUS
      <4>. QED BY <4>1, SetClear
    <3>3. /\ bm_set(b, x) \in BmBlockArray(min, max)
          /\ bm_set(b, x).cursor = b.cursor
          /\ bm_set(b, x).bits = v.bits \union {x}
      BY <1>1, <3>1, <3>2
    <3>. QED BY <3>1, <3>3
  <2>. QED BY <1>3, <2>3, <2>4
<1>. QED BY <1>2, <1>3
===================================================================================
