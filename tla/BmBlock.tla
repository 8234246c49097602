---------------------------------- MODULE BmBlock ----------------------------------
(***********************************************************************************)
(* The bitmap vectors of src/done/bmblock.c: a window min..max of numbers, one bit *)
(* each, stored in words of BitsPerVector bits, and the index ("cursor") of the    *)
(* word where the next search starts.                                              *)
(*                                                                                 *)
(* A vector is a record; `bits' is the set of the numbers whose bit is one.  The   *)
(* bits of the last word beyond max are never one in the code (bm_set ignores a    *)
(* number outside the window), so they need no representation.                     *)
(***********************************************************************************)
EXTENDS U6Base, FiniteSetsExt

CONSTANT BitsPerVector      \* BITS_PER_VECTOR, 64 in the code

ASSUME BitsPerVectorAssumption == BitsPerVector \in Nat \ {0}

\* The vectors of the window min..max.
BmBlockArray(min, max) ==
    [min : {min}, max : {max}, length : {(max - min) \div BitsPerVector + 1},
     cursor : 0 .. (max - min) \div BitsPerVector, bits : SUBSET (min .. max)]

\* The caller has made sure of min <= max, where the code answers NULL.
bm_alloc(min, max) ==
    [min |-> min, max |-> max, length |-> (max - min) \div BitsPerVector + 1,
     cursor |-> 0, bits |-> {}]

bm_get(bm, x) ==
    CASE x \notin bm.min .. bm.max -> ERR_BAD_PARAMETER
      [] x \in bm.bits             -> 1
      [] OTHER                     -> 0

\* Mutant: bm_set without its check of the window.
bm_set_unchecked(bm, x) == [bm EXCEPT !.bits = @ \union {x}]

bm_set(bm, x) ==
    [bm EXCEPT !.bits = IF x \in bm.min .. bm.max THEN @ \union {x} ELSE @]

bm_clear(bm, x) ==
    [bm EXCEPT !.bits = IF x \in bm.min .. bm.max THEN @ \ {x} ELSE @]

\* The free numbers of the w-th word, which the inner loop looks for.
FreeInWord(bm, w) ==
    {x \in bm.min .. bm.max : (x - bm.min) \div BitsPerVector = w /\ bm_get(bm, x) = 0}

\* Mutant: the search starts behind the word of the cursor.
Visited_behind(bm, i) == (bm.cursor + i + 1) % bm.length

\* The i-th word the outer loop visits.
Visited(bm, i) == (bm.cursor + i) % bm.length

\* Mutant: one round too few.
Rounds_short(bm) == {i \in 0 .. bm.length - 2 : FreeInWord(bm, Visited(bm, i)) # {}}

\* The rounds of the outer loop that meet a word with a free number.
Rounds(bm) == {i \in 0 .. bm.length - 1 : FreeInWord(bm, Visited(bm, i)) # {}}

\* The answer of the search, and the vector it leaves: only the cursor has moved,
\* to the last word visited.  In particular the bit of the answer is NOT set.
bm_find_next(bm) ==
    IF Rounds(bm) = {}
      THEN [ret |-> ERR_BITMAP_FULL,
            bm  |-> [bm EXCEPT !.cursor = Visited(bm, bm.length - 1)]]
      ELSE LET w == Visited(bm, Min(Rounds(bm)))
           IN  [ret |-> Min(FreeInWord(bm, w)), bm |-> [bm EXCEPT !.cursor = w]]

\* inode_alloc (src/done/inode.c): search, then mark what was found.
inode_alloc(ibm) ==
    LET found == bm_find_next(ibm)
    IN  IF found.ret < 0 THEN [ret |-> ERR_BITMAP_FULL, bm |-> found.bm]
                         ELSE [ret |-> found.ret, bm |-> bm_set(found.bm, found.ret)]
===================================================================================
