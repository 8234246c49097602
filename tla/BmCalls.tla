---------------------------------- MODULE BmCalls ----------------------------------
(***********************************************************************************)
(* A bitmap vector under every sequence of the calls its clients make:             *)
(*   Mark   bm_set, as fill_bitmaps does at mount, with numbers that may lie       *)
(*          outside the window (a used sector below the data area);                *)
(*   Clear  bm_clear, the other half of the interface;                             *)
(*   Find   bm_find_next alone, as filev6_writesector calls it;                    *)
(*   Take   inode_alloc, which marks what it has found.                            *)
(* `call' and `ret' are the last call and its answer; `cleared' remembers whether  *)
(* a bit was ever cleared.                                                         *)
(***********************************************************************************)
EXTENDS BmBlock

CONSTANTS MinBit, MaxBit    \* the window given to bm_alloc

ASSUME WindowAssumption == MinBit \in Nat /\ MaxBit \in Nat /\ MinBit <= MaxBit

VARIABLES bm, call, ret, cleared

vars == <<bm, call, ret, cleared>>

\* The window, and what a caller may pass.
Window == MinBit .. MaxBit
Arguments == 0 .. MaxBit + 1

TypeOK ==
    /\ bm \in BmBlockArray(MinBit, MaxBit)
    /\ call \in {"alloc", "set", "clear", "find", "take"}
    /\ ret \in Window \union {ERR_NONE, ERR_BITMAP_FULL}
    /\ cleared \in BOOLEAN

Init ==
    /\ bm = bm_alloc(MinBit, MaxBit)
    /\ call = "alloc"
    /\ ret = ERR_NONE
    /\ cleared = FALSE

Mark(x) ==
    /\ bm' = bm_set(bm, x)
    /\ call' = "set"
    /\ ret' = ERR_NONE
    /\ UNCHANGED cleared

Clear(x) ==
    /\ bm' = bm_clear(bm, x)
    /\ call' = "clear"
    /\ ret' = ERR_NONE
    /\ cleared' = TRUE

Find ==
    /\ bm' = bm_find_next(bm).bm
    /\ ret' = bm_find_next(bm).ret
    /\ call' = "find"
    /\ UNCHANGED cleared

Take ==
    /\ bm' = inode_alloc(bm).bm
    /\ ret' = inode_alloc(bm).ret
    /\ call' = "take"
    /\ UNCHANGED cleared

Next ==
    \/ \E x \in Arguments : Mark(x) \/ Clear(x)
    \/ Find
    \/ Take

Spec == Init /\ [][Next]_vars

-----------------------------------------------------------------------------------
(* What the callers rely on. *)

\* The vector implements the pool of numbers: an answer is a number of the window
\* whose bit was zero, "full" is answered exactly when every bit is one (in
\* whatever word the cursor stands), and only inode_alloc reserves what it answers.
Pool == INSTANCE Allocator WITH Numbers <- Window, taken <- bm.bits
PoolSpec == Pool!ASpec

\* bm_find_next reserves nothing: asked again with no bit set or cleared in
\* between, it answers the same number, although its cursor has moved.  A caller
\* that needs two numbers has to mark the first (src/done/filev6.c:94 does not).
FindRepeats == [][(call = "find" /\ call' = "find") => ret' = ret]_vars

\* While no bit is ever cleared (the file system frees nothing), no free number is
\* left behind the cursor: starting at the cursor instead of at zero loses nothing.
BehindCursorIsFull ==
    ~cleared => \A w \in 0 .. bm.cursor - 1 : FreeInWord(bm, w) = {}

\* Hence two takes in a row give ascending numbers until the vector is full, then
\* "full" for ever: the search never comes back to a number it has passed.
TakesAscend ==
    [][(~cleared' /\ call = "take" /\ call' = "take") =>
          \/ ret' = ERR_BITMAP_FULL
          \/ ret # ERR_BITMAP_FULL /\ ret' > ret]_vars
===================================================================================
