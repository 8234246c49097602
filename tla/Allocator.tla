---------------------------------- MODULE Allocator ----------------------------------
(***********************************************************************************)
(* What a bitmap vector promises its callers: a pool of numbers, some of them      *)
(* taken.  A caller may mark or release a number, ask for a free number without    *)
(* taking it (peek), or take one.  Which free number is answered is left open; the *)
(* pool must say that it is full exactly when nothing is free.                     *)
(***********************************************************************************)
EXTENDS U6Base

CONSTANT Numbers

VARIABLES taken, call, ret

avars == <<taken, call, ret>>

\* What a caller asking for a number may be answered, full or not.
Offers == IF taken = Numbers THEN {ERR_BITMAP_FULL} ELSE Numbers \ taken

AInit == taken = {} /\ call = "alloc" /\ ret = ERR_NONE

AMark == call' = "set" /\ ret' = ERR_NONE /\ \E X \in SUBSET Numbers : taken' = taken \union X

ARelease == call' = "clear" /\ ret' = ERR_NONE /\ \E X \in SUBSET Numbers : taken' = taken \ X

APeek == call' = "find" /\ ret' \in Offers /\ UNCHANGED taken

ATake == call' = "take" /\ ret' \in Offers /\ taken' = taken \union ({ret'} \ {ERR_BITMAP_FULL})

ANext == AMark \/ ARelease \/ APeek \/ ATake

ASpec == AInit /\ [][ANext]_avars
===================================================================================
