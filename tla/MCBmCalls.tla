---------------------------------- MODULE MCBmCalls ----------------------------------
(* A window of seven numbers in words of three bits: three words, the last partial. *)
EXTENDS BmCalls
===================================================================================
