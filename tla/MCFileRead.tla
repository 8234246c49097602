---------------------------------- MODULE MCFileRead ----------------------------------
(***********************************************************************************)
(* Sectors of three units, three direct addresses, a word of five bits: sectors    *)
(* 16..31 are those whose number is negative as an int16_t.  Small files have up   *)
(* to nine units and large ones up to seventeen, behind up to two tables of three  *)
(* addresses.  Sectors 1 and 3 hold the tables; the data of a file starts in       *)
(* sector 9 and goes down, but for its second sector, which is one of Seconds:     *)
(* sector 12 stands for one beyond the end of the image.                           *)
(***********************************************************************************)
EXTENDS FileRead

CONSTANTS Sizes, Seconds

BeyondImage == 12

Addresses(second, first) == [k \in 0 .. 2 |-> IF k = 1 THEN second ELSE first - k]

Image(second) ==
    [s \in (0 .. 9) \union ({second} \ {BeyondImage}) |->
        CASE s = 3          -> Addresses(second, 9)
          [] s = 1          -> Addresses(5, 6)
          [] s \notin {1, 3} -> [k \in 0 .. 2 |-> (3 * s + k) % WordValues]]

FileOf(n, second) ==
    [mode |-> "file", size |-> n,
     addr |-> IF n <= AddrSmall * SectorSize THEN Addresses(second, 9)
                                             ELSE [k \in 0 .. 2 |-> (3 - 2 * k) % WordValues]]

MCFiles == {<<FileOf(n, second), Image(second)>> : n \in Sizes, second \in Seconds}

\* Offsets around every file, and the same beyond the reach of an int.
Near == -1 .. 18
NearAndFar == Near \union {IntValues + k : k \in 0 .. 18}
===================================================================================
