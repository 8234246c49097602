---------------------------------- MODULE MCSectorIO ----------------------------------
(* Two pages; any of their sectors may at first lie beyond the end of the image.    *)
EXTENDS SectorIO

MCSectors == 0 .. 3
===================================================================================
