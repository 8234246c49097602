---------------------------------- MODULE LazyDisk ----------------------------------
(***********************************************************************************)
(* What the layers above sector.c may rely on, and what U6fs assumes (image is the *)
(* view, disk the medium): a disk that is one write late at most.  A process reads *)
(* what it has written; the medium gets the writes one by one and in their order.  *)
(* When something fails, or the process is killed, at most the last write is lost. *)
(***********************************************************************************)
EXTENDS U6Base

CONSTANTS Numbers,  \* the sectors
          Values,   \* what a sector may contain
          Nothing   \* a sector beyond the end

VARIABLES medium,   \* the content of the image file
          view,     \* the content as the process sees it
          reply     \* the last answer: [ret, data]

lvars == <<medium, view, reply>>

Behind == medium' = view

LInit == medium = view /\ reply = [ret |-> ERR_NONE, data |-> Nothing]

Read(s) ==
    /\ reply' = [ret |-> IF view[s] = Nothing THEN ERR_IO ELSE ERR_NONE, data |-> view[s]]
    /\ Behind /\ UNCHANGED view

Write(s, v) ==
    /\ reply' = [ret |-> ERR_NONE, data |-> Nothing]
    /\ Behind /\ view' = [view EXCEPT ![s] = v]

\* The last write gets there, or is lost: seen by the next call, or by nobody.
Settle ==
    /\ \/ Behind /\ UNCHANGED view
       \/ view' = medium /\ reply'.ret = ERR_IO /\ UNCHANGED medium
    /\ \E r \in {ERR_NONE, ERR_IO} : reply' = [ret |-> r, data |-> Nothing]

Die == view' = medium /\ UNCHANGED <<medium, reply>>

LNext ==
    \/ \E s \in Numbers : Read(s) \/ \E v \in Values : Write(s, v)
    \/ Settle
    \/ Die

LSpec == LInit /\ [][LNext]_lvars
===================================================================================
