---------------------------------- MODULE Namespace ----------------------------------
(***********************************************************************************)
(* What `mkdir' and `add' promise, without inodes, sectors or bitmaps: a tree of   *)
(* names, one request at a time.  A request enters its name into the tree in one   *)
(* instant, at most once, below a directory that exists, or never; nothing else    *)
(* changes the tree, whatever fails or dies; and success is reported only of a     *)
(* request that has entered its name.                                              *)
(***********************************************************************************)
EXTENDS Sequences, Integers

CONSTANTS Requests,  \* records [op, path, ...]
          None       \* no request

VARIABLES tree,      \* nodes [path, kind] other than the root
          job,       \* None, or the request being served and whether it is entered
          done       \* the requests that were reported successful

nvars == <<tree, job, done>>

KindOf(c) == IF c.op = "mkdir" THEN "dir" ELSE "file"

NInit == job = None /\ done = {}

Request(c) ==
    /\ job = None
    /\ job' = [cmd |-> c, entered |-> FALSE]
    /\ UNCHANGED <<tree, done>>

Enter ==
    /\ job # None /\ ~job.entered
    /\ job' = [cmd |-> job.cmd, entered |-> TRUE] /\ UNCHANGED done
    /\ \A node \in tree : node.path # job.cmd.path
    /\ \/ Len(job.cmd.path) = 1
       \/ \E node \in tree : /\ node.kind = "dir"
                             /\ node.path = SubSeq(job.cmd.path, 1, Len(job.cmd.path) - 1)
    /\ tree' = tree \union {[path |-> job.cmd.path, kind |-> KindOf(job.cmd)]}

\* The request is over: reported successful, reported failed, or dead.
Success ==
    /\ job # None /\ job.entered
    /\ job' = None /\ done' = done \union {job.cmd}
    /\ UNCHANGED tree

Failure ==
    /\ job # None
    /\ job' = None
    /\ UNCHANGED <<tree, done>>

NNext == (\E c \in Requests : Request(c)) \/ Enter \/ Success \/ Failure

NSpec == NInit /\ [][NNext]_nvars
===================================================================================
