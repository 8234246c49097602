------------------------------- MODULE ServingInvariant -------------------------------
(***********************************************************************************)
(* What keeps the answers of the server true while others write.  A page in the    *)
(* buffer, an inode and a beginning of a file that the server has read are each of *)
(* some earlier moment, and the page of the latest of them: all they tell is true  *)
(* of the disk as it is, since files only grow.                                    *)
(***********************************************************************************)
EXTENDS Serving, U6fsInvariant

\* The inode at the end of the first n components of a path.
At(d, path, n) == direntv6_dirlookup(d, ROOT_INUMBER, SubSeq(path, 1, n))

\* Page b has the inode, if it has its sector.
Shows(b, inr) == inr \in DOMAIN b.itab => b.itab[inr].mode # "free"

\* Inode i of file inr is one that the file has had, and page b is not older: it has
\* what was in the file then, and the inodes of the entries that were in it.
Tells(d, b, inr, i) ==
    /\ inr \in Live(d) /\ i.mode = d.itab[inr].mode /\ i.size <= d.itab[inr].size
    /\ \A p \in 0 .. i.size - 1 :
          /\ i.addr[p \div SectorSize] = Place(d, inr, p)
          /\ PageOf(Place(d, inr, p)) = b.page =>
                /\ Place(d, inr, p) \in DOMAIN b.data
                /\ b.data[Place(d, inr, p)][p % SectorSize] = Cell(d, inr, p)
                /\ i.mode = "dir" => Shows(b, Cell(d, inr, p).inr)

\* The page in the buffer is one that the disk has had.
PageTells(d, b) ==
    /\ Shows(b, ROOT_INUMBER)
    /\ \A inr \in DOMAIN b.itab \ {0} :
          b.itab[inr].mode # "free" => Tells(d, b, inr, b.itab[inr])

\* Page b is not older than the entries along the first n components of a path.
Knows(d, b, path, n) ==
    \A m \in 0 .. n - 1 :
        LET dir == At(d, path, m)
        IN  /\ dir \in Directories(d)
            /\ \E p \in Positions(d, dir) :
                  /\ Cell(d, dir, p) = [inr |-> At(d, path, m + 1), name |-> path[m + 1]]
                  /\ dir \in DOMAIN b.itab => b.itab[dir].mode # "free" /\ p < b.itab[dir].size

\* A page has the inodes of its inode sectors and the content of its data sectors.
PageTyped(b) ==
    /\ b.page \in Nat
    /\ DOMAIN b.itab = {inr \in InodeNumbers : PageOf(InodeSector(inr)) = b.page}
    /\ \A inr \in DOMAIN b.itab : b.itab[inr] \in Inodes(MaxSize)
    /\ \A s \in DOMAIN b.data : b.data[s] \in Sectors /\ PageOf(s) = b.page

RequestTyped ==
    /\ request \in [op : {"getattr", "readdir", "read"}, path : Seq(Names),
                    pc : {"idle", "inode", "block"}, rest : Seq(Names), inr : Word,
                    inode : Inodes(MaxSize), off : Nat]
    /\ \/ request.path \in {q.path : q \in Requests}
       \/ request.pc = "idle" /\ request.path = << >>
    /\ reply \in [ret : error_codes \union {ERR_NONE}, out : Seq(Cells),
                  attr : [mode : Modes, size : 0 .. MaxSize, blocks : 0 .. MaxSize]]
    /\ due \in BOOLEAN /\ served \subseteq {q.path : q \in Requests}
    /\ request.pc = "idle" => request.rest = << >>
    /\ request.off <= request.inode.size

\* How far the request has come along its path, and in the file there.
Underway ==
    request.pc # "idle" =>
        \E n \in 0 .. Len(request.path) :
            /\ request.rest = SubSeq(request.path, n + 1, Len(request.path))
            /\ request.inr = At(disk, request.path, n) /\ request.inr \in Live(disk)
            /\ Shows(buffer, request.inr) /\ Knows(disk, buffer, request.path, n)
            /\ reply.ret = ERR_NONE

InFile ==
    request.pc = "block" =>
        /\ Tells(disk, buffer, request.inr, request.inode)
        /\ request.rest # << >> \/ request.op = "readdir" => request.inode.mode = "dir"
        /\ request.rest = << >> => request.op # "getattr"
        /\ request.inr \in DOMAIN buffer.itab => request.inode.size <= buffer.itab[request.inr].size
        /\ request.off % SectorSize = 0 \/ request.off = request.inode.size

\* What has been read of the file is its beginning.
Collected ==
    request.pc # "idle" =>
        /\ Len(reply.out) =
              IF request.pc = "block" /\ request.rest = << >> THEN request.off ELSE 0
        /\ \A k \in 1 .. Len(reply.out) : reply.out[k] = Cell(disk, request.inr, k - 1)

\* The answer given is true.
AnswerTrue ==
    request.pc = "idle" =>
        LET inr == At(disk, request.path, Len(request.path))
        IN  /\ reply.ret = ERR_NONE /\ request.path \in served =>
                 /\ inr \in Live(disk)
                 /\ request.op = "getattr" =>
                      /\ reply.attr.mode = disk.itab[inr].mode
                      /\ reply.attr.size <= disk.itab[inr].size
                      /\ reply.attr.blocks * SectorSize >= reply.attr.size
                 /\ request.op # "getattr" =>
                      /\ Len(reply.out) <= disk.itab[inr].size
                      /\ \A k \in 1 .. Len(reply.out) : reply.out[k] = Cell(disk, inr, k - 1)
            /\ reply.ret \in {ERR_NONE, ERR_NO_SUCH_FILE, ERR_INVALID_DIRECTORY_INODE, ERR_NOMEM}
            /\ reply.ret = ERR_INVALID_DIRECTORY_INODE =>
                  \E n \in 0 .. Len(request.path) :
                      At(disk, request.path, n) \in Live(disk) \ Directories(disk)
            /\ reply.ret = ERR_NO_SUCH_FILE => ~ due

\* What has been served the server will find again.
ServedKnown ==
    \A path \in served :
        At(disk, path, Len(path)) \in Live(disk) /\ Knows(disk, buffer, path, Len(path))

\* What has to be there is found: the page knows it, or will be read anew; and in the
\* directory being read it is yet to come.
Found ==
    due /\ request.pc # "idle" =>
        /\ At(disk, request.path, Len(request.path)) \in Live(disk)
        /\ \/ /\ request.pc = "inode" /\ request.inr = ROOT_INUMBER
              /\ buffer.page # PageOf(InodeSector(ROOT_INUMBER))
           \/ Knows(disk, buffer, request.path, Len(request.path))
        /\ request.pc = "block" /\ request.rest # << >> =>
              \E p \in request.off .. request.inode.size - 1 :
                  Cell(disk, request.inr, p).name = Head(request.rest)

SInv ==
    /\ AInv
    /\ PageTyped(buffer) /\ RequestTyped /\ PageTells(disk, buffer)
    /\ Underway /\ InFile /\ Collected /\ AnswerTrue /\ ServedKnown /\ Found
===================================================================================
