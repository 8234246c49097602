---------------------------------- MODULE MCServing ----------------------------------
(***********************************************************************************)
(* The root has a full sector of entries and one more, so that a lookup reads two  *)
(* sectors of it and writers add to the second.  Pages of two sectors, one of them *)
(* with inodes and data: sector 3 has the inodes 0..7, sector 4 the others, and    *)
(* the data begin in sector 5.                                                     *)
(***********************************************************************************)
EXTENDS ServingInvariant, MCU6fs

Others == <<"z", "d", "e", "text">>
Entry(k) == [inr |-> k + 1, name |-> Others[k]]

WideImage ==
    [UsedImage EXCEPT
        !.itab = [inr \in InodeNumbers |->
                    IF inr \in 3 .. Len(Others) + 1 THEN @[2] ELSE @[inr]],
        !.itab[ROOT_INUMBER].size = Len(Others),
        !.itab[ROOT_INUMBER].addr[1] = s_block_start + 1,
        !.data[s_block_start] = [k \in 0 .. SectorSize - 1 |-> Entry(k + 1)],
        !.data[s_block_start + 1][0] = Entry(Len(Others))]

Wide == {WideImage}

ServedCommands == {Mkdir(<<"a">>), Mkdir(<<"a", "b">>), Add(<<"c">>, 2)}

RequestFor(op, path) == [op |-> op, path |-> path]

MCRequests ==
    {RequestFor("getattr", <<"a", "b">>), RequestFor("readdir", << >>),
     RequestFor("readdir", <<"c">>), RequestFor("read", <<"c">>)}
===================================================================================
