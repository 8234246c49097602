---------------------------------- MODULE U6Base ----------------------------------
(***********************************************************************************)
(* The codes a u6fs function answers with (src/done/error.h) and the numbers the   *)
(* on-disk format fixes (src/done/unixv6fs.h).  As in the C code, a negative       *)
(* answer is an error and any other answer is a value: an inode number, a sector   *)
(* number, a count.  Keeping the codes as the integers they are matters, because   *)
(* the code tells the two apart by their sign alone.                               *)
(***********************************************************************************)
EXTENDS Integers

ERR_NONE                    ==    0
ERR_INVALID_COMMAND         == -127
ERR_NOMEM                   == -126
ERR_IO                      == -125
ERR_BAD_BOOT_SECTOR         == -124
ERR_INODE_OUT_OF_RANGE      == -123
ERR_FILENAME_TOO_LONG       == -122
ERR_INVALID_DIRECTORY_INODE == -121
ERR_UNALLOCATED_INODE       == -120
ERR_FILENAME_ALREADY_EXISTS == -119
ERR_BITMAP_FULL             == -118
ERR_FILE_TOO_LARGE          == -117
ERR_OFFSET_OUT_OF_RANGE     == -116
ERR_BAD_PARAMETER           == -115
ERR_NO_SUCH_FILE            == -114

error_codes == -127 .. -114

ROOT_INUMBER == 1
===================================================================================
