------------------------------- MODULE MCFiles -------------------------------
EXTENDS Files

(* The inodes of the disk; 0 is the lock of the root directory's.          *)
Inums == 1 .. 2

(* Programs write more than a pipe holds, and read a byte.                 *)
WriteSet == {<<0, 1, 0>>}
CountSet == {1}

DataBlocks == 1 .. 5
=============================================================================
