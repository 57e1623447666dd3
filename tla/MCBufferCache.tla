---------------------------- MODULE MCBufferCache ----------------------------
EXTENDS BufferCache

Blocks == 1 .. 3
=============================================================================
