---------------------------- MODULE MCChunkFiles ----------------------------
(* Every list of at most MaxFiles files, sizes around the limit. *)
EXTENDS ChunkFiles

CONSTANT MaxFiles

AllLists == UNION {[1 .. n -> 0 .. MaxLines + 1] : n \in 0 .. MaxFiles}
=============================================================================
