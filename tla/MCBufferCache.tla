---------------------------- MODULE MCBufferCache ----------------------------
(* Small instances of BufferCache for TLC. *)
EXTENDS BufferCache, TLC

\* Processes and blocks are interchangeable.
Symmetric == Permutations(Proc) \union Permutations(Block)
=============================================================================
