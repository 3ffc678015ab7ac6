------------------------------- MODULE MCPipe -------------------------------
(* Small instances of Pipe for TLC. *)
EXTENDS Pipe, TLC

\* Processes are interchangeable.
ProcSymmetry == Permutations(Proc)
=============================================================================
