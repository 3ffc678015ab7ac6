----------------------------- MODULE MCProcTable -----------------------------
(* Small instances of ProcTable for TLC. *)
EXTENDS ProcTable, TLC

=============================================================================
