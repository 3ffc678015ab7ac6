------------------------------ MODULE MCKalloc ------------------------------
(* Small instances of Kalloc for TLC: five frames, two of them freed early. *)
EXTENDS Kalloc

\* Three frames are enough for two processes to meet at a frame between them.
ASSUME InstanceAssumption == TopFrame - SplitFrame >= 3 /\ \E p, q \in Pid : p # q
=============================================================================
