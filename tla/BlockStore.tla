----------------------------- MODULE BlockStore -----------------------------
(***************************************************************************)
(* What the buffer cache promises to its callers: every block has one      *)
(* contents, and one process at a time reads or changes it.                *)
(***************************************************************************)
CONSTANTS Proc, Block, Value, NoProc

VARIABLES mem,   \* block -> contents
          owner  \* block -> the process that has it

Init == mem \in [Block -> Value] /\ owner = [n \in Block |-> NoProc]

Take(p, n) == /\ owner[n] = NoProc
              /\ owner' = [owner EXCEPT ![n] = p]
              /\ UNCHANGED mem

Write(p, n, v) == /\ owner[n] = p
                  /\ mem' = [mem EXCEPT ![n] = v]
                  /\ UNCHANGED owner

Give(p, n) == /\ owner[n] = p
              /\ owner' = [owner EXCEPT ![n] = NoProc]
              /\ UNCHANGED mem

Next == \E p \in Proc, n \in Block : \/ Take(p, n) \/ Give(p, n)
                                     \/ \E v \in Value : Write(p, n, v)

Spec == Init /\ [][Next]_<<mem, owner>>
=============================================================================
