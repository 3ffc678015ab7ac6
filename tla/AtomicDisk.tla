----------------------------- MODULE AtomicDisk -----------------------------
(***************************************************************************)
(* What the xv6 logging layer promises to the file system above it.        *)
(*                                                                         *)
(* A file-system call brackets its writes with begin_op() and end_op().    *)
(* The blocks it writes become visible at once to every other call, but    *)
(* they become durable only at an instant at which no call is in progress, *)
(* all together.  A crash takes the visible contents back to the durable   *)
(* ones and forgets the calls that were in progress.                       *)
(***************************************************************************)
CONSTANTS Proc,   \* the processes that make file-system calls
          Block,  \* the blocks of the file system
          Value   \* the contents a block can have

VARIABLES mem,      \* block -> the contents a reader sees now
          durable,  \* block -> the contents a reader would see after a crash
          active    \* the processes between begin_op() and end_op()

vars == <<mem, durable, active>>

\* Every disk the program can boot from: the two views agree at rest.
Init == /\ mem \in [Block -> Value]
        /\ durable = mem
        /\ active = {}

Begin(p) == /\ p \notin active
            /\ active' = active \union {p}
            /\ UNCHANGED <<mem, durable>>

\* Only a process inside a call writes.
Write(p, b, v) == /\ p \in active
                  /\ mem' = [mem EXCEPT ![b] = v]
                  /\ UNCHANGED <<durable, active>>

End(p) == /\ p \in active
          /\ active' = active \ {p}
          /\ UNCHANGED <<mem, durable>>

\* A group commit: no call is half done when its writes become durable.
Commit == /\ active = {}
          /\ durable' = mem
          /\ UNCHANGED <<mem, active>>

Crash == /\ mem' = durable
         /\ active' = {}
         /\ UNCHANGED durable

Next == \/ \E p \in Proc : Begin(p) \/ End(p)
        \/ \E p \in Proc, b \in Block, v \in Value : Write(p, b, v)
        \/ Commit
        \/ Crash

Spec == Init /\ [][Next]_vars
=============================================================================
