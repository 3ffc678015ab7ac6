------------------------------- MODULE MCLog -------------------------------
(* Small instances of Log for TLC: one run checks two sizes of the log.    *)
EXTENDS Log

\* The size is practically a constant, but one run gives a constant one value.
VARIABLE size

\* In the second size two blocks fill the log, as in a full log of the kernel:
\* only begin_op()'s reservation keeps log_write() from its panic.
Full == INSTANCE Log WITH MAXOPBLOCKS <- 2, LOGSIZE <- 2, OpMax <- 1

\* Both are sizes that the theorems are about.
ASSUME InstanceAssumption == OpFits /\ Full!OpFits

mcvars == <<vars, size>>

MCInit == Init /\ size \in {"group", "full"}

SizedStep(p) == \/ size = "group" /\ Step(p)
                \/ size = "full" /\ Full!Step(p)

MCNext == /\ \/ size = "group" /\ Next
             \/ size = "full" /\ Full!Next
          /\ UNCHANGED size

MCSpec == /\ MCInit /\ [][MCNext]_mcvars
          /\ WF_vars(Recover)
          /\ \A p \in Proc : WF_vars(SizedStep(p)) /\ SF_vars(EndOp(p))
=============================================================================
