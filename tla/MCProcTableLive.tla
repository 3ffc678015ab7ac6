--------------------------- MODULE MCProcTableLive ---------------------------
(* Two small instances of ProcTable for TLC, one run.                      *)
EXTENDS ProcTable, TLC

\* The run has two machines: one CPU, where processes fork, and two CPUs, where
\* they sleep on the clock.
VARIABLE machine
Uni == INSTANCE ProcTable WITH CPU <- {Boot}, UintSize <- 1, MaxSleep <- 0
Smp == INSTANCE ProcTable WITH MaxPid <- 3
ASSUME InstanceAssumption == Uni!TableAssumption /\ Smp!TableAssumption

\* init waits for the process 2, which has a child, 3: fork() has run twice.
MCInit == /\ machine \in {"uni", "smp"}
          /\ state = [s \in Slot |-> IF s = initproc THEN "SLEEPING"
                                     ELSE IF s <= 3 THEN "RUNNABLE" ELSE "UNUSED"]
          /\ pid = [s \in Slot |-> IF s <= 3 THEN s ELSE 0]
          /\ parent = [s \in Slot |-> IF s <= 3 THEN s - 1 ELSE 0]
          /\ killed = {} /\ kstack = 1..3 /\ nextpid = 4
          /\ on = [c \in CPU |-> 0] /\ scan = [c \in CPU |-> 0] /\ lock = NoCpu
          /\ tlock = NoCpu /\ tick = "no" /\ ticks = 0
          /\ pc = [s \in Slot |-> IF s = initproc THEN "wait_asleep"
                                  ELSE IF s <= 3 THEN "user" ELSE "none"]
          /\ child = [s \in Slot |-> 0] /\ until = [s \in Slot |-> [ticks0 |-> 0, n |-> 0]]

mcvars == <<vars, machine>>
OnMachine(m, A) == machine = m /\ A /\ UNCHANGED machine

MCNext == OnMachine("uni", Uni!Next) \/ OnMachine("smp", Smp!Next)

\* FairSpec, on either.
MCSpec ==
    /\ MCInit /\ [][MCNext]_mcvars
    /\ SF_mcvars(OnMachine("uni", Uni!Run(Boot)) \/ OnMachine("smp", Smp!Run(Boot)))
    /\ \A c \in CPU \ {Boot} : WF_mcvars(OnMachine("smp", Smp!Run(c)))
    /\ SF_mcvars(OnMachine("uni", Uni!Clock) \/ OnMachine("smp", Smp!Clock))
    /\ \A p \in Slot : SF_mcvars(OnMachine("uni", Uni!GetOn(p)) \/ OnMachine("smp", Smp!GetOn(p)))
=============================================================================
