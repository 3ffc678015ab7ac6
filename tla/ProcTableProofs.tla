--------------------------- MODULE ProcTableProofs ---------------------------
(***************************************************************************)
(* Proofs about ProcTable for every number of slots and of CPUs: who may   *)
(* run on which stack, who may hold which lock, who may sleep, and that    *)
(* the table is a tree of processes.                                       *)
(***************************************************************************)
EXTENDS ProcTable, WellFoundedInduction, TLAPS

Forking == {"fork_alloc", "fork_copied"}
Clocked == {"sleep_test", "sleep_go"}

\* Where the kernel thread of a slot can be in each state of the slot.
PlaceInv == \A p \in Slot :
    /\ state[p] \in {"UNUSED", "EMBRYO"} <=> pc[p] = "none"
    /\ state[p] = "SLEEPING" => pc[p] \in {"wait_asleep", "sleep_asleep"}
    /\ state[p] = "ZOMBIE" => pc[p] = "exit"

\* init is there from the beginning to the end, and nobody's child.
RootInv == /\ state[initproc] \notin {"UNUSED", "EMBRYO", "ZOMBIE"}
           /\ parent[initproc] = 0

\* A CPU on a stack runs its process, or is about to leave it and holds
\* ptable.lock until it has.
CpuInv == /\ OneCpuPerStack
          /\ \A c \in CPU :
                 on[c] # 0 => \/ state[on[c]] = "RUNNING"
                              \/ lock = c /\ state[on[c]] \in {"RUNNABLE", "SLEEPING", "ZOMBIE"}

\* A slot has a stack when it is more than an embryo.
StackInv == \A p \in Slot : state[p] \notin {"UNUSED", "EMBRYO"} => p \in kstack

\* A fork() in progress has a slot of its own, whose parent is set when it has
\* its stack.
ForkInv == \A p \in Slot :
    /\ child[p] # 0 <=> pc[p] \in Forking
    /\ pc[p] \in Forking =>
           /\ state[child[p]] = "EMBRYO"
           /\ \A q \in Slot : child[q] = child[p] => q = p
    /\ pc[p] = "fork_alloc" => parent[child[p]] = 0
    /\ pc[p] = "fork_copied" => parent[child[p]] = p /\ child[p] \in kstack

\* A slot that is free has no parent, and none is its own.
ParentInv == \A p \in Slot : /\ parent[p] # p
                             /\ state[p] = "UNUSED" => parent[p] = 0

\* tickslock is held by the thread that reads the clock, or by the interrupt.
ClockInv == /\ tick = "wakeup" => tlock = Boot
            /\ \A p \in Slot : pc[p] \in Clocked =>
                   /\ tlock \in CPU /\ on[tlock] = p /\ state[p] = "RUNNING"
                   /\ tlock = Boot => tick = "no"
                   /\ pc[p] = "sleep_go" => Elapsed(p) < until[p].n

\* WaitersHaveCause and NoMissedTick, slot by slot.
WaitInv == \A p \in Slot : state[p] = "SLEEPING" /\ pc[p] = "wait_asleep" =>
    /\ p \notin killed
    /\ \E q \in Slot : parent[q] = p
    /\ \A q \in Slot : parent[q] = p => state[q] # "ZOMBIE"
TickInv == \A p \in Slot : state[p] = "SLEEPING" /\ pc[p] = "sleep_asleep" =>
    Elapsed(p) < until[p].n \/ tick = "wakeup"

IInv == /\ TypeOK /\ PlaceInv /\ RootInv /\ CpuInv /\ StackInv /\ ForkInv /\ ParentInv
        /\ ClockInv /\ WaitInv /\ TickInv

(***************************************************************************)
(* Slots, and what the steps need of the types.                            *)
(***************************************************************************)

LEMMA Slots == /\ Slot \subseteq Nat /\ 0 \notin Slot /\ initproc \in Slot
               /\ 0..NPROC = Slot \union {0}
BY TableAssumption DEF Slot, initproc

\* A set of slots has a first one.
LEMMA MinIn ==
  ASSUME NEW S \in SUBSET Slot, S # {}
  PROVE  Min(S) \in S
<1>1. S \subseteq Nat
  BY Slots
<1> DEFINE R == {ss \in Nat \X Nat : ss[1] < ss[2]}
<1>2. IsWellFoundedOn(R, Nat)
  BY NatLessThanWellFounded DEF OpToRel
<1>3. PICK x \in S : \A y \in S : ~(<<y, x>> \in R)
  <2> HIDE DEF R
  <2> QED BY <1>1, <1>2, WFMin
<1>4. ASSUME NEW y \in S PROVE x <= y
  <2>1. x \in Nat /\ y \in Nat
    BY <1>1
  <2>2. ~(y < x)
    BY <1>3, <2>1
  <2> QED BY <2>1, <2>2
<1> QED BY <1>4 DEF Min

Status == {"UNUSED", "EMBRYO", "SLEEPING", "RUNNABLE", "RUNNING", "ZOMBIE"}

Shape == /\ state \in [Slot -> Status] /\ pc \in [Slot -> Place]
         /\ parent \in [Slot -> Slot \union {0}] /\ child \in [Slot -> Slot \union {0}]
         /\ on \in [CPU -> Slot \union {0}] /\ DOMAIN until = Slot

LEMMA ShapeHolds == TypeOK => Shape
BY Slots DEF TypeOK, Shape, Status

(***************************************************************************)
(* Every action keeps the invariant: a lemma for each action, and in it a  *)
(* step for each conjunct, after what the action does has been said slot   *)
(* by slot where its definition speaks of sets.                            *)
(***************************************************************************)

LEMMA SchedLockKeeps ==
  ASSUME IInv, NEW c \in CPU, SchedLock(c)
  PROVE  IInv'
<1>1. Shape
  BY ShapeHolds DEF IInv
<1>2. TypeOK'
  BY <1>1, TableAssumption DEF IInv, TypeOK, Shape, SchedLock, table, clock, Place
<1>3. PlaceInv'
  BY <1>1 DEF IInv, Shape, PlaceInv, SchedLock, table
<1>4. RootInv'
  BY <1>1 DEF IInv, Shape, RootInv, SchedLock, table
<1>5. CpuInv'
  BY <1>1, CpuAssumption DEF IInv, Shape, CpuInv, OneCpuPerStack, SchedLock, table
<1>6. StackInv'
  BY <1>1 DEF IInv, Shape, StackInv, SchedLock, table
<1>7. ForkInv'
  BY <1>1 DEF IInv, Shape, ForkInv, Forking, PlaceInv, SchedLock, table
<1>8. ParentInv'
  BY <1>1 DEF IInv, Shape, ParentInv, SchedLock, table
<1>9. ClockInv'
  BY <1>1
  DEF IInv, Shape, ClockInv, Clocked, Elapsed, CpuInv, OneCpuPerStack, SchedLock,
      table, cpus, clock
<1>10. WaitInv'
  BY <1>1 DEF IInv, Shape, WaitInv, SchedLock, table
<1>11. TickInv'
  BY <1>1 DEF IInv, Shape, TickInv, Elapsed, SchedLock, table, clock
<1> QED BY <1>2, <1>3, <1>4, <1>5, <1>6, <1>7, <1>8, <1>9, <1>10, <1>11 DEF IInv

LEMMA SchedKeeps ==
  ASSUME IInv, NEW c \in CPU, Sched(c)
  PROVE  IInv'
<1>1. Shape
  BY ShapeHolds DEF IInv
<1>2. /\ on[c] = 0 /\ lock = c
      /\ UNCHANGED <<pid, parent, killed, kstack, nextpid, clock, pc, child, until>>
      /\ \/ lock' = NoCpu /\ scan' = [scan EXCEPT ![c] = 0] /\ UNCHANGED <<state, on>>
         \/ \E s \in Slot : /\ state[s] = "RUNNABLE" /\ lock' = lock
                           /\ state' = [state EXCEPT ![s] = "RUNNING"]
                           /\ on' = [on EXCEPT ![c] = s] /\ scan' = [scan EXCEPT ![c] = s]
  BY MinIn DEF Sched
<1>3. TypeOK'
  <2>1. ASSUME NEW s \in Slot, NEW f \in [CPU -> 0..NPROC]
        PROVE  [f EXCEPT ![c] = s] \in [CPU -> 0..NPROC]
    BY Slots
  <2>2. ASSUME NEW s \in Slot
        PROVE  [state EXCEPT ![s] = "RUNNING"] \in [Slot -> Status]
    BY <1>1 DEF Shape, Status
  <2>3. state' \in [Slot -> Status] /\ on' \in [CPU -> 0..NPROC] /\ scan' \in [CPU -> 0..NPROC]
    BY <1>1, <1>2, <2>1, <2>2, TableAssumption DEF IInv, TypeOK, Shape
  <2> QED BY <1>2, <2>3 DEF IInv, TypeOK, Status, clock
<1>4. PlaceInv'
  BY <1>1, <1>2 DEF IInv, Shape, PlaceInv
<1>5. RootInv'
  BY <1>1, <1>2, Slots DEF IInv, Shape, RootInv
<1>6. CpuInv'
  BY <1>1, <1>2 DEF IInv, Shape, CpuInv, OneCpuPerStack
<1>7. StackInv'
  BY <1>1, <1>2 DEF IInv, Shape, StackInv, PlaceInv
<1>8. ForkInv'
  BY <1>1, <1>2 DEF IInv, Shape, ForkInv, Forking, PlaceInv
<1>9. ParentInv'
  BY <1>1, <1>2 DEF IInv, Shape, ParentInv
<1>10. ClockInv'
  BY <1>1, <1>2, Slots
  DEF IInv, Shape, ClockInv, Clocked, Elapsed, CpuInv, OneCpuPerStack, clock
<1>11. WaitInv'
  BY <1>1, <1>2 DEF IInv, Shape, WaitInv
<1>12. TickInv'
  BY <1>1, <1>2 DEF IInv, Shape, TickInv, Elapsed, clock
<1> QED BY <1>3, <1>4, <1>5, <1>6, <1>7, <1>8, <1>9, <1>10, <1>11, <1>12 DEF IInv

LEMMA SwitchKeeps ==
  ASSUME IInv, NEW c \in CPU, Switch(c)
  PROVE  IInv'
<1>1. Shape
  BY ShapeHolds DEF IInv
<1>2. TypeOK'
  BY <1>1, TableAssumption DEF IInv, TypeOK, Shape, Switch, table, clock, Place
<1>3. PlaceInv'
  BY <1>1 DEF IInv, Shape, PlaceInv, Switch, table
<1>4. RootInv'
  BY <1>1 DEF IInv, Shape, RootInv, Switch, table
<1>5. CpuInv'
  BY <1>1 DEF IInv, Shape, CpuInv, OneCpuPerStack, Switch, table
<1>6. StackInv'
  BY <1>1 DEF IInv, Shape, StackInv, Switch, table
<1>7. ForkInv'
  BY <1>1 DEF IInv, Shape, ForkInv, Forking, PlaceInv, Switch, table
<1>8. ParentInv'
  BY <1>1 DEF IInv, Shape, ParentInv, Switch, table
<1>9. ClockInv'
  BY <1>1
  DEF IInv, Shape, ClockInv, Clocked, Elapsed, CpuInv, OneCpuPerStack, Switch, table,
      cpus, clock
<1>10. WaitInv'
  BY <1>1 DEF IInv, Shape, WaitInv, Switch, table
<1>11. TickInv'
  BY <1>1 DEF IInv, Shape, TickInv, Elapsed, Switch, table, clock
<1> QED BY <1>2, <1>3, <1>4, <1>5, <1>6, <1>7, <1>8, <1>9, <1>10, <1>11 DEF IInv

LEMMA ResumeKeeps ==
  ASSUME IInv, NEW c \in CPU, Resume(c)
  PROVE  IInv'
<1>1. Shape
  BY ShapeHolds DEF IInv
<1>2. TypeOK'
  BY <1>1, TableAssumption
  DEF IInv, TypeOK, Shape, Resume, Resumed, Goto, table, clock, Place
<1>3. PlaceInv'
  BY <1>1 DEF IInv, Shape, PlaceInv, Resume, Resumed, Goto, table
<1>4. RootInv'
  BY <1>1 DEF IInv, Shape, RootInv, Resume, Resumed, Goto, table
<1>5. CpuInv'
  BY <1>1 DEF IInv, Shape, CpuInv, OneCpuPerStack, Resume, Resumed, Goto, table
<1>6. StackInv'
  BY <1>1 DEF IInv, Shape, StackInv, Resume, Resumed, Goto, table
<1>7. ForkInv'
  BY <1>1
  DEF IInv, Shape, ForkInv, Forking, PlaceInv, CpuInv, OneCpuPerStack, Resume,
      Resumed, Goto, table, cpus, clock
<1>8. ParentInv'
  BY <1>1 DEF IInv, Shape, ParentInv, Resume, Resumed, Goto, table
<1>9. ClockInv'
  BY <1>1
  DEF IInv, Shape, ClockInv, Clocked, Elapsed, CpuInv, OneCpuPerStack, Resume,
      Resumed, Goto, table, cpus, clock
<1>10. WaitInv'
  BY <1>1 DEF IInv, Shape, WaitInv, Resume, Resumed, Goto, table
<1>11. TickInv'
  BY <1>1 DEF IInv, Shape, TickInv, Elapsed, Resume, Resumed, Goto, table, clock
<1> QED BY <1>2, <1>3, <1>4, <1>5, <1>6, <1>7, <1>8, <1>9, <1>10, <1>11 DEF IInv

LEMMA YieldKeeps ==
  ASSUME IInv, NEW c \in CPU, Yield(c)
  PROVE  IInv'
<1>1. Shape
  BY ShapeHolds DEF IInv
<1>2. /\ on[c] \in Slot /\ state[on[c]] = "RUNNING" /\ pc[on[c]] # "none"
      /\ tick' \in {tick, "no"}
      /\ IF c = Boot THEN tick = "yield" /\ tick' = "no" ELSE tlock # c /\ tick' = tick
      /\ \/ /\ pc[on[c]] = "user" /\ pc' = [pc EXCEPT ![on[c]] = "exit"]
            /\ UNCHANGED <<lock, state>>
         \/ /\ lock = NoCpu /\ lock' = c /\ state' = [state EXCEPT ![on[c]] = "RUNNABLE"]
            /\ UNCHANGED pc
      /\ UNCHANGED <<pid, parent, killed, kstack, nextpid, on, scan, tlock, ticks, child, until>>
  BY <1>1 DEF Yield, Interrupted, Interruptible, Goto, IInv, PlaceInv, Shape
<1>3. TypeOK'
  <2>1. state' \in [Slot -> Status] /\ pc' \in [Slot -> Place]
        /\ tick' \in {"no", "wakeup", "yield"}
    BY <1>1, <1>2 DEF IInv, TypeOK, Shape, Status, Place
  <2> QED BY <1>2, <2>1 DEF IInv, TypeOK, Status
<1>4. PlaceInv'
  BY <1>1, <1>2 DEF IInv, Shape, PlaceInv
<1>5. RootInv'
  BY <1>1, <1>2, Slots DEF IInv, Shape, RootInv
<1>6. CpuInv'
  BY <1>1, <1>2, CpuAssumption DEF IInv, Shape, CpuInv, OneCpuPerStack
<1>7. StackInv'
  BY <1>1, <1>2 DEF IInv, Shape, StackInv
<1>8. ForkInv'
  BY <1>1, <1>2 DEF IInv, Shape, ForkInv, Forking, PlaceInv
<1>9. ParentInv'
  BY <1>1, <1>2 DEF IInv, Shape, ParentInv
<1>10. ClockInv'
  BY <1>1, <1>2, Slots DEF IInv, Shape, ClockInv, Clocked, Elapsed, CpuInv, OneCpuPerStack
<1>11. WaitInv'
  BY <1>1, <1>2 DEF IInv, Shape, WaitInv
<1>12. TickInv'
  BY <1>1, <1>2 DEF IInv, Shape, TickInv, Elapsed
<1> QED BY <1>3, <1>4, <1>5, <1>6, <1>7, <1>8, <1>9, <1>10, <1>11, <1>12 DEF IInv

LEMMA ForkKeeps ==
  ASSUME IInv, NEW c \in CPU, NEW p \in Slot, Fork(c, p)
  PROVE  IInv'
<1>1. Shape
  BY ShapeHolds DEF IInv
<1>2. /\ on[c] = p /\ state[p] = "RUNNING" /\ pc[p] = "call" /\ lock = NoCpu
      /\ \/ /\ pc' = [pc EXCEPT ![p] = ForkError(p)]
            /\ UNCHANGED <<state, pid, nextpid, child>>
         \/ \E np \in Slot : /\ state[np] = "UNUSED" /\ pc' = [pc EXCEPT ![p] = "fork_alloc"]
                            /\ state' = [state EXCEPT ![np] = "EMBRYO"]
                            /\ pid' = [pid EXCEPT ![np] = nextpid]
                            /\ nextpid <= MaxPid /\ nextpid' = nextpid + 1
                            /\ child' = [child EXCEPT ![p] = np]
      /\ UNCHANGED <<parent, killed, kstack, cpus, clock, until>>
  BY MinIn DEF Fork, Runs, Goto
<1>3. TypeOK'
  <2>1. nextpid' \in 2..(MaxPid + 1) /\ pid' \in [Slot -> 0..MaxPid]
    <3>1. CASE UNCHANGED <<nextpid, pid>>
      BY <3>1 DEF IInv, TypeOK
    <3>2. CASE nextpid <= MaxPid /\ nextpid' = nextpid + 1
               /\ \E np \in Slot : pid' = [pid EXCEPT ![np] = nextpid]
      BY <3>2, TableAssumption DEF IInv, TypeOK
    <3> QED BY <1>2, <3>1, <3>2
  <2>2. child' \in [Slot -> Slot \union {0}] /\ state' \in [Slot -> Status]
    BY <1>1, <1>2 DEF Shape, Status
  <2>3. pc' \in [Slot -> Place]
    BY <1>1, <1>2 DEF Shape, Place, ForkError
  <2> QED BY <1>2, <2>1, <2>2, <2>3, Slots DEF IInv, TypeOK, Status, cpus, clock
<1>4. PlaceInv'
  BY <1>1, <1>2 DEF IInv, Shape, PlaceInv, ForkError
<1>5. RootInv'
  BY <1>1, <1>2, Slots DEF IInv, Shape, RootInv, PlaceInv, ForkError
<1>6. CpuInv'
  BY <1>1, <1>2 DEF IInv, Shape, CpuInv, OneCpuPerStack, ForkError, cpus
<1>7. StackInv'
  BY <1>1, <1>2 DEF IInv, Shape, StackInv, ForkError
<1>8. ForkInv'
  BY <1>1, <1>2 DEF IInv, Shape, ForkInv, Forking, PlaceInv, ParentInv, ForkError
<1>9. ParentInv'
  BY <1>1, <1>2 DEF IInv, Shape, ParentInv, ForkError
<1>10. ClockInv'
  BY <1>1, <1>2 DEF IInv, Shape, ClockInv, Clocked, Elapsed, ForkError, cpus, clock
<1>11. WaitInv'
  BY <1>1, <1>2 DEF IInv, Shape, WaitInv, ForkError
<1>12. TickInv'
  BY <1>1, <1>2 DEF IInv, Shape, TickInv, Elapsed, ForkError, clock
<1> QED BY <1>3, <1>4, <1>5, <1>6, <1>7, <1>8, <1>9, <1>10, <1>11, <1>12 DEF IInv

LEMMA ForkFailKeeps ==
  ASSUME IInv, NEW c \in CPU, NEW p \in Slot, ForkFail(c, p)
  PROVE  IInv'
<1>1. Shape
  BY ShapeHolds DEF IInv
<1>2. /\ on[c] = p /\ state[p] = "RUNNING" /\ pc[p] = "fork_alloc"
      /\ child[p] \in Slot /\ state[child[p]] = "EMBRYO" /\ child[p] # p
      /\ pc[child[p]] = "none" /\ child[p] # initproc
      /\ \A d \in CPU : on[d] # child[p]
  BY <1>1 DEF ForkFail, Runs, IInv, ForkInv, Forking, RootInv, PlaceInv, CpuInv, Shape
<1>3. TypeOK'
  BY <1>1, <1>2, Slots, TableAssumption
  DEF IInv, TypeOK, Shape, ForkFail, Goto, ForkError, cpus, clock, Place
<1>4. PlaceInv'
  BY <1>1, <1>2 DEF IInv, Shape, PlaceInv, ForkFail, Goto, ForkError
<1>5. RootInv'
  BY <1>1, <1>2 DEF IInv, Shape, RootInv, ForkFail, Goto, ForkError
<1>6. CpuInv'
  BY <1>1, <1>2 DEF IInv, Shape, CpuInv, OneCpuPerStack, ForkFail, Goto, ForkError, cpus
<1>7. StackInv'
  BY <1>1, <1>2 DEF IInv, Shape, StackInv, ForkFail, Goto, ForkError
<1>8. ForkInv'
  BY <1>1, <1>2 DEF IInv, Shape, ForkInv, Forking, PlaceInv, ForkFail, Goto, ForkError
<1>9. ParentInv'
  BY <1>1, <1>2 DEF IInv, Shape, ParentInv, ForkInv, Forking, ForkFail, Goto, ForkError
<1>10. ClockInv'
  BY <1>1, <1>2
  DEF IInv, Shape, ClockInv, Clocked, Elapsed, ForkFail, Goto, ForkError, cpus, clock
<1>11. WaitInv'
  BY <1>1, <1>2 DEF IInv, Shape, WaitInv, ForkFail, Goto, ForkError
<1>12. TickInv'
  BY <1>1, <1>2 DEF IInv, Shape, TickInv, Elapsed, ForkFail, Goto, ForkError, clock
<1> QED BY <1>3, <1>4, <1>5, <1>6, <1>7, <1>8, <1>9, <1>10, <1>11, <1>12 DEF IInv

LEMMA ForkCopyKeeps ==
  ASSUME IInv, NEW c \in CPU, NEW p \in Slot, ForkCopy(c, p)
  PROVE  IInv'
<1>1. Shape
  BY ShapeHolds DEF IInv
<1>2. /\ on[c] = p /\ state[p] = "RUNNING" /\ pc[p] = "fork_alloc"
      /\ child[p] \in Slot /\ state[child[p]] = "EMBRYO" /\ child[p] # p
      /\ pc[child[p]] = "none" /\ child[p] # initproc
      /\ \A d \in CPU : on[d] # child[p]
  BY <1>1 DEF ForkCopy, Runs, IInv, ForkInv, Forking, RootInv, PlaceInv, CpuInv, Shape
<1>3. TypeOK'
  BY <1>1, <1>2, TableAssumption DEF IInv, TypeOK, Shape, ForkCopy, Goto, cpus, clock, Place
<1>4. PlaceInv'
  BY <1>1, <1>2 DEF IInv, Shape, PlaceInv, ForkCopy, Goto
<1>5. RootInv'
  BY <1>1, <1>2 DEF IInv, Shape, RootInv, ForkCopy, Goto
<1>6. CpuInv'
  BY <1>1, <1>2 DEF IInv, Shape, CpuInv, OneCpuPerStack, ForkCopy, Goto, cpus
<1>7. StackInv'
  BY <1>1, <1>2 DEF IInv, Shape, StackInv, ForkCopy, Goto
<1>8. ForkInv'
  BY <1>1, <1>2 DEF IInv, Shape, ForkInv, Forking, PlaceInv, ForkCopy, Goto
<1>9. ParentInv'
  BY <1>1, <1>2 DEF IInv, Shape, ParentInv, ForkCopy, Goto
<1>10. ClockInv'
  BY <1>1, <1>2 DEF IInv, Shape, ClockInv, Clocked, Elapsed, ForkCopy, Goto, cpus, clock
<1>11. WaitInv'
  BY <1>1, <1>2, Slots DEF IInv, Shape, WaitInv, ForkInv, Forking, ForkCopy, Goto
<1>12. TickInv'
  BY <1>1, <1>2 DEF IInv, Shape, TickInv, Elapsed, ForkCopy, Goto, clock
<1> QED BY <1>3, <1>4, <1>5, <1>6, <1>7, <1>8, <1>9, <1>10, <1>11, <1>12 DEF IInv

LEMMA ForkReadyKeeps ==
  ASSUME IInv, NEW c \in CPU, NEW p \in Slot, ForkReady(c, p)
  PROVE  IInv'
<1>1. Shape
  BY ShapeHolds DEF IInv
<1>2. /\ on[c] = p /\ state[p] = "RUNNING" /\ pc[p] = "fork_copied"
      /\ child[p] \in Slot /\ state[child[p]] = "EMBRYO" /\ child[p] # p
      /\ pc[child[p]] = "none" /\ child[p] # initproc
      /\ \A d \in CPU : on[d] # child[p]
  BY <1>1 DEF ForkReady, Runs, IInv, ForkInv, Forking, RootInv, PlaceInv, CpuInv, Shape
<1>3. TypeOK'
  BY <1>1, <1>2, TableAssumption DEF IInv, TypeOK, Shape, ForkReady, cpus, clock, Place
<1>4. PlaceInv'
  BY <1>1, <1>2 DEF IInv, Shape, PlaceInv, ForkReady
<1>5. RootInv'
  BY <1>1, <1>2 DEF IInv, Shape, RootInv, ForkReady
<1>6. CpuInv'
  BY <1>1, <1>2 DEF IInv, Shape, CpuInv, OneCpuPerStack, ForkReady, cpus
<1>7. StackInv'
  BY <1>1, <1>2 DEF IInv, Shape, StackInv, ForkInv, Forking, ForkReady
<1>8. ForkInv'
  BY <1>1, <1>2 DEF IInv, Shape, ForkInv, Forking, PlaceInv, ForkReady
<1>9. ParentInv'
  BY <1>1, <1>2 DEF IInv, Shape, ParentInv, ForkReady
<1>10. ClockInv'
  BY <1>1, <1>2 DEF IInv, Shape, ClockInv, Clocked, Elapsed, ForkReady, cpus, clock
<1>11. WaitInv'
  BY <1>1, <1>2 DEF IInv, Shape, WaitInv, ForkReady
<1>12. TickInv'
  BY <1>1, <1>2 DEF IInv, Shape, TickInv, Elapsed, ForkReady, clock
<1> QED BY <1>3, <1>4, <1>5, <1>6, <1>7, <1>8, <1>9, <1>10, <1>11, <1>12 DEF IInv

LEMMA EnterKeeps ==
  ASSUME IInv, NEW c \in CPU, NEW p \in Slot, Enter(c, p)
  PROVE  IInv'
<1>1. Shape
  BY ShapeHolds DEF IInv
<1>2. TypeOK'
  BY <1>1, TableAssumption
  DEF IInv, TypeOK, Shape, Enter, Runs, Goto, table, cpus, clock, Place
<1>3. PlaceInv'
  BY <1>1 DEF IInv, Shape, PlaceInv, Enter, Runs, Goto, table
<1>4. RootInv'
  BY <1>1 DEF IInv, Shape, RootInv, Enter, Runs, Goto, table
<1>5. CpuInv'
  BY <1>1 DEF IInv, Shape, CpuInv, OneCpuPerStack, Enter, Runs, Goto, table, cpus
<1>6. StackInv'
  BY <1>1 DEF IInv, Shape, StackInv, Enter, Runs, Goto, table
<1>7. ForkInv'
  BY <1>1 DEF IInv, Shape, ForkInv, Forking, PlaceInv, Enter, Runs, Goto, table
<1>8. ParentInv'
  BY <1>1 DEF IInv, Shape, ParentInv, Enter, Runs, Goto, table
<1>9. ClockInv'
  BY <1>1
  DEF IInv, Shape, ClockInv, Clocked, Elapsed, Enter, Runs, Goto, table, cpus, clock
<1>10. WaitInv'
  BY <1>1 DEF IInv, Shape, WaitInv, Enter, Runs, Goto, table
<1>11. TickInv'
  BY <1>1 DEF IInv, Shape, TickInv, Elapsed, Enter, Runs, Goto, table, clock
<1> QED BY <1>2, <1>3, <1>4, <1>5, <1>6, <1>7, <1>8, <1>9, <1>10, <1>11 DEF IInv

LEMMA ExitCallKeeps ==
  ASSUME IInv, NEW c \in CPU, NEW p \in Slot, ExitCall(c, p)
  PROVE  IInv'
<1>1. Shape
  BY ShapeHolds DEF IInv
<1>2. TypeOK'
  BY <1>1, TableAssumption
  DEF IInv, TypeOK, Shape, ExitCall, Runs, Goto, table, cpus, clock, Place
<1>3. PlaceInv'
  BY <1>1 DEF IInv, Shape, PlaceInv, ExitCall, Runs, Goto, table
<1>4. RootInv'
  BY <1>1 DEF IInv, Shape, RootInv, ExitCall, Runs, Goto, table
<1>5. CpuInv'
  BY <1>1 DEF IInv, Shape, CpuInv, OneCpuPerStack, ExitCall, Runs, Goto, table, cpus
<1>6. StackInv'
  BY <1>1 DEF IInv, Shape, StackInv, ExitCall, Runs, Goto, table
<1>7. ForkInv'
  BY <1>1 DEF IInv, Shape, ForkInv, Forking, PlaceInv, ExitCall, Runs, Goto, table
<1>8. ParentInv'
  BY <1>1 DEF IInv, Shape, ParentInv, ExitCall, Runs, Goto, table
<1>9. ClockInv'
  BY <1>1
  DEF IInv, Shape, ClockInv, Clocked, Elapsed, ExitCall, Runs, Goto, table, cpus, clock
<1>10. WaitInv'
  BY <1>1 DEF IInv, Shape, WaitInv, ExitCall, Runs, Goto, table
<1>11. TickInv'
  BY <1>1 DEF IInv, Shape, TickInv, Elapsed, ExitCall, Runs, Goto, table, clock
<1> QED BY <1>2, <1>3, <1>4, <1>5, <1>6, <1>7, <1>8, <1>9, <1>10, <1>11 DEF IInv

LEMMA ExitKeeps ==
  ASSUME IInv, NEW c \in CPU, NEW p \in Slot, Exit(c, p)
  PROVE  IInv'
<1>1. Shape
  BY ShapeHolds DEF IInv
<1>2. /\ on[c] = p /\ state[p] = "RUNNING" /\ pc[p] = "exit" /\ p # initproc
      /\ lock = NoCpu /\ lock' = c /\ state'[p] = "ZOMBIE" /\ state' \in [Slot -> Status]
      /\ UNCHANGED <<pid, killed, kstack, nextpid, on, scan, clock, pc, child, until>>
  BY <1>1 DEF Exit, Runs, Runnable, Shape, Status
<1>3. \A q \in Slot \ {p} : \/ state'[q] = state[q]
                            \/ /\ state[q] = "SLEEPING" /\ pc[q] = "wait_asleep"
                               /\ state'[q] = "RUNNABLE"
  BY <1>1 DEF Exit, Runnable, WokenByExit, WaitersWoken, Shape
<1>4. \A q \in Slot : state'[q] = "SLEEPING" /\ pc[q] = "wait_asleep" =>
                    /\ q # parent[p]
                    /\ q = initproc => \A z \in Slot : parent[z] = p => state[z] # "ZOMBIE"
  BY <1>1, <1>2 DEF Exit, Runnable, WokenByExit, WaitersWoken, Zombies, Children, Shape
<1>5. /\ parent' \in [Slot -> Slot \union {0}]
      /\ \A q \in Slot : parent'[q] = IF parent[q] = p THEN initproc ELSE parent[q]
  BY <1>1, Slots DEF Exit, Reparented, Children, Shape
<1>6. TypeOK'
  BY <1>1, <1>2, <1>3, <1>4, <1>5, Slots, TableAssumption
  DEF IInv, TypeOK, Shape, clock, Place
<1>7. PlaceInv'
  BY <1>1, <1>2, <1>3, <1>4, <1>5 DEF IInv, Shape, PlaceInv
<1>8. RootInv'
  BY <1>1, <1>2, <1>3, <1>4, <1>5, Slots DEF IInv, Shape, RootInv
<1>9. CpuInv'
  BY <1>1, <1>2, <1>3, <1>4, <1>5, CpuAssumption
  DEF IInv, Shape, CpuInv, OneCpuPerStack, PlaceInv
<1>10. StackInv'
  BY <1>1, <1>2, <1>3, <1>4, <1>5 DEF IInv, Shape, StackInv
<1>11. ForkInv'
  BY <1>1, <1>2, <1>3, <1>4, <1>5, Slots DEF IInv, Shape, ForkInv, Forking, PlaceInv
<1>12. ParentInv'
  BY <1>1, <1>2, <1>3, <1>4, <1>5, Slots DEF IInv, Shape, ParentInv, RootInv
<1>13. ClockInv'
  BY <1>1, <1>2, <1>3, <1>4, <1>5 DEF IInv, Shape, ClockInv, Clocked, Elapsed, clock
<1>14. WaitInv'
  BY <1>1, <1>2, <1>3, <1>4, <1>5 DEF IInv, Shape, WaitInv, ParentInv, RootInv
<1>15. TickInv'
  BY <1>1, <1>2, <1>3, <1>4, <1>5 DEF IInv, Shape, TickInv, Elapsed, clock
<1> QED BY <1>6, <1>7, <1>8, <1>9, <1>10, <1>11, <1>12, <1>13, <1>14, <1>15 DEF IInv

LEMMA WaitLoopKeeps ==
  ASSUME IInv, NEW c \in CPU, NEW p \in Slot, on[c] = p, state[p] = "RUNNING",
         (lock = NoCpu /\ pc[p] = "call") \/ (lock = c /\ pc[p] = "wait_asleep"),
         WaitLoop(c, p), UNCHANGED <<nextpid, on, scan, clock, child, until>>
  PROVE  IInv'
<1>1. Shape
  BY ShapeHolds DEF IInv
<1>2. \/ \E q \in Slot :
            /\ parent[q] = p /\ state[q] = "ZOMBIE" /\ kstack' = kstack \ {q}
            /\ pid' = [pid EXCEPT ![q] = 0] /\ parent' = [parent EXCEPT ![q] = 0]
            /\ killed' = killed \ {q} /\ state' = [state EXCEPT ![q] = "UNUSED"]
            /\ pc' = [pc EXCEPT ![p] = "user", ![q] = "none"]
            /\ lock' = NoCpu
      \/ /\ pc' = [pc EXCEPT ![p] = "user"] /\ lock' = NoCpu
         /\ UNCHANGED <<state, pid, parent, killed, kstack>>
      \/ /\ \A q \in Slot : parent[q] = p => state[q] # "ZOMBIE"
         /\ p \notin killed /\ \E q \in Slot : parent[q] = p
         /\ state' = [state EXCEPT ![p] = "SLEEPING"]
         /\ pc' = [pc EXCEPT ![p] = "wait_asleep"] /\ lock' = c
         /\ UNCHANGED <<pid, parent, killed, kstack>>
  BY MinIn DEF WaitLoop, Goto, Zombies, Children, NothingToWaitFor
<1>3. \A q \in Slot : state[q] = "ZOMBIE" =>
            /\ q # p /\ q # initproc /\ pc[q] = "exit" /\ \A d \in CPU : on[d] # q
  BY <1>1, Slots, CpuAssumption DEF IInv, RootInv, CpuInv, PlaceInv, Shape
<1>4. TypeOK'
  <2>1. state' \in [Slot -> Status] /\ pc' \in [Slot -> Place]
    BY <1>1, <1>2 DEF Shape, Status, Place
  <2>2. pid' \in [Slot -> 0..MaxPid]
    BY <1>2, TableAssumption DEF IInv, TypeOK
  <2>3. parent' \in [Slot -> Slot \union {0}] /\ killed' \subseteq Slot /\ kstack' \subseteq Slot
    BY <1>1, <1>2 DEF IInv, TypeOK, Shape
  <2> QED BY <1>2, <2>1, <2>2, <2>3, Slots DEF IInv, TypeOK, Status, clock
<1>5. PlaceInv'
  BY <1>1, <1>2, <1>3 DEF IInv, Shape, PlaceInv
<1>6. RootInv'
  BY <1>1, <1>2, <1>3, Slots DEF IInv, Shape, RootInv
<1>7. CpuInv'
  BY <1>1, <1>2, <1>3, CpuAssumption DEF IInv, Shape, CpuInv, OneCpuPerStack, PlaceInv
<1>8. StackInv'
  BY <1>1, <1>2, <1>3 DEF IInv, Shape, StackInv
<1>9. ForkInv'
  BY <1>1, <1>2, <1>3 DEF IInv, Shape, ForkInv, Forking, PlaceInv
<1>10. ParentInv'
  BY <1>1, <1>2, <1>3, Slots DEF IInv, Shape, ParentInv
<1>11. ClockInv'
  BY <1>1, <1>2, <1>3 DEF IInv, Shape, ClockInv, Clocked, Elapsed, clock
<1>12. WaitInv'
  BY <1>1, <1>2, <1>3 DEF IInv, Shape, WaitInv
<1>13. TickInv'
  BY <1>1, <1>2, <1>3 DEF IInv, Shape, TickInv, Elapsed, clock
<1> QED BY <1>4, <1>5, <1>6, <1>7, <1>8, <1>9, <1>10, <1>11, <1>12, <1>13 DEF IInv

LEMMA KillKeeps ==
  ASSUME IInv, NEW c \in CPU, NEW p \in Slot, Kill(c, p)
  PROVE  IInv'
<1>1. Shape
  BY ShapeHolds DEF IInv
<1>2. PICK k \in KillPid : Kill(c, p)!(k)
  BY DEF Kill
<1>3. PICK S \in SUBSET Slot : /\ killed' = killed \union S
                               /\ state' = Runnable({r \in S : state[r] = "SLEEPING"})
  BY <1>2
<1>4. /\ killed' = killed \union S /\ state' \in [Slot -> Status]
      /\ \A r \in Slot : state'[r] = IF r \in S /\ state[r] = "SLEEPING"
                                   THEN "RUNNABLE" ELSE state[r]
  BY <1>1, <1>3 DEF Runnable, Shape, Status
<1>5. /\ on[c] = p /\ state[p] = "RUNNING" /\ pc[p] = "call"
      /\ lock = NoCpu /\ pc' = [pc EXCEPT ![p] = "user"]
      /\ UNCHANGED <<pid, parent, kstack, nextpid, cpus, clock, child, until>>
  BY <1>2 DEF Runs, Goto
<1>6. TypeOK'
  BY <1>1, <1>4, <1>5, TableAssumption DEF IInv, TypeOK, Shape, Status, cpus, clock, Place
<1>7. PlaceInv'
  BY <1>1, <1>4, <1>5 DEF IInv, Shape, PlaceInv
<1>8. RootInv'
  BY <1>1, <1>4, <1>5, Slots DEF IInv, Shape, RootInv
<1>9. CpuInv'
  BY <1>1, <1>4, <1>5 DEF IInv, Shape, CpuInv, OneCpuPerStack, cpus
<1>10. StackInv'
  BY <1>1, <1>4, <1>5 DEF IInv, Shape, StackInv
<1>11. ForkInv'
  BY <1>1, <1>4, <1>5 DEF IInv, Shape, ForkInv, Forking, PlaceInv
<1>12. ParentInv'
  BY <1>1, <1>4, <1>5 DEF IInv, Shape, ParentInv
<1>13. ClockInv'
  BY <1>1, <1>4, <1>5 DEF IInv, Shape, ClockInv, Clocked, Elapsed, cpus, clock
<1>14. WaitInv'
  BY <1>1, <1>4, <1>5 DEF IInv, Shape, WaitInv
<1>15. TickInv'
  BY <1>1, <1>4, <1>5 DEF IInv, Shape, TickInv, Elapsed, clock
<1> QED BY <1>6, <1>7, <1>8, <1>9, <1>10, <1>11, <1>12, <1>13, <1>14, <1>15 DEF IInv

LEMMA SleepCallKeeps ==
  ASSUME IInv, NEW c \in CPU, NEW p \in Slot, SleepCall(c, p)
  PROVE  IInv'
<1>1. Shape
  BY ShapeHolds DEF IInv
<1>2. TypeOK'
  BY <1>1, TableAssumption
  DEF IInv, TypeOK, Shape, SleepCall, Runs, Goto, table, cpus, Place
<1>3. PlaceInv'
  BY <1>1 DEF IInv, Shape, PlaceInv, SleepCall, Runs, Goto, table
<1>4. RootInv'
  BY <1>1 DEF IInv, Shape, RootInv, SleepCall, Runs, Goto, table
<1>5. CpuInv'
  BY <1>1 DEF IInv, Shape, CpuInv, OneCpuPerStack, SleepCall, Runs, Goto, table, cpus
<1>6. StackInv'
  BY <1>1 DEF IInv, Shape, StackInv, SleepCall, Runs, Goto, table
<1>7. ForkInv'
  BY <1>1 DEF IInv, Shape, ForkInv, Forking, PlaceInv, SleepCall, Runs, Goto, table
<1>8. ParentInv'
  BY <1>1 DEF IInv, Shape, ParentInv, SleepCall, Runs, Goto, table
<1>9. ClockInv'
  BY <1>1, CpuAssumption
  DEF IInv, Shape, ClockInv, Clocked, Elapsed, SleepCall, Runs, Goto, table, cpus
<1>10. WaitInv'
  BY <1>1 DEF IInv, Shape, WaitInv, SleepCall, Runs, Goto, table
<1>11. TickInv'
  BY <1>1 DEF IInv, Shape, TickInv, Elapsed, SleepCall, Runs, Goto, table
<1> QED BY <1>2, <1>3, <1>4, <1>5, <1>6, <1>7, <1>8, <1>9, <1>10, <1>11 DEF IInv

LEMMA SleepTestKeeps ==
  ASSUME IInv, NEW c \in CPU, NEW p \in Slot, SleepTest(c, p)
  PROVE  IInv'
<1>1. Shape
  BY ShapeHolds DEF IInv
<1>2. TypeOK'
  <2>1. pc' \in [Slot -> Place] /\ tlock' \in CPU \union {NoCpu}
    BY <1>1 DEF SleepTest, Goto, IInv, TypeOK, Shape, Place
  <2>2. until' \in [Slot -> [ticks0 : 0..(UintSize - 1), n : 0..MaxSleep]]
    <3>1. [ticks0 |-> 0, n |-> 0] \in [ticks0 : 0..(UintSize - 1), n : 0..MaxSleep]
      BY TableAssumption
    <3> QED BY <3>1 DEF SleepTest, IInv, TypeOK
  <2> QED BY <2>1, <2>2 DEF SleepTest, IInv, TypeOK, table, cpus
<1>3. PlaceInv'
  BY <1>1 DEF IInv, Shape, PlaceInv, SleepTest, Runs, Goto, table
<1>4. RootInv'
  BY <1>1 DEF IInv, Shape, RootInv, SleepTest, Runs, Goto, table
<1>5. CpuInv'
  BY <1>1 DEF IInv, Shape, CpuInv, OneCpuPerStack, SleepTest, Runs, Goto, table, cpus
<1>6. StackInv'
  BY <1>1 DEF IInv, Shape, StackInv, SleepTest, Runs, Goto, table
<1>7. ForkInv'
  BY <1>1 DEF IInv, Shape, ForkInv, Forking, PlaceInv, SleepTest, Runs, Goto, table
<1>8. ParentInv'
  BY <1>1 DEF IInv, Shape, ParentInv, SleepTest, Runs, Goto, table
<1>9. ClockInv'
  BY <1>1 DEF IInv, Shape, ClockInv, Clocked, Elapsed, SleepTest, Runs, Goto, table, cpus
<1>10. WaitInv'
  BY <1>1 DEF IInv, Shape, WaitInv, SleepTest, Runs, Goto, table
<1>11. TickInv'
  BY <1>1 DEF IInv, Shape, TickInv, Elapsed, SleepTest, Runs, Goto, table
<1> QED BY <1>2, <1>3, <1>4, <1>5, <1>6, <1>7, <1>8, <1>9, <1>10, <1>11 DEF IInv

LEMMA SleepGoKeeps ==
  ASSUME IInv, NEW c \in CPU, NEW p \in Slot, SleepGo(c, p)
  PROVE  IInv'
<1>1. Shape
  BY ShapeHolds DEF IInv
<1>2. TypeOK'
  BY <1>1, TableAssumption DEF IInv, TypeOK, Shape, SleepGo, Runs, Goto, Place
<1>3. PlaceInv'
  BY <1>1 DEF IInv, Shape, PlaceInv, SleepGo, Runs, Goto
<1>4. RootInv'
  BY <1>1 DEF IInv, Shape, RootInv, SleepGo, Runs, Goto
<1>5. CpuInv'
  BY <1>1, CpuAssumption DEF IInv, Shape, CpuInv, OneCpuPerStack, SleepGo, Runs, Goto
<1>6. StackInv'
  BY <1>1 DEF IInv, Shape, StackInv, SleepGo, Runs, Goto
<1>7. ForkInv'
  BY <1>1 DEF IInv, Shape, ForkInv, Forking, PlaceInv, SleepGo, Runs, Goto
<1>8. ParentInv'
  BY <1>1 DEF IInv, Shape, ParentInv, SleepGo, Runs, Goto
<1>9. ClockInv'
  BY <1>1 DEF IInv, Shape, ClockInv, Clocked, Elapsed, SleepGo, Runs, Goto
<1>10. WaitInv'
  BY <1>1 DEF IInv, Shape, WaitInv, SleepGo, Runs, Goto
<1>11. TickInv'
  BY <1>1 DEF IInv, Shape, TickInv, Elapsed, ClockInv, Clocked, SleepGo, Runs, Goto
<1> QED BY <1>2, <1>3, <1>4, <1>5, <1>6, <1>7, <1>8, <1>9, <1>10, <1>11 DEF IInv

LEMMA SleepLockKeeps ==
  ASSUME IInv, NEW c \in CPU, NEW p \in Slot, SleepLock(c, p)
  PROVE  IInv'
<1>1. Shape
  BY ShapeHolds DEF IInv
<1>2. TypeOK'
  BY <1>1, TableAssumption
  DEF IInv, TypeOK, Shape, SleepLock, Runs, Goto, table, cpus, Place
<1>3. PlaceInv'
  BY <1>1 DEF IInv, Shape, PlaceInv, SleepLock, Runs, Goto, table
<1>4. RootInv'
  BY <1>1 DEF IInv, Shape, RootInv, SleepLock, Runs, Goto, table
<1>5. CpuInv'
  BY <1>1 DEF IInv, Shape, CpuInv, OneCpuPerStack, SleepLock, Runs, Goto, table, cpus
<1>6. StackInv'
  BY <1>1 DEF IInv, Shape, StackInv, SleepLock, Runs, Goto, table
<1>7. ForkInv'
  BY <1>1 DEF IInv, Shape, ForkInv, Forking, PlaceInv, SleepLock, Runs, Goto, table
<1>8. ParentInv'
  BY <1>1 DEF IInv, Shape, ParentInv, SleepLock, Runs, Goto, table
<1>9. ClockInv'
  BY <1>1, CpuAssumption
  DEF IInv, Shape, ClockInv, Clocked, Elapsed, SleepLock, Runs, Goto, table, cpus
<1>10. WaitInv'
  BY <1>1 DEF IInv, Shape, WaitInv, SleepLock, Runs, Goto, table
<1>11. TickInv'
  BY <1>1 DEF IInv, Shape, TickInv, Elapsed, SleepLock, Runs, Goto, table
<1> QED BY <1>2, <1>3, <1>4, <1>5, <1>6, <1>7, <1>8, <1>9, <1>10, <1>11 DEF IInv

LEMMA TickKeeps ==
  ASSUME IInv, Tick
  PROVE  IInv'
<1>1. Shape
  BY ShapeHolds DEF IInv
<1>2. TypeOK'
  BY <1>1, CpuAssumption, TableAssumption
  DEF IInv, TypeOK, Shape, Tick, Interruptible, table, cpus, Place
<1>3. PlaceInv'
  BY <1>1 DEF IInv, Shape, PlaceInv, Tick, Interruptible, table
<1>4. RootInv'
  BY <1>1 DEF IInv, Shape, RootInv, Tick, Interruptible, table
<1>5. CpuInv'
  BY <1>1 DEF IInv, Shape, CpuInv, OneCpuPerStack, Tick, Interruptible, table, cpus
<1>6. StackInv'
  BY <1>1 DEF IInv, Shape, StackInv, Tick, Interruptible, table
<1>7. ForkInv'
  BY <1>1 DEF IInv, Shape, ForkInv, Forking, PlaceInv, Tick, Interruptible, table
<1>8. ParentInv'
  BY <1>1 DEF IInv, Shape, ParentInv, Tick, Interruptible, table
<1>9. ClockInv'
  BY <1>1, CpuAssumption DEF IInv, Shape, ClockInv, Clocked, Elapsed, Tick, Interruptible
<1>10. WaitInv'
  BY <1>1 DEF IInv, Shape, WaitInv, Tick, Interruptible, table
<1>11. TickInv'
  BY <1>1 DEF IInv, Shape, TickInv, Elapsed, Tick, Interruptible
<1> QED BY <1>2, <1>3, <1>4, <1>5, <1>6, <1>7, <1>8, <1>9, <1>10, <1>11 DEF IInv

LEMMA TickWakeupKeeps ==
  ASSUME IInv, TickWakeup
  PROVE  IInv'
<1>1. Shape
  BY ShapeHolds DEF IInv
<1>2. /\ state' \in [Slot -> Status]
      /\ \A q \in Slot : state'[q] = IF state[q] = "SLEEPING" /\ pc[q] = "sleep_asleep"
                                  THEN "RUNNABLE" ELSE state[q]
  BY <1>1 DEF TickWakeup, Runnable, TickSleepers, Shape, Status
<1>3. /\ tick = "wakeup" /\ lock = NoCpu /\ tick' # "wakeup" /\ tick' \in {"yield", "no"}
      /\ tlock' = NoCpu
      /\ UNCHANGED <<pid, parent, killed, kstack, nextpid, cpus, ticks, pc, child, until>>
  BY DEF TickWakeup
<1>4. TypeOK'
  BY <1>1, <1>2, <1>3, TableAssumption DEF IInv, TypeOK, Shape, cpus, Place
<1>5. PlaceInv'
  BY <1>1, <1>2, <1>3 DEF IInv, Shape, PlaceInv
<1>6. RootInv'
  BY <1>1, <1>2, <1>3, Slots DEF IInv, Shape, RootInv
<1>7. CpuInv'
  BY <1>1, <1>2, <1>3 DEF IInv, Shape, CpuInv, OneCpuPerStack, cpus
<1>8. StackInv'
  BY <1>1, <1>2, <1>3 DEF IInv, Shape, StackInv
<1>9. ForkInv'
  BY <1>1, <1>2, <1>3 DEF IInv, Shape, ForkInv, Forking, PlaceInv
<1>10. ParentInv'
  BY <1>1, <1>2, <1>3 DEF IInv, Shape, ParentInv
<1>11. ClockInv'
  BY <1>1, <1>2, <1>3 DEF IInv, Shape, ClockInv, Clocked, Elapsed
<1>12. WaitInv'
  BY <1>1, <1>2, <1>3 DEF IInv, Shape, WaitInv
<1>13. TickInv'
  BY <1>1, <1>2, <1>3 DEF IInv, Shape, TickInv, Elapsed
<1> QED BY <1>4, <1>5, <1>6, <1>7, <1>8, <1>9, <1>10, <1>11, <1>12, <1>13 DEF IInv

(***************************************************************************)
(* The invariant holds.                                                    *)
(***************************************************************************)

LEMMA InitInv == Init => IInv
<1> SUFFICES ASSUME Init PROVE IInv
  OBVIOUS
<1>1. /\ \A p \in Slot : /\ state[p] \in {"UNUSED", "RUNNABLE"} /\ pc[p] \in {"none", "user"}
                        /\ state[p] = "UNUSED" <=> pc[p] = "none"
      /\ \A p \in Slot : p # initproc => state[p] = "UNUSED"
      /\ state[initproc] = "RUNNABLE"
  BY Slots DEF Init
<1>2. TypeOK
  BY Slots, TableAssumption DEF Init, TypeOK, Place
<1>3. PlaceInv /\ RootInv /\ ParentInv
  BY <1>1, Slots DEF Init, PlaceInv, RootInv, ParentInv
<1>4. CpuInv /\ StackInv
  BY <1>1, Slots DEF Init, CpuInv, OneCpuPerStack, StackInv
<1>5. ForkInv /\ ClockInv
  BY <1>1, Slots DEF Init, ForkInv, ClockInv, Forking, Clocked
<1>6. WaitInv /\ TickInv
  BY <1>1 DEF WaitInv, TickInv
<1> QED BY <1>2, <1>3, <1>4, <1>5, <1>6 DEF IInv

LEMMA StutterKeeps ==
  ASSUME IInv, UNCHANGED vars
  PROVE  IInv'
<1>1. TypeOK'
  BY DEF IInv, TypeOK, vars, table, cpus, clock
<1>2. PlaceInv' /\ RootInv' /\ ParentInv' /\ StackInv' /\ ForkInv'
  BY DEF IInv, PlaceInv, RootInv, ParentInv, StackInv, ForkInv, vars, table, cpus, clock
<1>3. CpuInv' /\ ClockInv' /\ WaitInv' /\ TickInv'
  BY DEF IInv, CpuInv, OneCpuPerStack, ClockInv, WaitInv, TickInv, Elapsed, vars, table,
     cpus, clock
<1> QED BY <1>1, <1>2, <1>3 DEF IInv

\* wait() runs its loop when it is called and each time it wakes up.
LEMMA WaitKeeps ==
  ASSUME IInv, NEW c \in CPU, NEW p \in Slot, Wait(c, p) \/ WaitAgain(c, p)
  PROVE  IInv'
<1>1. /\ on[c] = p /\ state[p] = "RUNNING"
      /\ (lock = NoCpu /\ pc[p] = "call") \/ (lock = c /\ pc[p] = "wait_asleep")
      /\ WaitLoop(c, p) /\ UNCHANGED <<nextpid, on, scan, clock, child, until>>
  BY DEF Wait, WaitAgain, Runs
<1> QED BY <1>1, WaitLoopKeeps

LEMMA NextKeeps == IInv /\ [Next]_vars => IInv'
<1> SUFFICES ASSUME IInv, [Next]_vars PROVE IInv'
  OBVIOUS
<1>1. ASSUME NEW c \in CPU, Scheduling(c) \/ Yield(c) PROVE IInv'
  BY <1>1, SchedLockKeeps, SchedKeeps, SwitchKeeps, ResumeKeeps, YieldKeeps DEF Scheduling
<1>2. ASSUME NEW c \in CPU, NEW p \in Slot, Call(c, p) PROVE IInv'
  BY <1>2, ForkKeeps, WaitKeeps, KillKeeps, SleepCallKeeps DEF Call
<1>3. ASSUME NEW c \in CPU, NEW p \in Slot, Continue(c, p) PROVE IInv'
  BY <1>3, ForkFailKeeps, ForkCopyKeeps, ForkReadyKeeps, ExitKeeps, WaitKeeps, SleepTestKeeps,
     SleepGoKeeps, SleepLockKeeps DEF Continue
<1> QED BY <1>1, <1>2, <1>3, EnterKeeps, ExitCallKeeps, TickKeeps, TickWakeupKeeps, StutterKeeps
        DEF Next

\* The invariant that the properties follow from.
THEOREM InvariantHolds == Spec => []IInv
BY InitInv, NextKeeps, PTL DEF Spec

\* Every variable has its type: in particular each slot stays in one of its six
\* states, and each thread at one of its places.
THEOREM TypeCorrect == Spec => []TypeOK
<1>1. IInv => TypeOK
  BY DEF IInv
<1> QED BY <1>1, InvariantHolds, PTL

\* However many CPUs run the scheduler, no two of them are on the same stack:
\* sched() keeps ptable.lock from the change of state to the switch.
THEOREM OneCpuRunsAStack == Spec => []OneCpuPerStack
<1>1. IInv => OneCpuPerStack
  BY DEF IInv, CpuInv
<1> QED BY <1>1, InvariantHolds, PTL

\* wait() and a failed fork() never free the stack that a CPU is on.
THEOREM StackOutlivesItsUse == Spec => []StackLive
<1>1. IInv => StackLive
  <2> SUFFICES ASSUME IInv, NEW c \in CPU, on[c] # 0 PROVE on[c] \in kstack
    BY DEF StackLive
  <2>1. on[c] \in Slot /\ state[on[c]] \notin {"UNUSED", "EMBRYO"}
    BY Slots, ShapeHolds DEF IInv, CpuInv, Shape
  <2> QED BY <2>1 DEF IInv, StackInv
<1> QED BY <1>1, InvariantHolds, PTL

\* exit(), kill() and the adoption by init wake every wait() that has something
\* to return.
THEOREM NoZombieUnnoticed == Spec => []WaitersHaveCause
<1>1. IInv => WaitersHaveCause
  BY DEF IInv, WaitInv, WaitersHaveCause, Children, Zombies
<1> QED BY <1>1, InvariantHolds, PTL

\* sleep() on the clock misses no tick: it lets go of tickslock only when it
\* has ptable.lock, and the interrupt takes them in the same order.
THEOREM NoTickMissed == Spec => []NoMissedTick
<1>1. IInv => NoMissedTick
  BY DEF IInv, TickInv, NoMissedTick, TickSleepers
<1> QED BY <1>1, InvariantHolds, PTL

(***************************************************************************)
(* That fork(), exit() and wait() keep a tree of processes: ProcTable      *)
(* implements ProcessTree, for every number of slots and of CPUs.          *)
(***************************************************************************)

\* A slot in use has a pid of its own, that allocproc() gave out.
PidInv == /\ pid[initproc] = 1
          /\ \A p \in Slot : state[p] # "UNUSED" => pid[p] \in 1..(nextpid - 1)
          /\ \A p, q \in Slot :
                 state[p] # "UNUSED" /\ state[q] # "UNUSED" /\ pid[p] = pid[q] => p = q

Lives(p) == Exists(p) /\ state[p] # "ZOMBIE"

\* The parent of a process has not exited.
LivingInv == \A p \in Slot \ {initproc} :
                 Exists(p) => parent[p] \in Slot /\ Lives(parent[p])

TInv == IInv /\ PidInv /\ LivingInv

(***************************************************************************)
(* The tree, as the table shows it.                                        *)
(***************************************************************************)

Pids   == {pid[p] : p \in {q \in Slot : Exists(q)}}
Live   == {pid[p] : p \in {q \in Slot : Exists(q) /\ state[q] # "ZOMBIE"}}
Exited == {pid[p] : p \in {q \in Slot : state[q] = "ZOMBIE"}}
Par    == [k \in Pids |-> IF k = 1 THEN 1 ELSE pid[parent[SlotOf(k)]]]
TreeStep == [Tree!Next]_<<Live, Exited, Par>>

ParIs == \A p \in Slot : Exists(p) => /\ pid[p] \in 1..MaxPid
                                      /\ pid[p] = 1 <=> p = initproc
                                      /\ Par[pid[p]] = IF p = initproc THEN 1 ELSE pid[parent[p]]

\* A process is found by its pid.
LEMMA ParHolds == IInv /\ PidInv => ParIs
<1> SUFFICES ASSUME IInv, PidInv, NEW p \in Slot, Exists(p)
             PROVE  /\ pid[p] \in 1..MaxPid
                    /\ pid[p] = 1 <=> p = initproc
                    /\ Par[pid[p]] = IF p = initproc THEN 1 ELSE pid[parent[p]]
  BY DEF ParIs
<1>1. SlotOf(pid[p]) = p
  <2>1. \A q \in Slot : Exists(q) /\ pid[q] = pid[p] => q = p
    BY DEF Exists, PidInv
  <2> QED BY <2>1 DEF SlotOf
<1>2. pid[p] \in Pids
  BY DEF Pids
<1>3. pid[p] = 1 <=> p = initproc
  BY Slots DEF Exists, PidInv, IInv, RootInv
<1>4. pid[p] \in 1..MaxPid
  <2>1. pid[p] \in 1..(nextpid - 1) /\ nextpid \in 2..(MaxPid + 1)
    BY DEF Exists, PidInv, IInv, TypeOK
  <2> QED BY <2>1, TableAssumption
<1> QED BY <1>1, <1>2, <1>3, <1>4 DEF Par

LEMMA ParHoldsNext == IInv' /\ PidInv' => ParIs'
BY ParHolds, PTL

\* A step that nobody in the tree can see.
Hidden == \A p \in Slot : /\ Exists(p)' <=> Exists(p)
                          /\ state'[p] = "ZOMBIE" <=> state[p] = "ZOMBIE"
                          /\ Exists(p) => pid'[p] = pid[p] /\ parent'[p] = parent[p]

LEMMA HiddenKeeps ==
  ASSUME TInv, IInv', PidInv', Hidden
  PROVE  LivingInv' /\ TreeStep
<1>1. LivingInv'
  BY DEF TInv, LivingInv, Lives, Hidden, Exists
<1>2. Live' = Live /\ Exited' = Exited /\ Pids' = Pids
  BY DEF Live, Exited, Pids, Hidden, Exists
<1>3. ParIs /\ ParIs'
  BY ParHolds, ParHoldsNext DEF TInv
<1>4. ASSUME NEW k \in Pids PROVE Par'[k] = Par[k]
  <2>1. PICK p \in Slot : Exists(p) /\ k = pid[p]
    BY <1>4 DEF Pids
  <2>2. Exists(p)' /\ pid'[p] = pid[p] /\ parent'[p] = parent[p]
    BY <2>1 DEF Hidden
  <2>3. Par'[pid'[p]] = IF p = initproc THEN 1 ELSE pid'[parent'[p]]
    BY <1>3, <2>2 DEF ParIs
  <2>4. Par[k] = IF p = initproc THEN 1 ELSE pid[parent[p]]
    BY <1>3, <2>1 DEF ParIs
  <2>5. p # initproc => pid'[parent[p]] = pid[parent[p]]
    BY <2>1 DEF TInv, LivingInv, Lives, Hidden
  <2> QED BY <2>1, <2>2, <2>3, <2>4, <2>5
<1>5. Par' = Par
  BY <1>2, <1>4 DEF Par
<1> QED BY <1>1, <1>2, <1>5 DEF TreeStep

\* Most steps leave the tree and the pids alone.
Quiet == /\ UNCHANGED <<pid, parent, nextpid>>
         /\ \A p \in Slot : \/ state'[p] = state[p]
                            \/ /\ state[p] \in {"RUNNABLE", "RUNNING", "SLEEPING"}
                               /\ state'[p] \in {"RUNNABLE", "RUNNING", "SLEEPING"}

LEMMA QuietKeeps ==
  ASSUME TInv, IInv', Quiet
  PROVE  TInv' /\ TreeStep
<1>1. PidInv'
  BY DEF TInv, PidInv, Quiet
<1>2. Hidden
  BY DEF Hidden, Quiet, Exists
<1> QED BY <1>1, <1>2, HiddenKeeps DEF TInv

(***************************************************************************)
(* The steps, one by one.                                                  *)
(***************************************************************************)

LEMMA SchedulingStep ==
  ASSUME TInv, IInv', NEW c \in CPU, Scheduling(c) \/ Yield(c)
  PROVE  TInv' /\ TreeStep
<1>1. Shape
  BY ShapeHolds DEF TInv, IInv
<1>2. CASE SchedLock(c) \/ Switch(c) \/ Resume(c)
  <2>1. Quiet
    BY <1>2 DEF Quiet, SchedLock, Switch, Resume, table
  <2> QED BY <2>1, QuietKeeps
<1>3. CASE Sched(c)
  <2>1. /\ UNCHANGED <<pid, parent, nextpid>>
        /\ \/ UNCHANGED state
           \/ \E s \in Slot : state[s] = "RUNNABLE" /\ state' = [state EXCEPT ![s] = "RUNNING"]
    BY <1>3, MinIn DEF Sched
  <2>2. Quiet
    BY <1>1, <2>1 DEF Quiet, Shape
  <2> QED BY <2>2, QuietKeeps
<1>4. CASE Yield(c)
  <2>1. /\ UNCHANGED <<pid, parent, nextpid>> /\ state[on[c]] = "RUNNING"
        /\ UNCHANGED state \/ state' = [state EXCEPT ![on[c]] = "RUNNABLE"]
    BY <1>4 DEF Yield, Interrupted
  <2>2. Quiet
    BY <1>1, <2>1 DEF Quiet, Shape
  <2> QED BY <2>2, QuietKeeps
<1> QED BY <1>2, <1>3, <1>4 DEF Scheduling

LEMMA KillStep ==
  ASSUME TInv, IInv', NEW c \in CPU, NEW p \in Slot, Kill(c, p)
  PROVE  TInv' /\ TreeStep
<1>1. Shape
  BY ShapeHolds DEF TInv, IInv
<1>2. PICK k \in KillPid : Kill(c, p)!(k)
  BY DEF Kill
<1>3. PICK S \in SUBSET Slot : state' = Runnable({r \in S : state[r] = "SLEEPING"})
  BY <1>2
<1>4. UNCHANGED <<pid, parent, nextpid>>
  BY <1>2
<1>5. Quiet
  BY <1>1, <1>3, <1>4 DEF Quiet, Runnable, Shape
<1> QED BY <1>5, QuietKeeps

LEMMA SleepStep ==
  ASSUME TInv, IInv', NEW c \in CPU, NEW p \in Slot,
         \/ Enter(c, p) \/ ExitCall(c, p)
         \/ SleepCall(c, p) \/ SleepTest(c, p) \/ SleepGo(c, p) \/ SleepLock(c, p)
  PROVE  TInv' /\ TreeStep
<1>1. Shape
  BY ShapeHolds DEF TInv, IInv
<1>2. CASE \/ Enter(c, p) \/ ExitCall(c, p)
           \/ SleepCall(c, p) \/ SleepTest(c, p) \/ SleepLock(c, p)
  <2>1. UNCHANGED <<state, pid, parent, nextpid>>
    BY <1>2 DEF Enter, ExitCall, SleepCall, SleepTest, SleepLock, table
  <2> QED BY <2>1, QuietKeeps DEF Quiet
<1>3. CASE SleepGo(c, p)
  <2>1. Quiet
    BY <1>1, <1>3 DEF Quiet, SleepGo, Runs, Shape
  <2> QED BY <2>1, QuietKeeps
<1> QED BY <1>2, <1>3

LEMMA ClockStep ==
  ASSUME TInv, IInv', Tick \/ TickWakeup
  PROVE  TInv' /\ TreeStep
<1>1. Shape
  BY ShapeHolds DEF TInv, IInv
<1>2. Quiet
  BY <1>1 DEF Quiet, Tick, TickWakeup, Runnable, TickSleepers, Shape, table
<1> QED BY <1>2, QuietKeeps

\* The slot that allocproc() takes is not in the tree yet; its pid is new.
LEMMA ForkStep ==
  ASSUME TInv, IInv', NEW c \in CPU, NEW p \in Slot, Fork(c, p)
  PROVE  TInv' /\ TreeStep
<1>1. Shape
  BY ShapeHolds DEF TInv, IInv
<1>2. \/ UNCHANGED <<state, pid, parent, nextpid>>
      \/ \E np \in Slot : /\ state[np] = "UNUSED" /\ state' = [state EXCEPT ![np] = "EMBRYO"]
                          /\ pid' = [pid EXCEPT ![np] = nextpid]
                          /\ nextpid' = nextpid + 1 /\ parent' = parent
  BY MinIn DEF Fork
<1>3. CASE UNCHANGED <<state, pid, parent, nextpid>>
  BY <1>3, QuietKeeps DEF Quiet
<1>4. ASSUME NEW np \in Slot, state[np] = "UNUSED", state' = [state EXCEPT ![np] = "EMBRYO"],
             pid' = [pid EXCEPT ![np] = nextpid], nextpid' = nextpid + 1, parent' = parent
      PROVE  TInv' /\ TreeStep
  <2>1. \A q \in Slot : /\ q # np => state'[q] = state[q] /\ pid'[q] = pid[q]
                        /\ q = np => state'[q] = "EMBRYO" /\ pid'[q] = nextpid
    BY <1>1, <1>4 DEF TInv, IInv, TypeOK, Shape
  <2>2. np # initproc /\ nextpid \in Nat /\ nextpid >= 2
    BY <1>4 DEF TInv, IInv, RootInv, TypeOK
  <2>3. PidInv'
    <3>1. pid'[initproc] = 1
      BY <2>1, <2>2, Slots DEF TInv, PidInv
    <3>2. \A q \in Slot : state'[q] # "UNUSED" => pid'[q] \in 1..(nextpid' - 1)
      BY <1>4, <2>1, <2>2 DEF TInv, PidInv
    <3>3. \A q, r \in Slot : /\ state'[q] # "UNUSED" /\ state'[r] # "UNUSED"
                            /\ pid'[q] = pid'[r] => q = r
      BY <2>1, <2>2 DEF TInv, PidInv
    <3> QED BY <3>1, <3>2, <3>3 DEF PidInv
  <2>4. Hidden
    BY <1>4, <2>1 DEF Hidden, Exists
  <2> QED BY <2>3, <2>4, HiddenKeeps DEF TInv
<1> QED BY <1>2, <1>3, <1>4

\* Until it is runnable the child is not in the tree.
LEMMA ForkingStep ==
  ASSUME TInv, IInv', NEW c \in CPU, NEW p \in Slot, ForkFail(c, p) \/ ForkCopy(c, p)
  PROVE  TInv' /\ TreeStep
<1>1. Shape
  BY ShapeHolds DEF TInv, IInv
<1>2. child[p] \in Slot /\ state[child[p]] = "EMBRYO"
  BY <1>1 DEF TInv, IInv, ForkInv, Forking, Shape, ForkFail, ForkCopy
<1>3. /\ UNCHANGED <<pid, nextpid>>
      /\ \A q \in Slot : q # child[p] => state'[q] = state[q] /\ parent'[q] = parent[q]
      /\ state'[child[p]] \in {"UNUSED", "EMBRYO"}
  BY <1>1, <1>2 DEF ForkFail, ForkCopy, Shape
<1>4. PidInv'
  <2>1. \A q \in Slot : state'[q] # "UNUSED" => state[q] # "UNUSED"
    BY <1>2, <1>3
  <2> QED BY <1>3, <2>1 DEF TInv, PidInv
<1>5. Hidden
  BY <1>2, <1>3 DEF Hidden, Exists
<1> QED BY <1>4, <1>5, HiddenKeeps DEF TInv

\* The child joins the tree when it is runnable.
LEMMA ForkReadyStep ==
  ASSUME TInv, IInv', NEW c \in CPU, NEW p \in Slot, ForkReady(c, p)
  PROVE  TInv' /\ TreeStep
<1> DEFINE np == child[p]
<1>1. Shape
  BY ShapeHolds DEF TInv, IInv
<1>2. /\ np \in Slot /\ state[np] = "EMBRYO" /\ parent[np] = p /\ state[p] = "RUNNING"
      /\ np # p /\ np # initproc
  BY <1>1 DEF TInv, IInv, ForkInv, Forking, RootInv, Shape, ForkReady, Runs
<1>3. /\ UNCHANGED <<pid, parent, nextpid>>
      /\ state'[np] = "RUNNABLE" /\ \A q \in Slot : q # np => state'[q] = state[q]
  BY <1>1, <1>2 DEF ForkReady, Shape
<1> HIDE DEF np
<1>4. PidInv'
  BY <1>2, <1>3 DEF TInv, PidInv
<1>5. /\ \A q \in Slot : Exists(q)' <=> Exists(q) \/ q = np
      /\ \A q \in Slot : state'[q] = "ZOMBIE" <=> state[q] = "ZOMBIE"
      /\ ~Exists(np) /\ Exists(p)
  BY <1>2, <1>3 DEF Exists
<1>6. LivingInv'
  BY <1>2, <1>3, <1>5 DEF TInv, LivingInv, Lives
<1>7. ParIs /\ ParIs'
  BY <1>4, ParHolds, ParHoldsNext DEF TInv
<1>8. Live' = Live \union {pid[np]} /\ Exited' = Exited /\ Pids' = Pids \union {pid[np]}
  BY <1>2, <1>3, <1>5 DEF Live, Exited, Pids
<1>9. pid[np] \notin Pids
  BY <1>2, <1>5 DEF Pids, TInv, PidInv, Exists
<1>10. Par' = [k \in Pids \union {pid[np]} |-> IF k = pid[np] THEN pid[p] ELSE Par[k]]
  <2>1. Par'[pid[np]] = pid[p]
    BY <1>2, <1>3, <1>5, <1>7 DEF ParIs
  <2>2. ASSUME NEW k \in Pids PROVE Par'[k] = Par[k]
    <3>1. PICK q \in Slot : Exists(q) /\ k = pid[q]
      BY <2>2 DEF Pids
    <3>2. Exists(q)' /\ pid'[q] = k
      BY <1>3, <1>5, <3>1
    <3> QED BY <1>3, <1>7, <3>1, <3>2 DEF ParIs
  <2>3. Par' = [k \in Pids' |-> Par'[k]]
    BY DEF Par
  <2> QED BY <1>8, <1>9, <2>1, <2>2, <2>3
<1>11. DOMAIN Par = Pids
  BY DEF Par
<1>12. Pids = Live \union Exited
  BY DEF Pids, Live, Exited, Exists
<1>13. pid[p] \in Live /\ pid[p] \in 1..MaxPid /\ pid[np] \in 1..MaxPid
  <2>1. pid[p] \in Live
    BY <1>2, <1>5 DEF Live
  <2>2. pid[np] \in 1..MaxPid
    BY <1>3, <1>5, <1>7, <1>2 DEF ParIs
  <2> QED BY <1>5, <1>7, <2>1, <2>2 DEF ParIs
<1>14. PICK j, k \in 1..MaxPid : j = pid[p] /\ k = pid[np]
  BY <1>13
<1>15. Tree!Fork(j, k)
  BY <1>8, <1>9, <1>10, <1>11, <1>12, <1>13, <1>14 DEF Tree!Fork, Live, Exited, Par, Pids
<1>16. TreeStep
  BY <1>15 DEF Tree!Next, TreeStep
<1> QED BY <1>4, <1>6, <1>16 DEF TInv

\* exit() makes a zombie, and its children are init's.
LEMMA ExitStep ==
  ASSUME TInv, IInv', NEW c \in CPU, NEW p \in Slot, Exit(c, p)
  PROVE  TInv' /\ TreeStep
<1>1. Shape
  BY ShapeHolds DEF TInv, IInv
<1>2. /\ state[p] = "RUNNING" /\ p # initproc /\ state'[p] = "ZOMBIE"
      /\ UNCHANGED <<pid, nextpid>>
  BY <1>1 DEF Exit, Runs, Runnable, Shape
<1>3. \A q \in Slot \ {p} : \/ state'[q] = state[q]
                            \/ state[q] = "SLEEPING" /\ state'[q] = "RUNNABLE"
  BY <1>1 DEF Exit, Runnable, WokenByExit, WaitersWoken, Shape
<1>4. \A q \in Slot : parent'[q] = IF parent[q] = p THEN initproc ELSE parent[q]
  BY <1>1 DEF Exit, Reparented, Children, Shape
<1>5. /\ \A q \in Slot : Exists(q)' <=> Exists(q)
      /\ \A q \in Slot : state'[q] = "ZOMBIE" <=> state[q] = "ZOMBIE" \/ q = p
      /\ Exists(p) /\ state[p] # "ZOMBIE"
  BY <1>2, <1>3 DEF Exists
<1>6. PidInv'
  <2>1. \A q \in Slot : state'[q] # "UNUSED" => state[q] # "UNUSED"
    BY <1>2, <1>3
  <2> QED BY <1>2, <2>1 DEF TInv, PidInv
<1>7. initproc \in Slot /\ Exists(initproc) /\ state[initproc] # "ZOMBIE" /\ pid[initproc] = 1
  BY Slots DEF TInv, IInv, RootInv, Exists, PidInv
<1>8. LivingInv'
  BY <1>2, <1>4, <1>5, <1>7 DEF TInv, LivingInv, Lives
<1>9. ParIs /\ ParIs'
  BY <1>6, ParHolds, ParHoldsNext DEF TInv
<1>10. \A q \in Slot : Exists(q) /\ pid[q] = pid[p] => q = p
  BY <1>2 DEF TInv, PidInv, Exists
<1>11. /\ Live' = Live \ {pid[p]} /\ Exited' = Exited \union {pid[p]} /\ Pids' = Pids
       /\ pid[p] \in Live \ {1}
  BY <1>2, <1>5, <1>9, <1>10 DEF Live, Exited, Pids, ParIs
<1>12. Par' = [k \in Pids |-> IF Par[k] = pid[p] THEN 1 ELSE Par[k]]
  <2>1. ASSUME NEW k \in Pids PROVE Par'[k] = IF Par[k] = pid[p] THEN 1 ELSE Par[k]
    <3>1. PICK q \in Slot : Exists(q) /\ k = pid[q]
      BY <2>1 DEF Pids
    <3>2. /\ Par[k] = IF q = initproc THEN 1 ELSE pid[parent[q]]
          /\ Par'[k] = IF q = initproc THEN 1 ELSE pid[parent'[q]]
      BY <1>2, <1>5, <1>9, <3>1 DEF ParIs
    <3>3. CASE q = initproc
      BY <1>11, <3>2, <3>3
    <3>4. CASE q # initproc
      <4>1. parent[q] \in Slot /\ Exists(parent[q])
        BY <3>1, <3>4 DEF TInv, LivingInv, Lives
      <4>2. pid[parent[q]] = pid[p] <=> parent[q] = p
        BY <1>10, <4>1
      <4> QED BY <1>4, <1>7, <3>2, <3>4, <4>2
    <3> QED BY <3>3, <3>4
  <2>2. Par' = [k \in Pids' |-> Par'[k]]
    BY DEF Par
  <2> QED BY <1>11, <2>1, <2>2
<1>13. DOMAIN Par = Pids
  BY DEF Par
<1>14. PICK k \in 1..MaxPid : k = pid[p]
  BY <1>5, <1>9 DEF ParIs
<1>15. Tree!Exit(k)
  BY <1>11, <1>12, <1>13, <1>14 DEF Tree!Exit, Live, Exited, Par, Pids
<1>16. TreeStep
  BY <1>15 DEF Tree!Next, TreeStep
<1> QED BY <1>6, <1>8, <1>16 DEF TInv

\* wait() reports a zombie child to its parent, and frees its slot.
LEMMA ReapStep ==
  ASSUME TInv, IInv', NEW p \in Slot, NEW q \in Slot, state[p] = "RUNNING", nextpid' = nextpid,
         parent[q] = p, state[q] = "ZOMBIE", state' = [state EXCEPT ![q] = "UNUSED"],
         pid' = [pid EXCEPT ![q] = 0], parent' = [parent EXCEPT ![q] = 0]
  PROVE  TInv' /\ TreeStep
<1>1. Shape
  BY ShapeHolds DEF TInv, IInv
<1>2. q # initproc /\ q # p
  BY DEF TInv, IInv, RootInv
<1>3. \A r \in Slot : /\ r # q => /\ state'[r] = state[r] /\ pid'[r] = pid[r]
                                  /\ parent'[r] = parent[r]
                      /\ r = q => state'[r] = "UNUSED"
  BY <1>1 DEF TInv, IInv, TypeOK, Shape
<1>4. PidInv'
  BY <1>2, <1>3, Slots DEF TInv, PidInv
<1>5. /\ \A r \in Slot : Exists(r)' <=> Exists(r) /\ r # q
      /\ \A r \in Slot : state'[r] = "ZOMBIE" <=> state[r] = "ZOMBIE" /\ r # q
      /\ Exists(q) /\ Exists(p)
  BY <1>3 DEF Exists
<1>6. \A r \in Slot \ {initproc} : Exists(r) => /\ parent[r] \in Slot /\ parent[r] # q
                                                /\ Lives(parent[r])
  BY DEF TInv, LivingInv, Lives
<1>7. LivingInv'
  BY <1>3, <1>5, <1>6 DEF LivingInv, Lives
<1>8. ParIs /\ ParIs'
  BY <1>4, ParHolds, ParHoldsNext DEF TInv
<1>9. \A r \in Slot : Exists(r) /\ pid[r] = pid[q] => r = q
  BY DEF TInv, PidInv, Exists
<1>10. Live' = Live
  BY <1>3, <1>5 DEF Live
<1>11. Exited' = Exited \ {pid[q]} /\ pid[q] \in Exited
  BY <1>3, <1>5, <1>9, <1>2 DEF Exited, Exists
<1>12. Pids' = Pids \ {pid[q]}
  BY <1>3, <1>5, <1>9 DEF Pids
<1>13. Par' = [k \in Pids \ {pid[q]} |-> Par[k]]
  <2>1. ASSUME NEW k \in Pids \ {pid[q]} PROVE Par'[k] = Par[k]
    <3>1. PICK r \in Slot : Exists(r) /\ k = pid[r]
      BY <2>1 DEF Pids
    <3>2. r # q /\ Exists(r)' /\ pid'[r] = k /\ parent'[r] = parent[r]
      BY <1>3, <1>5, <2>1, <3>1
    <3>3. r # initproc => pid'[parent[r]] = pid[parent[r]]
      BY <1>3, <1>6, <3>1
    <3> QED BY <1>8, <3>1, <3>2, <3>3 DEF ParIs
  <2>2. Par' = [k \in Pids' |-> Par'[k]]
    BY DEF Par
  <2> QED BY <1>12, <2>1, <2>2
<1>14. DOMAIN Par = Pids /\ Par[pid[q]] = pid[p] /\ pid[p] \in Live
  BY <1>2, <1>5, <1>8 DEF Par, ParIs, Live
<1>15. PICK j, k \in 1..MaxPid : j = pid[p] /\ k = pid[q]
  BY <1>5, <1>8 DEF ParIs
<1>16. Tree!Reap(j, k)
  BY <1>10, <1>11, <1>13, <1>14, <1>15 DEF Tree!Reap, Live, Exited, Par, Pids
<1>17. TreeStep
  BY <1>16 DEF Tree!Next, TreeStep
<1> QED BY <1>4, <1>7, <1>17 DEF TInv

LEMMA WaitStep ==
  ASSUME TInv, IInv', NEW c \in CPU, NEW p \in Slot, Wait(c, p) \/ WaitAgain(c, p)
  PROVE  TInv' /\ TreeStep
<1>1. Shape
  BY ShapeHolds DEF TInv, IInv
<1>2. state[p] = "RUNNING" /\ nextpid' = nextpid /\ WaitLoop(c, p)
  BY DEF Wait, WaitAgain, Runs
<1>3. \/ \E q \in Slot : /\ parent[q] = p /\ state[q] = "ZOMBIE"
                         /\ pid' = [pid EXCEPT ![q] = 0] /\ parent' = [parent EXCEPT ![q] = 0]
                         /\ state' = [state EXCEPT ![q] = "UNUSED"]
      \/ UNCHANGED <<state, pid, parent>>
      \/ state' = [state EXCEPT ![p] = "SLEEPING"] /\ UNCHANGED <<pid, parent>>
  BY <1>2, MinIn DEF WaitLoop, Zombies, Children
<1>4. CASE \/ UNCHANGED <<state, pid, parent>>
           \/ state' = [state EXCEPT ![p] = "SLEEPING"] /\ UNCHANGED <<pid, parent>>
  <2>1. Quiet
    BY <1>1, <1>2, <1>4 DEF Quiet, Shape
  <2> QED BY <2>1, QuietKeeps
<1> QED BY <1>2, <1>3, <1>4, ReapStep

(***************************************************************************)
(* The theorem.                                                            *)
(***************************************************************************)

LEMMA TreeInit == Init => TInv /\ Tree!Init
<1> SUFFICES ASSUME Init PROVE TInv /\ Tree!Init
  OBVIOUS
<1>1. IInv
  BY InitInv
<1>2. /\ initproc \in Slot /\ state[initproc] = "RUNNABLE" /\ pid[initproc] = 1 /\ nextpid = 2
      /\ \A p \in Slot \ {initproc} : state[p] = "UNUSED"
  BY Slots DEF Init
<1>3. PidInv /\ LivingInv
  BY <1>2 DEF PidInv, LivingInv, Exists
<1>4. Live = {1} /\ Exited = {} /\ Pids = {1}
  BY <1>2 DEF Live, Exited, Pids, Exists
<1>5. Par = [k \in {1} |-> 1]
  BY <1>4 DEF Par
<1>6. Tree!Init
  BY <1>4, <1>5 DEF Tree!Init, Live, Exited, Par, Pids
<1> QED BY <1>1, <1>3, <1>6 DEF TInv

LEMMA TreeNext == TInv /\ [Next]_vars => TInv' /\ TreeStep
<1> SUFFICES ASSUME TInv, [Next]_vars PROVE TInv' /\ TreeStep
  OBVIOUS
<1>1. IInv'
  BY NextKeeps DEF TInv
<1>2. ASSUME NEW c \in CPU, Scheduling(c) \/ Yield(c) PROVE TInv' /\ TreeStep
  BY <1>1, <1>2, SchedulingStep
<1>3. ASSUME NEW c \in CPU, NEW p \in Slot, Call(c, p) PROVE TInv' /\ TreeStep
  BY <1>1, <1>3, ForkStep, SleepStep, WaitStep, KillStep DEF Call
<1>4. ASSUME NEW c \in CPU, NEW p \in Slot, Continue(c, p) PROVE TInv' /\ TreeStep
  BY <1>1, <1>4, ForkingStep, ForkReadyStep, ExitStep, WaitStep, SleepStep DEF Continue
<1>5. CASE UNCHANGED vars
  <2>1. Quiet
    BY <1>5 DEF Quiet, vars, table
  <2> QED BY <1>1, <2>1, QuietKeeps
<1> QED BY <1>1, <1>2, <1>3, <1>4, <1>5, SleepStep, ClockStep DEF Next

\* fork(), exit() and wait() keep a tree: a child joins it with a pid of its own, the children
\* of who exits go to init, and a zombie is reported once, to its parent (proc.c:180-313).
THEOREM TableImplementsTree == Spec => ImplementsProcessTree
<1>1. Init => TInv /\ Tree!Init
  BY TreeInit
<1>2. TInv /\ [Next]_vars => TInv' /\ TreeStep
  BY TreeNext
<1> QED BY <1>1, <1>2, PTL
        DEF Spec, ImplementsProcessTree, Tree!Spec, TreeStep, Live, Exited, Par, Pids, Tree!vars
=============================================================================
