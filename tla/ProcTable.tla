------------------------------ MODULE ProcTable ------------------------------
(***************************************************************************)
(* The process table of xv6 (p2/xv6/proc.c): CPUs with their schedulers,   *)
(* fork, exit, wait, kill, and sleep and wakeup as sys_sleep() and the     *)
(* timer interrupt use them (sysproc.c, trap.c).                           *)
(*                                                                         *)
(* ptable.lock is what makes context switches safe: it is taken by the     *)
(* process that gives its CPU up and released by what runs there next.     *)
(* So changing a state, switching and releasing the lock are actions of    *)
(* their own.  A critical section without a switch in it is one action.    *)
(***************************************************************************)
EXTENDS Naturals, FiniteSets, FiniteSetsExt

CONSTANTS NPROC,     \* slots of the table
          CPU,       \* processors
          Boot,      \* the processor that counts ticks
          NoCpu,     \* nobody
          UintSize,  \* ticks counts modulo UintSize
          MaxPid,    \* bound: pids given out
          MaxSleep,  \* bound: ticks asked of sys_sleep()
          KillPid    \* bound: pids given to kill()

ASSUME TableAssumption == /\ NPROC \in Nat \ {0} /\ MaxPid \in Nat \ {0}
                          /\ KillPid \subseteq 0..MaxPid
                         /\ MaxSleep \in Nat /\ UintSize \in Nat /\ UintSize > MaxSleep
ASSUME CpuAssumption   == Boot \in CPU /\ NoCpu \notin CPU

VARIABLES state, pid, parent, killed,  \* of each slot, as in struct proc
          kstack,   \* the slots with a kernel stack
          nextpid,  \* the next pid
          on,       \* CPU -> the slot whose stack it runs on; 0: its scheduler's
          scan,     \* CPU -> slots its scheduler has looked at
          lock,     \* the CPU that holds ptable.lock
          tlock,    \* the CPU that holds tickslock
          tick,     \* the boot CPU's timer interrupt: what it does next, or "no"
          ticks,    \* the clock
          pc,       \* slot -> where its kernel thread is
          child,    \* slot -> np of its fork()
          until     \* slot -> [ticks0, n] of its sys_sleep()

table == <<state, pid, parent, killed, kstack, nextpid>>
cpus  == <<on, scan, lock>>
clock == <<tlock, tick, ticks>>
vars  == <<table, cpus, clock, pc, child, until>>

Slot     == 1..NPROC
initproc == 1

Goto(p, label) == pc' = [pc EXCEPT ![p] = label]

\* The kernel thread of slot p runs on CPU c: nothing interrupts it there, and
\* it is past the release of ptable.lock that follows a switch.
Runs(c, p) == /\ on[c] = p /\ state[p] = "RUNNING" /\ lock # c
              /\ (c = Boot => tick = "no")

\* exit() panics in init, "init exiting", and its CPU stops.
Panicked == pc[initproc] = "exit"

\* Interrupts are off while a CPU holds a spinlock.
Interruptible(c) == lock # c /\ tlock # c /\ ~(on[c] = initproc /\ Panicked)

\* wakeup1() of sleepers in wait() on one of the channels, or on &ticks; a
\* process sleeps in wait() on its own slot.
WaitersWoken(S) == {q \in S : state[q] = "SLEEPING" /\ pc[q] = "wait_asleep"}
TickSleepers == {q \in Slot : state[q] = "SLEEPING" /\ pc[q] = "sleep_asleep"}
Runnable(S) == [q \in Slot |-> IF q \in S THEN "RUNNABLE" ELSE state[q]]

----------------------------------------------------------------------------
\* After userinit(): the first process is runnable, the table is else empty.
Init == /\ state = [s \in Slot |-> IF s = initproc THEN "RUNNABLE" ELSE "UNUSED"]
        /\ pid = [s \in Slot |-> IF s = initproc THEN 1 ELSE 0]
        /\ parent = [s \in Slot |-> 0] /\ killed = {} /\ kstack = {initproc}
        /\ nextpid = 2
        /\ on = [c \in CPU |-> 0] /\ scan = [c \in CPU |-> 0] /\ lock = NoCpu
        /\ tlock = NoCpu /\ tick = "no" /\ ticks = 0
        /\ pc = [s \in Slot |-> IF s = initproc THEN "user" ELSE "none"]
        /\ child = [s \in Slot |-> 0] /\ until = [s \in Slot |-> [ticks0 |-> 0, n |-> 0]]

----------------------------------------------------------------------------
(* scheduler(), sched(), yield() *)

SchedLock(c) == /\ on[c] = 0 /\ lock = NoCpu /\ (c = Boot => tick = "no")
                /\ lock' = c
                /\ UNCHANGED <<table, on, scan, clock, pc, child, until>>

\* The loop over the table goes on behind the last slot it ran, and at its end
\* the lock is released.
Sched(c) ==
    /\ on[c] = 0 /\ lock = c
    /\ LET ready == {s \in Slot : s > scan[c] /\ state[s] = "RUNNABLE"}
       IN  IF ready = {}
           THEN lock' = NoCpu /\ scan' = [scan EXCEPT ![c] = 0] /\ UNCHANGED <<state, on>>
           ELSE /\ state' = [state EXCEPT ![Min(ready)] = "RUNNING"]
                /\ on' = [on EXCEPT ![c] = Min(ready)]
                /\ scan' = [scan EXCEPT ![c] = Min(ready)]
                /\ UNCHANGED lock
    /\ UNCHANGED <<pid, parent, killed, kstack, nextpid, clock, pc, child, until>>

\* swtch() of sched(): the thread has changed its state and leaves the CPU.
Switch(c) == /\ on[c] # 0 /\ state[on[c]] # "RUNNING"
             /\ on' = [on EXCEPT ![c] = 0]
             /\ UNCHANGED <<table, scan, lock, clock, pc, child, until>>

\* What the thread does when it runs again: yield(), forkret() and sleep()
\* release ptable.lock.  wait() keeps it.
Resumed(at) == IF at = "sleep_asleep" THEN "sleep_lock" ELSE at
Resume(c) == /\ on[c] # 0 /\ lock = c /\ state[on[c]] = "RUNNING"
             /\ pc[on[c]] # "wait_asleep"
             /\ lock' = NoCpu
             /\ Goto(on[c], Resumed(pc[on[c]]))
             /\ UNCHANGED <<table, on, scan, clock, child, until>>

\* The timer interrupts the thread of c.  On the boot CPU, Tick has counted.
Interrupted(c) == /\ on[c] # 0 /\ state[on[c]] = "RUNNING"
                  /\ IF c = Boot THEN tick = "yield" ELSE Interruptible(c)
                  /\ tick' = (IF c = Boot THEN "no" ELSE tick)

\* Mutant: yield() does not take ptable.lock.
YieldUnlocked(c) ==
    /\ Interrupted(c)
    /\ IF pc[on[c]] = "user" /\ on[c] \in killed
       THEN Goto(on[c], "exit") /\ UNCHANGED <<lock, state>>
       ELSE state' = [state EXCEPT ![on[c]] = "RUNNABLE"] /\ UNCHANGED <<lock, pc>>
    /\ UNCHANGED <<pid, parent, killed, kstack, nextpid, on, scan, tlock, ticks, child, until>>

\* trap(): a killed process exits if it was in user space, another yields.
Yield(c) ==
    /\ Interrupted(c)
    /\ IF pc[on[c]] = "user" /\ on[c] \in killed
       THEN Goto(on[c], "exit") /\ UNCHANGED <<lock, state>>
       ELSE /\ lock = NoCpu /\ lock' = c
            /\ state' = [state EXCEPT ![on[c]] = "RUNNABLE"]
            /\ UNCHANGED pc
    /\ UNCHANGED <<pid, parent, killed, kstack, nextpid, on, scan, tlock, ticks, child, until>>

\* trap() lets a process that was not killed into its system call; what may be
\* killed from now on is in the kernel.  Which call it is shows in the action
\* that takes the call's first lock.
Enter(c, p) == /\ Runs(c, p) /\ pc[p] = "user" /\ p \notin killed
               /\ Goto(p, "call")
               /\ UNCHANGED <<table, cpus, clock, child, until>>

----------------------------------------------------------------------------
(* fork() *)

\* What init.c does when its fork() fails is exit(); others may go on.
ForkError(p) == IF p = initproc THEN "exit" ELSE "user"

\* allocproc(): a free slot, under ptable.lock.
Fork(c, p) ==
    /\ Runs(c, p) /\ pc[p] = "call" /\ lock = NoCpu
    /\ nextpid <= MaxPid
    /\ LET free == {s \in Slot : state[s] = "UNUSED"}
       IN  IF free = {}
           THEN Goto(p, ForkError(p)) /\ UNCHANGED <<state, pid, nextpid, child>>
           ELSE /\ state' = [state EXCEPT ![Min(free)] = "EMBRYO"]
                /\ pid' = [pid EXCEPT ![Min(free)] = nextpid]
                /\ nextpid' = nextpid + 1
                /\ child' = [child EXCEPT ![p] = Min(free)]
                /\ Goto(p, "fork_alloc")
    /\ UNCHANGED <<parent, killed, kstack, cpus, clock, until>>

\* kalloc() or copyuvm() finds no memory: the slot is given back, without the
\* lock and with its pid.
ForkFail(c, p) ==
    /\ Runs(c, p) /\ pc[p] = "fork_alloc"
    /\ state' = [state EXCEPT ![child[p]] = "UNUSED"]
    /\ kstack' = kstack \ {child[p]}
    /\ child' = [child EXCEPT ![p] = 0]
    /\ Goto(p, ForkError(p))
    /\ UNCHANGED <<pid, parent, killed, nextpid, cpus, clock, until>>

\* The kernel stack is there and the memory copied; np->parent is set.
ForkCopy(c, p) ==
    /\ Runs(c, p) /\ pc[p] = "fork_alloc"
    /\ kstack' = kstack \union {child[p]}
    /\ parent' = [parent EXCEPT ![child[p]] = p]
    /\ Goto(p, "fork_copied")
    /\ UNCHANGED <<state, pid, killed, nextpid, cpus, clock, child, until>>

ForkReady(c, p) ==
    /\ Runs(c, p) /\ pc[p] = "fork_copied" /\ lock = NoCpu
    /\ state' = [state EXCEPT ![child[p]] = "RUNNABLE"]
    /\ pc' = [pc EXCEPT ![p] = "user", ![child[p]] = "user"]
    /\ child' = [child EXCEPT ![p] = 0]
    /\ UNCHANGED <<pid, parent, killed, kstack, nextpid, cpus, clock, until>>

----------------------------------------------------------------------------
(* exit() *)

\* A process calls exit(), or trap() does for a killed one; init.c does not
\* call it here.  Files are closed before the lock is taken.
ExitCall(c, p) ==
    /\ Runs(c, p) /\ pc[p] = "user" /\ (p = initproc => p \in killed)
    /\ Goto(p, "exit")
    /\ UNCHANGED <<table, cpus, clock, child, until>>

Children(p) == {q \in Slot : parent[q] = p}
Zombies(p)  == {q \in Children(p) : state[q] = "ZOMBIE"}

\* Mutant: children keep their parent.
ReparentedNone(p) == parent

\* Children go to init, which is woken for those that have exited.
Reparented(p) == [q \in Slot |-> IF q \in Children(p) THEN initproc ELSE parent[q]]

\* Mutant: nobody wakes init for the zombies it is given.
NotForInit(p) == WaitersWoken({parent[p]})

\* Mutant: the parent is not woken.
NotForParent(p) == WaitersWoken(IF Zombies(p) # {} THEN {initproc} ELSE {})

WokenByExit(p) ==
    WaitersWoken({parent[p]} \union (IF Zombies(p) # {} THEN {initproc} ELSE {}))

\* Mutant: exit() does not hold ptable.lock until the switch.
ExitUnlocked(c, p) ==
    /\ Runs(c, p) /\ pc[p] = "exit" /\ p # initproc /\ lock = NoCpu
    /\ state' = [Runnable(WokenByExit(p)) EXCEPT ![p] = "ZOMBIE"]
    /\ parent' = Reparented(p)
    /\ UNCHANGED <<pid, killed, kstack, nextpid, cpus, clock, pc, child, until>>

Exit(c, p) ==
    /\ Runs(c, p) /\ pc[p] = "exit" /\ p # initproc /\ lock = NoCpu
    /\ lock' = c
    /\ state' = [Runnable(WokenByExit(p)) EXCEPT ![p] = "ZOMBIE"]
    /\ parent' = Reparented(p)
    /\ UNCHANGED <<pid, killed, kstack, nextpid, on, scan, clock, pc, child, until>>

----------------------------------------------------------------------------
(* wait() *)

\* Mutant: a killed process waits on.
NothingToWaitForAlive(p) == Children(p) = {}
NothingToWaitFor(p) == Children(p) = {} \/ p \in killed

\* The body of the loop, with ptable.lock.
WaitLoop(c, p) ==
    \/ /\ Zombies(p) # {}
       /\ LET q == Min(Zombies(p))
          IN  /\ kstack' = kstack \ {q}
              /\ pid' = [pid EXCEPT ![q] = 0] /\ parent' = [parent EXCEPT ![q] = 0]
              /\ killed' = killed \ {q} /\ state' = [state EXCEPT ![q] = "UNUSED"]
              /\ pc' = [pc EXCEPT ![p] = "user", ![q] = "none"]
       /\ lock' = NoCpu
    \/ /\ Zombies(p) = {} /\ NothingToWaitFor(p)
       /\ Goto(p, "user")
       /\ lock' = NoCpu
       /\ UNCHANGED <<state, pid, parent, killed, kstack>>
    \/ /\ Zombies(p) = {} /\ ~NothingToWaitFor(p)
       /\ state' = [state EXCEPT ![p] = "SLEEPING"] /\ Goto(p, "wait_asleep")
       /\ lock' = c
       /\ UNCHANGED <<pid, parent, killed, kstack>>

Wait(c, p) == /\ Runs(c, p) /\ pc[p] = "call" /\ lock = NoCpu
              /\ WaitLoop(c, p)
              /\ UNCHANGED <<nextpid, on, scan, clock, child, until>>

WaitAgain(c, p) == /\ on[c] = p /\ state[p] = "RUNNING" /\ lock = c
                   /\ pc[p] = "wait_asleep"
                   /\ WaitLoop(c, p)
                   /\ UNCHANGED <<nextpid, on, scan, clock, child, until>>

----------------------------------------------------------------------------
(* kill() *)

\* The first slot with the pid, whatever its state: an UNUSED slot has the pid
\* 0 or that of a fork() that failed.
Kill(c, p) == \E k \in KillPid :
    /\ Runs(c, p) /\ pc[p] = "call" /\ p # initproc /\ lock = NoCpu
    /\ LET found == {q \in Slot : pid[q] = k /\ \A s \in Slot : pid[s] = k => q <= s}
       IN  /\ killed' = killed \union found
           /\ state' = Runnable({q \in found : state[q] = "SLEEPING"})
    /\ Goto(p, "user")
    /\ UNCHANGED <<pid, parent, kstack, nextpid, cpus, clock, child, until>>

----------------------------------------------------------------------------
(* sys_sleep() and the timer interrupt *)

Elapsed(p) == (ticks + UintSize - until[p].ticks0) % UintSize

SleepCall(c, p) == \E k \in 1..MaxSleep :
    /\ Runs(c, p) /\ pc[p] = "call" /\ p # initproc /\ tlock = NoCpu
    /\ tlock' = c
    /\ until' = [until EXCEPT ![p] = [ticks0 |-> ticks, n |-> k]]
    /\ Goto(p, "sleep_test")
    /\ UNCHANGED <<table, cpus, tick, ticks, child>>

SleepTest(c, p) ==
    /\ Runs(c, p) /\ pc[p] = "sleep_test"
    /\ IF Elapsed(p) < until[p].n /\ p \notin killed
       THEN Goto(p, "sleep_go") /\ UNCHANGED <<tlock, until>>
       ELSE /\ Goto(p, "user") /\ tlock' = NoCpu
            /\ until' = [until EXCEPT ![p] = [ticks0 |-> 0, n |-> 0]]
    /\ UNCHANGED <<table, cpus, tick, ticks, child>>

\* Mutant: sleep() releases its caller's lock before it takes ptable.lock.
SleepGoEarly(c, p) ==
    /\ Runs(c, p)
    /\ \/ /\ pc[p] = "sleep_go" /\ tlock' = NoCpu /\ Goto(p, "sleep_gap")
          /\ UNCHANGED <<lock, state>>
       \/ /\ pc[p] = "sleep_gap" /\ lock = NoCpu /\ lock' = c
          /\ state' = [state EXCEPT ![p] = "SLEEPING"] /\ Goto(p, "sleep_asleep")
          /\ UNCHANGED tlock
    /\ UNCHANGED <<pid, parent, killed, kstack, nextpid, on, scan, tick, ticks, child, until>>

\* sleep(&ticks, &tickslock): ptable.lock is taken before tickslock is released.
SleepGo(c, p) ==
    /\ Runs(c, p) /\ pc[p] = "sleep_go" /\ lock = NoCpu
    /\ lock' = c /\ tlock' = NoCpu
    /\ state' = [state EXCEPT ![p] = "SLEEPING"] /\ Goto(p, "sleep_asleep")
    /\ UNCHANGED <<pid, parent, killed, kstack, nextpid, on, scan, tick, ticks, child, until>>

\* acquire(lk) at the end of sleep().
SleepLock(c, p) == /\ Runs(c, p) /\ pc[p] = "sleep_lock" /\ tlock = NoCpu
                   /\ tlock' = c
                   /\ Goto(p, "sleep_test")
                   /\ UNCHANGED <<table, cpus, tick, ticks, child, until>>

\* Mutant: ticks is not an unsigned int.
TickUnwrapped == /\ tick = "no" /\ Interruptible(Boot) /\ tlock = NoCpu
                 /\ tick' = "wakeup" /\ tlock' = Boot
                 /\ ticks' = ticks + 1
                 /\ UNCHANGED <<table, cpus, pc, child, until>>

\* trap(): ticks is counted under tickslock, then its sleepers are woken.
Tick == /\ tick = "no" /\ Interruptible(Boot) /\ tlock = NoCpu
        /\ tick' = "wakeup" /\ tlock' = Boot
        /\ ticks' = (ticks + 1) % UintSize
        /\ UNCHANGED <<table, cpus, pc, child, until>>

TickWakeup == /\ tick = "wakeup" /\ lock = NoCpu
              /\ state' = Runnable(TickSleepers)
              /\ tick' = (IF on[Boot] # 0 THEN "yield" ELSE "no") /\ tlock' = NoCpu
              /\ UNCHANGED <<pid, parent, killed, kstack, nextpid, cpus, ticks, pc, child, until>>

----------------------------------------------------------------------------
Scheduling(c) == SchedLock(c) \/ Sched(c) \/ Switch(c) \/ Resume(c)
Call(c, p)    == Fork(c, p) \/ Wait(c, p) \/ Kill(c, p) \/ SleepCall(c, p)
Continue(c, p) == \/ ForkFail(c, p) \/ ForkCopy(c, p) \/ ForkReady(c, p)
                  \/ Exit(c, p) \/ WaitAgain(c, p)
                  \/ SleepTest(c, p) \/ SleepGo(c, p) \/ SleepLock(c, p)

Next == \/ \E c \in CPU : Scheduling(c) \/ Yield(c)
        \/ \E c \in CPU, p \in Slot : Enter(c, p) \/ ExitCall(c, p) \/ Call(c, p) \/ Continue(c, p)
        \/ Tick \/ TickWakeup

Spec == Init /\ [][Next]_vars

Run(c) == Scheduling(c) \/ Yield(c)
Clock  == Tick \/ TickWakeup
GetOn(p) == \E c \in CPU : IF p = initproc
                          THEN Enter(c, p) \/ Wait(c, p) \/ Continue(c, p)
                          ELSE Call(c, p) \/ Continue(c, p)

\* A CPU schedules, and its timer interrupts whom it runs; a thread that runs
\* again and again gets on with its system call; init.c, which forks no more
\* than MaxPid allows, calls wait() again and again.
FairSpec == /\ Spec
            /\ SF_vars(Run(Boot)) /\ \A c \in CPU \ {Boot} : WF_vars(Run(c))
            /\ SF_vars(Clock)
            /\ \A p \in Slot : SF_vars(GetOn(p))

----------------------------------------------------------------------------
(* Properties *)

Place == {"none", "user", "call", "exit", "fork_alloc", "fork_copied", "wait_asleep",
          "sleep_test", "sleep_go", "sleep_asleep", "sleep_lock"}

\* Every variable has its type.
TypeOK ==
    /\ state \in [Slot -> {"UNUSED", "EMBRYO", "SLEEPING", "RUNNABLE", "RUNNING", "ZOMBIE"}]
    /\ pid \in [Slot -> 0..MaxPid] /\ nextpid \in 2..(MaxPid + 1)
    /\ parent \in [Slot -> 0..NPROC] /\ child \in [Slot -> 0..NPROC]
    /\ killed \subseteq Slot /\ kstack \subseteq Slot
    /\ on \in [CPU -> 0..NPROC] /\ scan \in [CPU -> 0..NPROC]
    /\ lock \in CPU \union {NoCpu} /\ tlock \in CPU \union {NoCpu}
    /\ tick \in {"no", "wakeup", "yield"} /\ ticks \in 0..(UintSize - 1)
    /\ pc \in [Slot -> Place]
    /\ until \in [Slot -> [ticks0 : 0..(UintSize - 1), n : 0..MaxSleep]]

\* sched(): a process gives ptable.lock up only after it has left its stack, so
\* no CPU resumes it while another still runs on that stack.
OneCpuPerStack == \A c, d \in CPU : on[c] = on[d] => c = d \/ on[c] = 0

\* wait(): a kernel stack is freed only when its process has left it for good.
StackLive == \A c \in CPU : on[c] # 0 => on[c] \in kstack

\* wait(): who sleeps there has children, none of them a zombie, and was not
\* killed; exit(), kill() and the adoption by init wake it otherwise.
WaitersHaveCause ==
    \A p \in Slot : state[p] = "SLEEPING" /\ pc[p] = "wait_asleep"
                    => /\ p \notin killed
                       /\ Children(p) # {} /\ Zombies(p) = {}

\* sleep(), "we won't miss any wakeup" (proc.c:427): who sleeps on the clock
\* still has to, unless the interrupt is about to wake it.
NoMissedTick == \A p \in TickSleepers : Elapsed(p) < until[p].n \/ tick = "wakeup"

\* fork(), exit() and wait() keep the tree that ProcessTree promises.
Exists(p) == state[p] \notin {"UNUSED", "EMBRYO"}
SlotOf(k) == CHOOSE p \in Slot : Exists(p) /\ pid[p] = k
Tree == INSTANCE ProcessTree WITH
    Pid <- 1..MaxPid, InitPid <- 1,
    live <- {pid[p] : p \in {q \in Slot : Exists(q) /\ state[q] # "ZOMBIE"}},
    exited <- {pid[p] : p \in {q \in Slot : state[q] = "ZOMBIE"}},
    parent <- [k \in {pid[p] : p \in {q \in Slot : Exists(q)}} |->
                   IF k = 1 THEN 1 ELSE pid[parent[SlotOf(k)]]]
ImplementsProcessTree == Tree!Spec

\* kill() and trap(): a process that was killed exits.
Running(k) == {p \in Slot : Exists(p) /\ state[p] # "ZOMBIE" /\ pid[p] = k}
KilledExits ==
    \A k \in KillPid : Running(k) \intersect killed # {} ~> Running(k) = {} \/ Panicked

\* exit() and init: an orphan that has exited is waited for.
Orphans(k) == {p \in Slot : state[p] = "ZOMBIE" /\ pid[p] = k /\ parent[p] = initproc}
OrphansReaped ==
    \A k \in 2..MaxPid : Orphans(k) # {} ~> Orphans(k) = {} \/ Panicked

\* kill(), "Kill the process with the given pid" (proc.c:472): a process that
\* allocproc() has just made has not been killed.
NewbornNotKilled ==
    [][\A p \in Slot : state[p] = "UNUSED" /\ state'[p] = "EMBRYO" => p \notin killed']_vars
=============================================================================
