-------------------------------- MODULE Log --------------------------------
(***************************************************************************)
(* The xv6 write-ahead log (p2/xv6/log.c) with as much of the buffer cache *)
(* (bio.c) and of the disk (ide.c) as its correctness depends on: which    *)
(* blocks are cached, which are pinned by B_DIRTY, who holds a buffer, and *)
(* what is on the disk after each single-block write.                      *)
(*                                                                         *)
(* One action is one critical section of log.lock, or one block read or    *)
(* written, so that a crash can come between any two of them and the       *)
(* unlocked test at the head of log_write() can race with other writers.   *)
(***************************************************************************)
EXTENDS Integers, Sequences, FiniteSets

CONSTANTS Proc,         \* processes that make file-system calls
          Block,        \* home blocks of the file system
          Value,        \* contents a block can have
          Zero,         \* the contents mkfs gives the blocks of the log
          MAXOPBLOCKS,  \* blocks begin_op() reserves for a call
          LOGSIZE,      \* length of logheader.block[]
          NLOG,         \* sb.nlog: the log's blocks on disk, header included
          OpMax,        \* distinct blocks a call really writes
          NotCached,    \* "no buffer holds this block"
          NoProc        \* "nobody holds this buffer's sleeplock"

ASSUME ProcAssumption == IsFiniteSet(Proc) /\ NoProc \notin Proc
ASSUME ValueAssumption == Zero \in Value /\ NotCached \notin Value
ASSUME SizeAssumption == /\ MAXOPBLOCKS \in Nat /\ LOGSIZE \in Nat
                         /\ NLOG \in Nat /\ OpMax \in Nat
                         /\ MAXOPBLOCKS <= LOGSIZE

VARIABLES outstanding,  \* log.outstanding
          committing,   \* log.committing
          lh,           \* log.lh.block[0 .. log.lh.n - 1], as a sequence
          cache,        \* block -> its buffer's data, or NotCached
          dirty,        \* the cached blocks with B_DIRTY set
          holder,       \* block -> the process holding its buffer's sleeplock
          disk,         \* block -> contents at its home location
          dlog,         \* log block -> contents (disk blocks log.start+1 ..)
          dhead,        \* the header block on disk
          boot,         \* where initlog() is; "up" once it has returned
          btail,        \* tail of the install_trans() run by recovery
          pc,           \* process -> where it is in begin_op .. end_op
          wrote,        \* process -> blocks its current call has logged
          tail,         \* process -> tail of write_log() / install_trans()
          panic         \* the message of the panic that stopped the kernel

logVars  == <<outstanding, committing, lh>>
bufVars  == <<cache, dirty, holder>>
diskVars == <<disk, dlog, dhead>>
bootVars == <<boot, btail>>
procVars == <<pc, wrote, tail>>
vars == <<logVars, bufVars, diskVars, bootVars, procVars, panic>>

Running == boot = "up" /\ panic = "none"

InOpPC == {"op", "bread", "modified", "append", "release"}
CommitPC == {"commit", "write_log", "install", "clear_head", "done"}

\* Processes between a successful begin_op() and their end_op().
Active == {p \in Proc : pc[p] \in InOpPC}
Committers == {p \in Proc : pc[p] \in CommitPC}
Sleepers == {p \in Proc : pc[p] = "sleeping"}

Logged == {lh[i] : i \in DOMAIN lh}

\* What bread() returns: the cached copy, or else what the disk has.
Contents(b) == IF cache[b] = NotCached THEN disk[b] ELSE cache[b]

Goto(p, label) == pc' = [pc EXCEPT ![p] = label]

----------------------------------------------------------------------------
(* Powering on and off. *)

ColdStart == /\ outstanding = 0 /\ committing = FALSE /\ lh = <<>>
             /\ cache = [b \in Block |-> NotCached]
             /\ dirty = {}
             /\ holder = [b \in Block |-> NoProc]
             /\ boot = "read_head" /\ btail = 1
             /\ pc = [p \in Proc |-> "idle"]
             /\ wrote = [p \in Proc |-> {}]
             /\ tail = [p \in Proc |-> 1]
             /\ panic = "none"

\* A disk made by mkfs: an empty log, any file system.
Init == /\ ColdStart
        /\ disk \in [Block -> Value]
        /\ dlog = [i \in 1..(NLOG - 1) |-> Zero]
        /\ dhead = <<>>

\* The machine stops and restarts at any moment, in recovery as well.  Only
\* what is on the disk survives.
Crash == /\ outstanding' = 0 /\ committing' = FALSE /\ lh' = <<>>
         /\ cache' = [b \in Block |-> NotCached]
         /\ dirty' = {}
         /\ holder' = [b \in Block |-> NoProc]
         /\ boot' = "read_head" /\ btail' = 1
         /\ pc' = [p \in Proc |-> "idle"]
         /\ wrote' = [p \in Proc |-> {}]
         /\ tail' = [p \in Proc |-> 1]
         /\ panic' = "none"
         /\ UNCHANGED diskVars

----------------------------------------------------------------------------
(* install_trans() and write_head(), shared by commit() and recovery. *)

\* Mutant: the log block is copied into the cache but not to its home.
InstallCacheOnly(t) == /\ cache' = [cache EXCEPT ![lh[t]] = dlog[t]]
                       /\ dirty' = dirty \ {lh[t]}
                       /\ UNCHANGED diskVars

\* One iteration of install_trans(): log block t goes to its home location.
InstallBlock(t) == /\ disk' = [disk EXCEPT ![lh[t]] = dlog[t]]
                   /\ cache' = [cache EXCEPT ![lh[t]] = dlog[t]]
                   /\ dirty' = dirty \ {lh[t]}
                   /\ UNCHANGED <<dlog, dhead>>

\* A header is one block, so it reaches the disk whole or not at all.
WriteHead == /\ dhead' = lh
             /\ UNCHANGED <<disk, dlog>>

(* recover_from_log(), run by the first process before any other exists. *)

ReadHead == /\ boot = "read_head" /\ panic = "none"
            /\ lh' = dhead
            /\ boot' = "install" /\ btail' = 1
            /\ UNCHANGED <<outstanding, committing, bufVars, diskVars, procVars, panic>>

RecoverInstall == /\ boot = "install" /\ btail <= Len(lh)
                  /\ InstallBlock(btail)
                  /\ btail' = btail + 1
                  /\ UNCHANGED <<logVars, holder, boot, procVars, panic>>

RecoverReset == /\ boot = "install" /\ btail > Len(lh)
                /\ lh' = <<>>
                /\ boot' = "clear_head"
                /\ UNCHANGED <<outstanding, committing, bufVars, diskVars, btail,
                               procVars, panic>>

RecoverClear == /\ boot = "clear_head"
                /\ WriteHead
                /\ boot' = "up"
                /\ UNCHANGED <<logVars, bufVars, btail, procVars, panic>>

Recover == ReadHead \/ RecoverInstall \/ RecoverReset \/ RecoverClear

----------------------------------------------------------------------------
(* The buffer cache on behalf of everybody else. *)

\* A reader outside any call reads b and releases it.
Lookup(b) == /\ Running
             /\ holder[b] = NoProc
             /\ cache' = [cache EXCEPT ![b] = Contents(b)]
             /\ UNCHANGED <<logVars, dirty, holder, diskVars, bootVars, procVars, panic>>

\* Mutant: bget() recycles a buffer although B_DIRTY is set.
EvictPinned(b) == /\ Running
                  /\ cache[b] # NotCached /\ holder[b] = NoProc
                  /\ cache' = [cache EXCEPT ![b] = NotCached]
                  /\ UNCHANGED <<logVars, dirty, holder, diskVars, bootVars, procVars,
                                 panic>>

\* bget() recycles a buffer that nobody uses and the log has not pinned.
Evict(b) == /\ Running
            /\ cache[b] # NotCached /\ holder[b] = NoProc /\ b \notin dirty
            /\ cache' = [cache EXCEPT ![b] = NotCached]
            /\ UNCHANGED <<logVars, dirty, holder, diskVars, bootVars, procVars, panic>>

----------------------------------------------------------------------------
(* begin_op() *)

\* Mutant: a call may begin during a commit.
MustWaitOpen == Len(lh) + (outstanding + 1) * MAXOPBLOCKS > LOGSIZE

\* Mutant: the call that asks is left out of the reservation.
MustWaitOthers == \/ committing
                  \/ Len(lh) + outstanding * MAXOPBLOCKS > LOGSIZE

\* The reservation: this call, and each one in progress, may fill
\* MAXOPBLOCKS more entries of the header.
MustWait == \/ committing
            \/ Len(lh) + (outstanding + 1) * MAXOPBLOCKS > LOGSIZE

\* Mutant: the call enters without being counted.
AdmitUncounted(p) == /\ ~MustWait
                     /\ Goto(p, "op")
                     /\ UNCHANGED <<logVars, bufVars, diskVars, bootVars, wrote, tail, panic>>

Admit(p) == /\ ~MustWait
            /\ outstanding' = outstanding + 1
            /\ Goto(p, "op")
            /\ UNCHANGED <<committing, lh, bufVars, diskVars, bootVars, wrote, tail, panic>>

\* sleep(&log, &log.lock) gives the lock up and sleeps in one step.
Wait(p) == /\ MustWait
           /\ Goto(p, "sleeping")
           /\ UNCHANGED <<logVars, bufVars, diskVars, bootVars, wrote, tail, panic>>

BeginOp(p) == /\ Running /\ pc[p] = "idle"
              /\ Admit(p) \/ Wait(p)

\* A woken process goes round the loop and tests again.
Recheck(p) == /\ Running /\ pc[p] = "awake"
              /\ Admit(p) \/ Wait(p)

\* wakeup(&log), called by q, which goes to label.
WakeupLog(q, label) ==
    pc' = [p \in Proc |-> IF p = q THEN label
                          ELSE IF p \in Sleepers THEN "awake" ELSE pc[p]]

----------------------------------------------------------------------------
(* A write inside a call: bread, modify, log_write, brelse. *)

Bread(p, b) == /\ Running /\ pc[p] = "op"
               /\ holder[b] = NoProc
               /\ holder' = [holder EXCEPT ![b] = p]
               /\ cache' = [cache EXCEPT ![b] = Contents(b)]
               /\ Goto(p, "bread")
               /\ UNCHANGED <<logVars, dirty, diskVars, bootVars, wrote, tail, panic>>

\* The caller changes b->data.  OpMax is the most blocks a call writes.
Modify(p, b, v) == /\ Running /\ pc[p] = "bread" /\ holder[b] = p
                   /\ Cardinality(wrote[p] \union {b}) <= OpMax
                   /\ cache' = [cache EXCEPT ![b] = v]
                   /\ Goto(p, "modified")
                   /\ UNCHANGED <<logVars, dirty, holder, diskVars, bootVars, wrote, tail,
                                  panic>>

TooBig == Len(lh) >= LOGSIZE \/ Len(lh) >= NLOG - 1

\* log_write() tests log.lh.n and log.outstanding without the lock.
LogWriteCheck(p) ==
    /\ Running /\ pc[p] = "modified"
    /\ IF TooBig
       THEN panic' = "too big a transaction" /\ UNCHANGED pc
       ELSE IF outstanding < 1
            THEN panic' = "log_write outside of trans" /\ UNCHANGED pc
            ELSE Goto(p, "append") /\ UNCHANGED panic
    /\ UNCHANGED <<logVars, bufVars, diskVars, bootVars, wrote, tail>>

\* The locked part: absorb the block or append it, and pin its buffer.
LogWrite(p, b) ==
    /\ Running /\ pc[p] = "append" /\ holder[b] = p
    /\ lh' = IF b \in Logged THEN lh ELSE Append(lh, b)
    /\ dirty' = dirty \union {b}
    /\ wrote' = [wrote EXCEPT ![p] = @ \union {b}]
    /\ Goto(p, "release")
    /\ UNCHANGED <<outstanding, committing, cache, holder, diskVars, bootVars,
                   tail, panic>>

\* brelse(), after a write or after a block was only read.
Brelse(p, b) == /\ Running /\ pc[p] \in {"bread", "release"} /\ holder[b] = p
             /\ holder' = [holder EXCEPT ![b] = NoProc]
             /\ Goto(p, "op")
             /\ UNCHANGED <<logVars, cache, dirty, diskVars, bootVars, wrote, tail,
                            panic>>

----------------------------------------------------------------------------
(* end_op() and commit() *)

EndOp(p) ==
    /\ Running /\ pc[p] = "op"
    /\ outstanding' = outstanding - 1
    /\ IF committing
       THEN panic' = "log.committing" /\ UNCHANGED <<committing, pc>>
       ELSE /\ UNCHANGED panic
            /\ IF outstanding = 1
               THEN committing' = TRUE /\ Goto(p, "commit")
               ELSE WakeupLog(p, "idle") /\ UNCHANGED committing
    /\ wrote' = [wrote EXCEPT ![p] = {}]
    /\ UNCHANGED <<lh, bufVars, diskVars, bootVars, tail>>

\* commit() does nothing when the calls wrote nothing.
StartCommit(p) == /\ Running /\ pc[p] = "commit"
                  /\ Goto(p, IF lh = <<>> THEN "done" ELSE "write_log")
                  /\ tail' = [tail EXCEPT ![p] = 1]
                  /\ UNCHANGED <<logVars, bufVars, diskVars, bootVars, wrote, panic>>

\* One iteration of write_log(): a cached block goes to its log block.
WriteLogBlock(p) ==
    /\ Running /\ pc[p] = "write_log" /\ tail[p] <= Len(lh)
    /\ LET b == lh[tail[p]]
       IN /\ holder[b] = NoProc
          /\ dlog' = [dlog EXCEPT ![tail[p]] = Contents(b)]
          /\ cache' = [cache EXCEPT ![b] = Contents(b)]
    /\ tail' = [tail EXCEPT ![p] = @ + 1]
    /\ UNCHANGED <<logVars, dirty, holder, disk, dhead, bootVars, pc, wrote, panic>>

\* Mutant: the blocks are installed without a committed header.
CommitPointSkipped(p) == /\ Running /\ pc[p] = "write_log" /\ tail[p] > Len(lh)
                         /\ Goto(p, "install")
                         /\ tail' = [tail EXCEPT ![p] = 1]
                         /\ UNCHANGED <<logVars, bufVars, diskVars, bootVars, wrote, panic>>

\* "The true point at which the current transaction commits."
CommitPoint(p) == /\ Running /\ pc[p] = "write_log" /\ tail[p] > Len(lh)
                  /\ WriteHead
                  /\ Goto(p, "install")
                  /\ tail' = [tail EXCEPT ![p] = 1]
                  /\ UNCHANGED <<logVars, bufVars, bootVars, wrote, panic>>

CommitInstall(p) == /\ Running /\ pc[p] = "install" /\ tail[p] <= Len(lh)
                    /\ holder[lh[tail[p]]] = NoProc
                    /\ InstallBlock(tail[p])
                    /\ tail' = [tail EXCEPT ![p] = @ + 1]
                    /\ UNCHANGED <<logVars, holder, bootVars, pc, wrote, panic>>

CommitReset(p) == /\ Running /\ pc[p] = "install" /\ tail[p] > Len(lh)
                  /\ lh' = <<>>
                  /\ Goto(p, "clear_head")
                  /\ UNCHANGED <<outstanding, committing, bufVars, diskVars, bootVars,
                                 wrote, tail, panic>>

CommitClear(p) == /\ Running /\ pc[p] = "clear_head"
                  /\ WriteHead
                  /\ Goto(p, "done")
                  /\ UNCHANGED <<logVars, bufVars, bootVars, wrote, tail, panic>>

Commit(p) == \/ StartCommit(p) \/ WriteLogBlock(p) \/ CommitPoint(p)
             \/ CommitInstall(p) \/ CommitReset(p)
             \/ CommitClear(p)

\* Mutant: the log reopens without waking those who wait for it.
EndCommitSilent(p) == /\ Running /\ pc[p] = "done"
                      /\ committing' = FALSE
                      /\ Goto(p, "idle")
                      /\ tail' = [tail EXCEPT ![p] = 1]
                      /\ UNCHANGED <<outstanding, lh, bufVars, diskVars, bootVars, wrote,
                                     panic>>

\* Mutant: committing is never cleared.
EndCommitClosed(p) == /\ Running /\ pc[p] = "done"
                      /\ WakeupLog(p, "idle")
                      /\ tail' = [tail EXCEPT ![p] = 1]
                      /\ UNCHANGED <<logVars, bufVars, diskVars, bootVars, wrote, panic>>

\* The tail of end_op(): let the waiting calls in.
EndCommit(p) == /\ Running /\ pc[p] = "done"
                /\ committing' = FALSE
                /\ WakeupLog(p, "idle")
                /\ tail' = [tail EXCEPT ![p] = 1]
                /\ UNCHANGED <<outstanding, lh, bufVars, diskVars, bootVars, wrote, panic>>

----------------------------------------------------------------------------
\* What a process inside the log code does next, whoever else runs.
Step(p) == \/ Recheck(p)
           \/ \E b \in Block : \/ \E v \in Value : Modify(p, b, v)
                              \/ LogWrite(p, b) \/ Brelse(p, b)
           \/ LogWriteCheck(p)
           \/ Commit(p) \/ EndCommit(p)

Next == \/ Crash
        \/ Recover
        \/ \E b \in Block : Lookup(b) \/ Evict(b)
        \/ \E p \in Proc : \/ BeginOp(p) \/ EndOp(p) \/ Step(p)
                           \/ \E b \in Block : Bread(p, b)

Spec == Init /\ [][Next]_vars

\* A process that can run does run (the scheduler is round-robin), recovery
\* runs, and a system call ends: it writes a bounded number of blocks, so it
\* cannot keep coming back to "op" without leaving.
Fairness == /\ WF_vars(Recover)
            /\ \A p \in Proc : WF_vars(Step(p)) /\ SF_vars(EndOp(p))

FairSpec == Spec /\ Fairness
----------------------------------------------------------------------------
(* Properties *)

TypeOK ==
    /\ outstanding \in Nat /\ committing \in BOOLEAN
    /\ lh \in Seq(Block)
    /\ cache \in [Block -> Value \union {NotCached}]
    /\ dirty \subseteq Block
    /\ holder \in [Block -> Proc \union {NoProc}]
    /\ disk \in [Block -> Value]
    /\ dlog \in [1..(NLOG - 1) -> Value]
    /\ dhead \in Seq(Block)
    /\ boot \in {"read_head", "install", "clear_head", "up"} /\ btail \in Nat \ {0}
    /\ pc \in [Proc -> InOpPC \union CommitPC \union {"idle", "sleeping", "awake"}]
    /\ wrote \in [Proc -> SUBSET Block]
    /\ tail \in [Proc -> Nat \ {0}]
    /\ panic \in {"none", "too big a transaction", "log_write outside of trans",
                  "log.committing"}

\* The reservation of begin_op() is enough: whatever calls run together, none
\* of the three panics of log.c (lines 153, 219, 221) is ever reached, though
\* log_write() tests the length of the log without holding the lock.
NoPanic == panic = "none"

\* At rest everything is durable: once the last call of a group has returned
\* from end_op(), each block's home location has what readers see, and the
\* header on disk is empty (log.c:143, "commits if this was the last").
QuiescentDurable ==
    Running /\ outstanding = 0 /\ ~committing =>
        dhead = <<>> /\ \A b \in Block : Contents(b) = disk[b]

\* No wakeup is lost: a process asleep in begin_op() is asleep only while a
\* call or a commit is under way that will wake it (log.c:129-133, 158-161, 171).
NoForgottenSleeper == Sleepers # {} => outstanding > 0 \/ committing

\* Nobody is inside a call while a commit copies and installs the group's
\* blocks, and there is one committer (log.c:130, 154-156).
CommitAlone == Committers # {} =>
                   /\ committing /\ Active = {}
                   /\ Cardinality(Committers) = 1

\* Write-ahead: a home location changes only while a header on disk commits
\* the group that changes it, and the log's blocks change only while no header
\* on disk refers to them (log.c:196-200).
WriteAhead == [][/\ disk' # disk => dhead # <<>>
                 /\ dlog' # dlog => dhead = <<>>]_vars

\* Contents after a crash now and a complete recovery.
Durable == [b \in Block |->
               IF \E i \in DOMAIN dhead : dhead[i] = b
               THEN dlog[CHOOSE i \in DOMAIN dhead : dhead[i] = b]
               ELSE disk[b]]

\* What readers see; nobody reads during recovery.
Visible == [b \in Block |-> IF boot = "up" THEN Contents(b) ELSE Durable[b]]

Abstract == INSTANCE AtomicDisk WITH mem <- Visible, durable <- Durable, active <- Active

\* The log implements AtomicDisk: calls commit in groups, all or nothing,
\* through any crash, a crash during commit or recovery included.
ImplementsAtomicDisk == Abstract!Spec

\* A process that waits in begin_op() is woken, and a commit ends.
SleeperWoken == \A p \in Proc : pc[p] = "sleeping" ~> pc[p] # "sleeping"

\* Recovery ends if the machine stays up, and so does every commit, so that the
\* log never stays closed to new calls (log.c:130, 170).
StaysOpen == <>[][~Crash]_vars => []<>(boot = "up" /\ ~committing)
----------------------------------------------------------------------------
(* The inductive invariant behind NoPanic, NoForgottenSleeper and CommitAlone. *)

\* A call writes fewer blocks than begin_op() reserves for it, by more than
\* what the log on disk lacks: without this log_write() can panic.
OpFits == /\ OpMax < MAXOPBLOCKS
          /\ LOGSIZE - MAXOPBLOCKS + OpMax < NLOG - 1

\* The header entries that calls in progress may still fill.
Unused == {u \in Active \X (1..MAXOPBLOCKS) : u[2] > Cardinality(wrote[u[1]])}

CountInv == outstanding = Cardinality(Active)

BootInv == boot # "up" => ~committing /\ \A p \in Proc : pc[p] = "idle"

CommitInv == /\ Committers # {} => committing
             /\ \A p, q \in Committers : p = q
             /\ committing => Active = {}

\* A process holds at most one buffer, and only while it works on it.
HoldInv == /\ \A b \in Block : holder[b] # NoProc =>
                  pc[holder[b]] \in {"bread", "modified", "append", "release"}
           /\ \A b, c \in Block : holder[b] = holder[c] /\ holder[b] # NoProc => b = c

WroteInv == \A p \in Proc :
                /\ p \notin Active => wrote[p] = {}
                /\ wrote[p] \subseteq Logged
                /\ IsFiniteSet(wrote[p]) /\ Cardinality(wrote[p]) <= OpMax
                /\ \A b \in Block : holder[b] = p /\ pc[p] \in {"modified", "append"} =>
                       Cardinality(wrote[p] \union {b}) <= OpMax

SpaceInv == /\ Len(lh) + Cardinality(Unused) <= LOGSIZE
            /\ Len(lh) <= NLOG - 1
            /\ Len(dhead) <= LOGSIZE /\ Len(dhead) <= NLOG - 1

EmptyInv == /\ boot = "up" /\ outstanding = 0 /\ ~committing => lh = <<>>
            /\ boot = "clear_head" => lh = <<>>
            /\ \A p \in Proc : pc[p] \in {"clear_head", "done"} => lh = <<>>

IInv == /\ TypeOK /\ NoPanic /\ NoForgottenSleeper
        /\ CountInv /\ BootInv /\ CommitInv /\ HoldInv /\ WroteInv /\ SpaceInv /\ EmptyInv
=============================================================================
