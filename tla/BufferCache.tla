----------------------------- MODULE BufferCache -----------------------------
(***************************************************************************)
(* The buffer cache of p2/xv6: bio.c with its list of buffers, the sleep   *)
(* locks of the buffers (sleeplock.c) and the disk driver with its queue   *)
(* and its interrupt (ide.c).                                              *)
(*                                                                         *)
(* One action is one critical section of bcache.lock, of a sleep lock's    *)
(* lk or of idelock.                                                       *)
(***************************************************************************)
EXTENDS Naturals, Sequences, FiniteSets

CONSTANTS Proc,     \* processes
          NoProc,   \* nobody
          NBUF,     \* buffers
          Block,    \* block numbers
          NoBlock,  \* what a buffer that was never used is for
          Value,    \* contents of a block
          Zero,     \* the contents of memory that was never written
          MaxHeld,  \* bound: buffers that a process has at a time
          MaxPin    \* bound: buffers that the log keeps in the cache

ASSUME BufAssumption == NBUF \in Nat /\ Zero \in Value
ASSUME ProcAssumption == IsFiniteSet(Proc) /\ NoProc \notin Proc
ASSUME BlockAssumption == NoBlock \notin Block
ASSUME BoundAssumption == MaxHeld \in Nat /\ MaxPin \in Nat

Buf   == 1..NBUF
NoBuf == 0

VARIABLES lru,      \* the list of buffers, most recently used first
          blockno,  \* buffer -> b->blockno
          valid,    \* the buffers with B_VALID
          dirty,    \* the buffers with B_DIRTY
          refcnt,   \* buffer -> b->refcnt
          data,     \* buffer -> b->data
          holder,   \* buffer -> who holds b->lock
          queue,    \* idequeue
          disk,     \* block -> contents
          pc,       \* process -> where it is in bget(), iderw() or brelse()
          cur,      \* process -> the buffer it works on there
          held,     \* process -> the buffers that bread() has given it
          panic     \* the message of the panic that stopped the kernel

bufs  == <<lru, blockno, valid, dirty, refcnt, data>>
procs == <<pc, cur, held>>
vars  == <<bufs, holder, queue, disk, procs, panic>>

Runs(p, label) == panic = "none" /\ pc[p] = label

\* p goes to a label, working on b.
Goto(p, label, b) == pc' = [pc EXCEPT ![p] = label] /\ cur' = [cur EXCEPT ![p] = b]

\* wakeup() of the processes that sleep at a label for b.
Wakeup(label, b, woken) ==
    pc' = [p \in Proc |-> IF pc[p] = label /\ cur[p] = b THEN woken ELSE pc[p]]

----------------------------------------------------------------------------
(* bget() *)

\* The nearest to the head, or to the tail, of the buffers in S.
First(S) == lru[CHOOSE i \in Buf : lru[i] \in S /\ \A j \in Buf : lru[j] \in S => i <= j]
Last(S)  == lru[CHOOSE i \in Buf : lru[i] \in S /\ \A j \in Buf : lru[j] \in S => j <= i]

Cached(n) == {b \in Buf : blockno[b] = n}

\* Mutant: a buffer that the log has pinned is recycled.
UnusedPinned == {b \in Buf : refcnt[b] = 0}

Unused == {b \in Buf : refcnt[b] = 0 /\ b \notin dirty}

Hit(p, n) == LET b == First(Cached(n))
             IN  /\ Cached(n) # {}
                 /\ refcnt' = [refcnt EXCEPT ![b] = @ + 1]
                 /\ Goto(p, "lock", b)
                 /\ UNCHANGED <<lru, blockno, valid, dirty, data, panic>>

\* Mutant: the first user of a recycled buffer is not counted.
RecycleUncounted(p, n) == LET b == Last(Unused)
                          IN  /\ Cached(n) = {} /\ Unused # {}
                              /\ blockno' = [blockno EXCEPT ![b] = n]
                              /\ valid' = valid \ {b}
                              /\ Goto(p, "lock", b)
                              /\ UNCHANGED <<lru, dirty, refcnt, data, panic>>

Recycle(p, n) == LET b == Last(Unused)
                 IN  /\ Cached(n) = {} /\ Unused # {}
                     /\ blockno' = [blockno EXCEPT ![b] = n]
                     /\ valid' = valid \ {b} /\ dirty' = dirty \ {b}
                     /\ refcnt' = [refcnt EXCEPT ![b] = 1]
                     /\ Goto(p, "lock", b)
                     /\ UNCHANGED <<lru, data, panic>>

NoBuffers(n) == /\ Cached(n) = {} /\ Unused = {}
                /\ panic' = "bget: no buffers"
                /\ UNCHANGED <<bufs, pc, cur>>

\* bread() of n.  No caller reads a block that it has.
Bget(p, n) == /\ Runs(p, "run")
              /\ Cardinality(held[p]) < MaxHeld
              /\ \A b \in held[p] : blockno[b] # n
              /\ Hit(p, n) \/ Recycle(p, n) \/ NoBuffers(n)
              /\ UNCHANGED <<holder, queue, disk, held>>

\* acquiresleep(), and bread()'s test of B_VALID.
Lock(p) == LET b == cur[p]
           IN  /\ Runs(p, "lock")
               /\ \/ /\ holder[b] # NoProc
                     /\ Goto(p, "lock_sleep", b)
                     /\ UNCHANGED <<holder, held>>
                  \/ /\ holder[b] = NoProc
                     /\ holder' = [holder EXCEPT ![b] = p]
                     /\ IF b \in valid
                        THEN Goto(p, "run", NoBuf) /\ held' = [held EXCEPT ![p] = @ \union {b}]
                        ELSE Goto(p, "iderw", b) /\ UNCHANGED held
               /\ UNCHANGED <<bufs, queue, disk, panic>>

----------------------------------------------------------------------------
(* iderw() and ideintr() *)

Iderw(p) == LET b == cur[p]
            IN  /\ Runs(p, "iderw")
                /\ \/ /\ b \in valid \ dirty
                      /\ panic' = "iderw: nothing to do"
                      /\ UNCHANGED <<queue, pc, cur>>
                   \/ /\ b \notin valid \ dirty
                      /\ queue' = Append(queue, b)
                      /\ Goto(p, "disk_sleep", b)
                      /\ UNCHANGED panic
                /\ UNCHANGED <<bufs, holder, disk, held>>

\* The first request in the queue is the active one.
Active == Head(queue)

Ideintr == LET b == Active
           IN  /\ panic = "none" /\ queue # <<>>
               /\ IF b \in dirty
                  THEN disk' = [disk EXCEPT ![blockno[b]] = data[b]] /\ UNCHANGED data
                  ELSE data' = [data EXCEPT ![b] = disk[blockno[b]]] /\ UNCHANGED disk
               /\ valid' = valid \union {b} /\ dirty' = dirty \ {b}
               /\ queue' = Tail(queue)
               /\ Wakeup("disk_sleep", b, "disk_awake")
               /\ UNCHANGED <<lru, blockno, refcnt, holder, cur, held, panic>>

\* Mutant: a woken process takes its request for done.
DiskAwakeOnce(p) == LET b == cur[p]
                    IN  /\ Runs(p, "disk_awake")
                        /\ Goto(p, "run", NoBuf) /\ held' = [held EXCEPT ![p] = @ \union {b}]
                        /\ UNCHANGED <<bufs, holder, queue, disk, panic>>

\* A woken process tests again whether its request is done: it may be awake
\* because it was killed.
DiskAwake(p) == LET b == cur[p]
                IN  /\ Runs(p, "disk_awake")
                    /\ IF b \in valid \ dirty
                       THEN Goto(p, "run", NoBuf) /\ held' = [held EXCEPT ![p] = @ \union {b}]
                       ELSE Goto(p, "disk_sleep", b) /\ UNCHANGED held
                    /\ UNCHANGED <<bufs, holder, queue, disk, panic>>

\* kill() makes a sleeping process runnable, whatever it sleeps for.
Kill(p) == /\ panic = "none"
           /\ \/ pc[p] = "lock_sleep" /\ pc' = [pc EXCEPT ![p] = "lock"]
              \/ pc[p] = "disk_sleep" /\ pc' = [pc EXCEPT ![p] = "disk_awake"]
           /\ UNCHANGED <<bufs, holder, queue, disk, cur, held, panic>>

----------------------------------------------------------------------------
(* What a process does with a buffer that it has *)

\* It changes the block and calls log_write(), which pins the buffer.
LogWrite(p, b, v) == /\ Runs(p, "run") /\ b \in held[p]
                     /\ Cardinality(dirty \union {b}) <= MaxPin
                     /\ data' = [data EXCEPT ![b] = v]
                     /\ dirty' = dirty \union {b}
                     /\ UNCHANGED <<lru, blockno, valid, refcnt, holder, queue, disk, procs,
                                    panic>>

\* The log changes the block and calls bwrite().
Bwrite(p, b, v) == /\ Runs(p, "run") /\ b \in held[p]
                   /\ data' = [data EXCEPT ![b] = v]
                   /\ dirty' = dirty \union {b}
                   /\ held' = [held EXCEPT ![p] = @ \ {b}]
                   /\ Goto(p, "iderw", b)
                   /\ UNCHANGED <<lru, blockno, valid, refcnt, holder, queue, disk, panic>>

\* brelse(): the lock is released first, the reference later.
Releasesleep(p, b) == /\ Runs(p, "run") /\ b \in held[p]
                      /\ holder' = [holder EXCEPT ![b] = NoProc]
                      /\ held' = [held EXCEPT ![p] = @ \ {b}]
                      /\ cur' = [cur EXCEPT ![p] = b]
                      /\ pc' = [q \in Proc |-> IF q = p THEN "brelse"
                                               ELSE IF pc[q] = "lock_sleep" /\ cur[q] = b
                                               THEN "lock" ELSE pc[q]]
                      /\ UNCHANGED <<bufs, queue, disk, panic>>

\* Mutant: only the last user is counted off.
BrelseLast(p) == LET b == cur[p]
                 IN  /\ Runs(p, "brelse")
                     /\ refcnt' = [refcnt EXCEPT ![b] = IF holder[b] = NoProc THEN @ - 1 ELSE @]
                     /\ Goto(p, "run", NoBuf)
                     /\ UNCHANGED <<lru, blockno, valid, dirty, data, holder, queue, disk, held,
                                    panic>>

\* b moves to the head of the list.
Moved(b) == LET at == CHOOSE i \in Buf : lru[i] = b
            IN  [i \in Buf |-> IF i = 1 THEN b ELSE IF i <= at THEN lru[i - 1] ELSE lru[i]]

Brelse(p) == LET b == cur[p]
             IN  /\ Runs(p, "brelse")
                 /\ refcnt' = [refcnt EXCEPT ![b] = @ - 1]
                 /\ lru' = IF refcnt[b] = 1 THEN Moved(b) ELSE lru
                 /\ Goto(p, "run", NoBuf)
                 /\ UNCHANGED <<blockno, valid, dirty, data, holder, queue, disk, held, panic>>

----------------------------------------------------------------------------
\* binit() puts the last buffer first.
Init == /\ lru = [i \in Buf |-> NBUF + 1 - i]
        /\ blockno = [b \in Buf |-> NoBlock] /\ valid = {} /\ dirty = {}
        /\ refcnt = [b \in Buf |-> 0] /\ data = [b \in Buf |-> Zero]
        /\ holder = [b \in Buf |-> NoProc] /\ queue = <<>>
        /\ disk \in [Block -> Value]
        /\ pc = [p \in Proc |-> "run"] /\ cur = [p \in Proc |-> NoBuf]
        /\ held = [p \in Proc |-> {}]
        /\ panic = "none"

\* What a process does by itself until it has its buffer.
Proceed(p) == Lock(p) \/ Iderw(p) \/ DiskAwake(p) \/ Brelse(p)
Use(p) == \E b \in Buf : \/ \E v \in Value : LogWrite(p, b, v) \/ Bwrite(p, b, v)
                         \/ Releasesleep(p, b)

Next == \/ Ideintr
        \/ \E p \in Proc : (\E n \in Block : Bget(p, n)) \/ Proceed(p) \/ Use(p) \/ Kill(p)

Spec == Init /\ [][Next]_vars

----------------------------------------------------------------------------
(* Properties *)

Label == {"run", "lock", "lock_sleep", "iderw", "disk_sleep", "disk_awake", "brelse"}

TypeOK == /\ lru \in [Buf -> Buf]
          /\ blockno \in [Buf -> Block \union {NoBlock}]
          /\ valid \subseteq Buf /\ dirty \subseteq Buf
          /\ refcnt \in [Buf -> Nat] /\ data \in [Buf -> Value]
          /\ holder \in [Buf -> Proc \union {NoProc}]
          /\ queue \in Seq(Buf) /\ disk \in [Block -> Value]
          /\ pc \in [Proc -> Label] /\ cur \in [Proc -> Buf \union {NoBuf}]
          /\ held \in [Proc -> SUBSET Buf]
          /\ panic \in {"none", "bget: no buffers", "iderw: nothing to do"}

\* The processes that bget() has counted for b.
Users(b) == {p \in Proc : b \in held[p] \/ cur[p] = b}

\* No block has two buffers.
OneBuffer == \A b, c \in Buf : blockno[b] = blockno[c] /\ blockno[b] # NoBlock => b = c

\* b->refcnt counts the users of b.
Counted == \A b \in Buf : refcnt[b] = Cardinality(Users(b))

\* A buffer is locked by the one process that works on it or has it.
Exclusive == \A b \in Buf, p \in Proc :
                 holder[b] = p <=> \/ b \in held[p]
                                   \/ cur[p] = b /\ pc[p] \in {"iderw", "disk_sleep", "disk_awake"}

\* Who has a buffer has the block; who works on one has it once.
Filled == \A p \in Proc : held[p] \subseteq valid /\ cur[p] \notin held[p]

\* A buffer is in the queue once, for a process inside iderw(): one that sleeps
\* there, or one that was woken early and will sleep again.
Requested == /\ \A i, j \in DOMAIN queue : queue[i] = queue[j] => i = j
             /\ \A p \in Proc : pc[p] = "disk_sleep" => \E i \in DOMAIN queue : queue[i] = cur[p]
             /\ \A i \in DOMAIN queue : \E p \in Proc :
                    pc[p] \in {"disk_sleep", "disk_awake"} /\ cur[p] = queue[i]

\* Nobody sleeps for a lock that is free.
NoForgottenSleeper == \A p \in Proc : pc[p] = "lock_sleep" => holder[cur[p]] # NoProc

\* The cache keeps its buffers apart and its processes too, whatever the order
\* of their calls, of the interrupts and of kill() (bio.c:57-140, ide.c:104-167).
BuffersSound == /\ OneBuffer /\ Counted /\ Exclusive /\ Filled
                /\ Requested /\ NoForgottenSleeper

\* bget() gives up only when each buffer is pinned by the log or really used by
\* a process: no reference is ever lost, so none is ever stranded (bio.c:77-91).
\* iderw() always has something to do (ide.c:143).
PanicOnlyWhenFull ==
    /\ panic # "iderw: nothing to do"
    /\ panic = "bget: no buffers" => \A b \in Buf : b \in dirty \/ Users(b) # {}

\* A block that is cached is the copy; the holder of its buffer has the block.
Contents(n) == IF \E b \in valid : blockno[b] = n
               THEN data[CHOOSE b \in valid : blockno[b] = n] ELSE disk[n]
Owner(n) == IF Cached(n) = {} THEN NoProc ELSE holder[CHOOSE b \in Cached(n) : TRUE]

\* The cache implements BlockStore: no write is lost when buffers are recycled,
\* and no two processes have a block at the same time.
Abstract == INSTANCE BlockStore WITH mem <- [n \in Block |-> Contents(n)],
                                     owner <- [n \in Block |-> Owner(n)]
ImplementsBlockStore == Abstract!Spec
=============================================================================
