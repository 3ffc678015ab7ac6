# A TLA+ model of the CS537 operating-system assignments

The repository holds seven assignments of an operating-systems course.  Most of them
change the xv6 teaching kernel; the others are a shell, a MapReduce library on
pthreads, a file-system checker and small utilities.  This directory models the parts
of them that are concurrent, that crash, or that keep invariants across many calls; it
checks the models on small instances with TLC and proves the most important invariants
for all instances with TLAPS.

## 1. Inventory

Kernel files that several assignments contain unchanged are read at `p2/xv6`; a file
that a later assignment changed is read there (`sysfile.c` at `p7/p7a`, `kalloc.c` at
`p5/v2`).

| component | source | state | operations | hard because |
|---|---|---|---|---|
| Write-ahead log | `p2/xv6/log.c` | header in memory and on disk, count of calls, `committing` | `begin_op`, `log_write`, `end_op`, commit, recovery | crash between any two block writes; group commit; unlocked test in `log_write`; sleepers |
| Buffer cache, disk driver | `p2/xv6/bio.c`, `ide.c` | 30 buffers in LRU order, B_VALID/B_DIRTY, disk queue | `bget`, `bread`, `bwrite`, `brelse`, `iderw`, `ideintr` | one buffer per block; recycling while others look up; interrupt order |
| Process table | `p2/xv6/proc.c` | 64 slots with state, parent, channel, killed; CPUs | `fork`, `exit`, `wait`, `kill`, `sleep`, `wakeup`, scheduler | lost wakeups, reparenting, a parent and a child exiting together |
| Pipes | `p2/xv6/pipe.c` | ring of 512 bytes, two wrapping counters, two open flags | `piperead`, `pipewrite`, `pipeclose` | both sides asleep, close during a read, counter wrap-around |
| File table and descriptors | `p2/xv6/file.c`, `p7/p7a/sysfile.c` | reference counts, per-process descriptor tables | `open`, `dup`, `close`, `fork`, `exit` | counts shared by processes, error paths |
| Inodes, directories | `p7/p7a/fs.c`, `sysfile.c` | inode cache, on-disk inodes and bitmap | `iget`, `iput`, `link`, `unlink`, `create` | reference against link count, unlink while open, locks taken in two orders |
| Symbolic links | `p7/p7a/sysfile.c` | link target in an inode | `symlink`, `open` through links | loops, lock and reference left on error paths |
| Sleep locks, spin locks | `p2/xv6/sleeplock.c`, `spinlock.c` | holder, nesting of `pushcli` | `acquire`, `release` | interrupts off while held |
| Physical allocator | `p5/v2/kalloc.c` | free list, arrays of allocated frames and owners | `kalloc2`, `kfree` | neighbouring frames of different owners |
| Virtual memory, exec | `p2/xv6/vm.c`, `exec.c` | page tables | `allocuvm`, `copyuvm`, `exec` | failure half way |
| MapReduce | `p6/mapreduce.c` | partitions of hashed buckets, work counters | `MR_Run`, `MR_Emit`, mapper and reducer threads | shared counters tested without their lock |
| Shell | `p3/src/mysh.c` | job table of 100 entries | built-ins, background jobs, `wait` | unbounded job counter, child that cannot exec |
| Checker | `p7/p7b/fscheck.c` | a disk image | twelve checks | what an image must satisfy to pass |
| Utilities, tests, p4 | `p1`, `p4`, user programs | none that lasts | | sequential, or tests only |

How they interact: a file-system call of `sysfile.c` brackets its work with
`begin_op`/`end_op` (Log), locks inodes and reads blocks through the buffer cache,
which the log pins dirty blocks in and which the disk driver fills from interrupts.
Sleep locks, the log, pipes and `wait` all wait with the process table's
`sleep`/`wakeup` and share its one lock.  MapReduce, the shell and the checker run in
user space and share nothing with the kernel parts here.

What makes each component correct is said in sections 3 to 9.

## 2. Modules

| module | role |
|---|---|
| `AtomicDisk` | abstract: calls write a visible disk; a durable disk follows it at instants when no call is in progress; a crash restores it |
| `Log` | `log.c` with the parts of `bio.c` and `ide.c` it depends on; implements `AtomicDisk` |
| `LogProofs`, `LogCrashProofs` | TLAPS proofs about `Log`: space and sleepers; crashes and the refinement |
| `BlockStore` | abstract: each block has one contents, and one process at a time has the block |
| `BufferCache` | `bio.c`, the sleep locks of its buffers and the queue of `ide.c`; implements `BlockStore` |
| `BufferCacheProofs` | TLAPS proofs about `BufferCache` |
| `DiskImage` | `fs.h` and `mkfs.c`: inodes, directory blocks and the empty file system, as constants |
| `FileSystem` | `fs.c` and `sysfile.c`: inodes, paths, `open` to `unlink`, symbolic links |
| `FileSystemProofs` | TLAPS proofs about `FileSystem` and, for the image that it leaves, `Fscheck` |
| `Fscheck` | the checks of `fscheck.c` as operators on an image; used by `FileSystem`'s properties |
| `ByteQueue` | abstract: a bounded FIFO of bytes whose reader is told of the end of file only when it is empty and can no longer be written |
| `Pipe` | `pipe.c` and what processes do with its descriptors; implements `ByteQueue` |
| `PipeProofs` | TLAPS proofs about `Pipe` |
| `ProcessTree` | abstract: a tree of processes with unique pids; orphans go to init, a child is reported once |
| `ProcTable` | `proc.c` with `sys_sleep` and the timer interrupt; implements `ProcessTree` |
| `ProcTableProofs` | TLAPS proofs about `ProcTable`: stacks, locks and sleepers; the refinement |
| `Kalloc` | the allocator of p5/v2 |
| `KallocProofs` | TLAPS proofs about `Kalloc` |
| `Partitioners` | `MR_SortedPartition`, `MR_DefaultHashPartition`, `log2n` and `atol` of `mapreduce.c` as operators on strings |
| `GroupByKey` | abstract: keys are emitted, then each is reduced once with all of its values |
| `MapReduce` | `MR_Run` with its mapper and reducer threads and two clients; implements `GroupByKey` |
| `MapReduceProofs` | TLAPS proofs about `MapReduce` |
| `MCLog`, `MCBufferCache`, `MCFileSystem`, `MCPipe`, `MCProcTable`, `MCKalloc`, `MCMapReduce` | instances for TLC: symmetry sets, the menu of calls, the strings used as keys, and what is assumed of an instance; `MCLog` checks two sizes of the log in one run |
| `MCProcTableLive` | an instance of `ProcTable` on one CPU and one on two, with fairness |

`FileSystem` extends `Fscheck`, which extends `DiskImage`; each concrete module
instantiates its abstract one.  `FileSystem` takes from `Log` that a call is atomic
with respect to crashes, and `Log` takes from `BufferCache` that a block has one
buffer: each of these is the abstract specification that the lower module is shown to
implement.

Everywhere an action is named after the function whose step it is, and a comment
`Mutant:` marks an operator that is not part of the model: it is the previous
definition's twin with a plausible mistake in it, used to see that a property notices
the mistake.  Places inside a function are labels in `pc`; a process asleep is a
process at a label that ends in `asleep`, so that `wakeup(chan)` is a change of `pc`
or `state` for the processes at the labels of that channel.

## 3. The write-ahead log

**State.** `outstanding`, `committing` and `lh` are the fields of `struct log`.
`cache`, `dirty` and `holder` are, for each block, its buffer's data, its `B_DIRTY`
flag and the process with its sleep lock; `disk`, `dlog` and `dhead` are what is on
the platter.  `boot` says where `initlog()` is.

**Steps.** One critical section of `log.lock` is an action (`BeginOp`, `Recheck`,
`LogWrite`, `EndOp`, `EndCommit`), and so is one block read or written (`Bread`,
`WriteLogBlock`, `CommitPoint`, `CommitInstall`, `CommitClear`, and their twins in
recovery).  `log_write()` tests the length of the log before it takes the lock; so
`LogWriteCheck` and `LogWrite` are separate.  `Crash` can come anywhere, recovery
included.  `Lookup` and `Evict` recycle any clean unlocked buffer at any time, which
is what the LRU list permits other users of the cache to do.

**What makes it correct.**  All writes of a call, or none, survive a crash
(`ImplementsAtomicDisk`); home blocks change only under a committed header, log blocks
only under an empty one (`WriteAhead`); after the last `end_op()` the disk has what
readers see (`QuiescentDurable`); the panics are out of reach (`NoPanic`); a commit
runs alone (`CommitAlone`); who waits is woken (`NoForgottenSleeper`, `SleeperWoken`)
and the log reopens (`StaysOpen`).

**Abstractions.**  A call holds one buffer at a time.  Blocks of the log and the
header pass through the cache in the code, but are written at once and read only at
boot; they are modelled on the disk alone.  A cache with a buffer per block never runs
out; `bget`'s panic belongs to the buffer cache (section 4).

**Liveness.**  `SleeperWoken` says that a sleeper is woken, not that it gets in:
`begin_op()` has no queue, and others may always take the space first.

## 4. The buffer cache and the disk driver

**State.**  `lru` is the list that hangs on `bcache.head`, most recently used first.
`blockno`, `valid`, `dirty`, `refcnt`, `data` and `holder` are the fields of each
buffer and of its sleep lock; `queue` is `idequeue`; `disk` is the platter.  For a
process, `cur` is the buffer that it works on inside the cache and `held` those that
`bread()` has given it.

**Steps.**  One critical section of `bcache.lock`, of a sleep lock's `lk` or of
`idelock` is an action.  `Bget` is the first of them: it finds the block (`Hit`),
takes the least recently used free buffer (`Recycle`) or panics (`NoBuffers`). `Lock`
is one turn of `acquiresleep`'s loop; its sleeper competes again when it is woken.
`Iderw` queues a request, `Ideintr` completes the head of the queue at any time and
wakes its waiter; `Kill` is `kill()`'s wakeup of who sleeps, for a lock or in `iderw`
with the request still queued; `DiskAwake` is the waiter's new test after either,
which sends it back to sleep if its buffer is not ready (`ide.c:161`).  `LogWrite`
changes a block and leaves its buffer pinned; `Bwrite` changes and writes one.
`brelse` is two: it releases the sleep lock (`Releasesleep`), then takes `bcache.lock`
to count down and move the buffer (`Brelse`).

**What makes it correct.**  `BuffersSound`: a block has one buffer, `refcnt` counts
the users, a buffer is locked by the one process that has it, who has a buffer has the
block in it, a request is in the queue once and for who waits for it, and nobody
sleeps for a lock that is free.  `PanicOnlyWhenFull`: `iderw` always has something to
do, and `bget` panics only when every buffer is pinned by the log or really has a
user, that is, no reference was lost that strands a buffer.  xv6 has no more buffers
than its log can pin, so that the panic itself can happen, and does in the run.
`ImplementsBlockStore`: no write is lost by recycling.

**Abstractions.**  A request is done when it interrupts, and without error.  A process
reads no block that it has.  `MaxHeld` and `MaxPin` bound what callers hold and what
the log pins.

## 5. Inodes, directories and symbolic links

**State.**  `dinode`, `bitmap` and `block` are the disk as the log shows it; `core`,
`valid`, `ref` and `holder` are the inode cache; `ofile` is a process's open file;
`loc` has the locals of its call.

**Steps.**  What a process does between two points at which it can wait for an inode's
lock is one action; an action named after a call goes up to the next lock.  `iput` is
three: `IputCheck` looks at the inode under its lock, `IputFree` truncates and frees
it, `IputDrop` gives the reference back after the lock. `Walk` and `Step` are `namex`,
an element at a time.  Paths are absolute.  `Crash` comes only where no call is in a
transaction: that a crash elsewhere is the same as one there, before the call or after
it, is `ImplementsAtomicDisk`.

**What makes it correct.**  No panic but those of a full disk (`NoPanic`): no inode or
block is freed under a user.  The link count covers the names (`LinksCounted`). Locks
and references are given back on every path (`HoldingsMatch`, which is `LocksMatch`
and `RefsCounted`), but for what `open` keeps when it follows a link. Four checks of
`fscheck.c` find no fault with the disk a crash leaves, and the other four speak up
only in situations that the property names (`ImageSound`).  `NoDeadlock` is what
`fs.c` hopes for and does not have (finding 4).

**Abstractions.**  A directory or a link has one block, a file none: contents are not
modelled, and with them truncation of many blocks.  A directory has as many entries as
there are names, so it grows never.  `Min` chooses the free inode, block and entry as
the loops of the code do.

## 6. Pipes

**State.**  The ring and its two counters modulo `UintSize`; the two open flags; the
holder of `p->lock`; which processes have a descriptor of each end (`fds`); for each
process its place, `n`, `i`; who is killed and who is in `exit()`.  `owed` is a
history variable: the readers that were asleep when a killed writer gave up on a full
ring, and that nobody has woken since.

**Steps.**  `p->lock` is held over several actions, one per byte copied and one
between the test of `p->killed` and `sleep()`, because `kill()` takes only
`ptable.lock` and can come in between.  `Fork` copies descriptors, `Close` drops one
(`fileclose` calls `pipeclose` for the last, after releasing `ftable.lock`, hence two
actions), `Exit` begins `exit()`, whose file loop is `Close` repeated, and `Gone` ends
it.

**What makes it correct.**  Bytes arrive once and in order and end of file is told
only at the end (`ImplementsByteQueue`); a writer sleeps only on a full pipe that
somebody can read, a reader only on an empty one that somebody can write, or because
it is in `owed` (`SleepersHaveCause`, finding 1); the page is freed once, when nobody
can reach it (`NoUseAfterFree`); the flags follow the descriptors (`OpenWhileHeld`);
when one end goes, whoever is inside the other's call is `Abandoned` and returns
(`CallsReleased`).

**Abstractions.**  A process has one descriptor of each end at most; `dup` only adds
to the same count.  `UintSize` stands for 2^32; what matters of it, and what the
module assumes, is that it is a multiple of the ring's size and larger.

## 7. MapReduce

**State.**  The counters `files` and `part_num`; for each partition the list of its
bucket and its size; for each thread its place and the index it took; what the
reducers have printed.

**Steps.**  The `while` heads read their counter without a mutex (`MapTest`,
`RedTest`); the increment is under it (`MapTake`, `RedTake`).  `Emit` is one `MR_Emit`
with its bucket's mutex; `GetNext` is one `get_next`, which takes no mutex: that it
needs none is `PartitionsPrivate`, a half of `WorkPrivate`.  `SortBucket` is one round
of the sorting loop of `MR_Run`, which rebuilds the list of a bucket; all its new
nodes get the value of the old head (`Sorted`), as in the code.  `qsort` is modelled
by what it returns: the `j`-th key is the one that `j` keys of the list do not exceed
but fewer than `j` are before (`Smallest`), in the order of `strcmp` (`Before`).
`wordcount` and `sort` differ in their partition function; their `Map` emits each line
of a file, their `Reduce` counts what `get_next` returns.

**What makes it correct.**  No file and no partition is worked on twice at a time
(`WorkPrivate`: `FilesPrivate` and `PartitionsPrivate`), each line is counted once
(`CompleteOnReturn`), a key is reduced once and after all were emitted
(`ImplementsGroupByKey`), and the outputs are in order (`OutputSorted`).  There are
two orders: the keys of a partition are printed as `strcmp` orders strings, so that
`tests/17.out` expects 1, 10, 100, ..., 1001, while the sort client's partitions are
in the order of the numbers that `atol` reads.

**Abstractions.**  A key is the sequence of its character codes.  Those of the sort
client are decimal digits whose number has `KeyBits` bits (`SortAssumption`; 32 in the
code): `atol`'s treatment of other strings is left out.  All mappers are created
before the first of them runs, as are all reducers: a thread created later is one that
is scheduled later.  Memory never runs out. There is a mapper and a reducer: with no
mappers or no reducers `MR_Run` returns with the work undone.

## 8. Processes

**State.**  Per slot `state`, `pid`, `parent`, `killed`, whether it has a kernel
stack, and where its kernel thread is (at `call` it has passed `trap()`'s test of
`killed`); per CPU whose stack it runs on (`on`), and how far its scheduler has got
(`scan`); the holders of `ptable.lock` and `tickslock`; `ticks`, and what the boot
CPU's timer interrupt has left to do.

**Steps.**  `ptable.lock` is taken by the thread that gives up its CPU and released by
whatever runs there next, so setting a state (`Yield`, `Exit`, `SleepGo`, `WaitLoop`),
leaving the stack (`Switch`), choosing the next process (`Sched`) and releasing the
lock (`Resume`) are steps of their own.  A critical section without a switch is one
action.  `fork` is four: the slot is found under the lock, given back on failure
without it (`ForkFail`), filled without it (`ForkCopy`), and made runnable under it.
`sleep()` takes `ptable.lock` before it releases its caller's lock (`SleepGo`).
`Enter` is a system call up to its first lock: from there on a `kill` finds the
process in the kernel, on its way to `wait`'s or `sleep`'s loop too.  The timer
interrupts any CPU with interrupts on; on the boot CPU it first counts (`Tick`) and
wakes (`TickWakeup`).  init is `init.c`: it waits, and exits when its `fork` fails,
upon which the kernel panics on that CPU (`Panicked`) and the others go on.

**What makes it correct.**  No stack is run by two CPUs (`OneCpuPerStack`) or freed
under one (`StackLive`); nobody waits with a zombie child, without children, or killed
(`WaitersHaveCause`); no tick is missed (`NoMissedTick`); `fork`, `exit` and `wait`
keep the tree (`ImplementsProcessTree`); who is killed exits (`KilledExits`) and
orphans are reaped (`OrphansReaped`).

**Abstractions.**  `exit()`'s closing of files is in `Pipe` and `Log`.  Any child of
`fork` may run any sequence of these calls.

## 9. The physical allocator

**State.**  `freelist` and `use_lock` are fields of `kmem`; `framearr`, `pidarr` and
`totalframes` say who was handed which frame; `owner` is the truth that they are
about: who has the frame.

**Steps.**  `kmem.lock` is held throughout each call, so a call is an action: `Kalloc`
takes the first frame of the list whose neighbours are nobody's or the caller's,
`Kfree` puts one back and clears its entry, `DumpPhysmem` sorts the first `NSORT`
entries in any order that its comparison allows.  Before `Kinit2` only the kernel is
given frames; they are `Boot`, because `kinit2` then wipes the entries.  Where the
code follows a null pointer or writes behind the arrays, the model ends (`broken`).

**What makes it correct.**  Two processes never have neighbouring frames (`Isolated`),
although that is decided from arrays that are wiped in part, cleared entry by entry
and sorted; a frame is once in the list or once in the arrays (`Accounted`).

## 10. Runs

| run | instance | distinct states | what it shows |
|---|---|---|---|
| `log_calls` | 2 processes, 2 blocks, 2 values; calls that write 2, reservations of 3 in a log of 6; and calls that write 1, reservations of 2 in a log of 2; no symmetry | 260,048 | all of section 3 |
| `bcache_share` | 2 processes, 3 buffers, 4 blocks, 2 pinned | 632,797 | all of section 4 |
| `fs_names` | 2 processes, 3 inodes, 3 blocks, 2 names, 4 calls, crashes | 474,439 | section 5 |
| `fs_deadlock` | the same, 2 calls | | **violated**, finding 4 |
| `pipe_share` | 2 processes, 2 bytes, ring of 2, counters modulo 4, calls of up to 2 bytes, no symmetry | 492,272 | all of section 6 |
| `pipe_killed_writer` | 3 processes, 1 byte, ring of 1, counters modulo 2 | | **violated**, finding 1 |
| `mr_run` | 2 mappers, 2 reducers, 3 files, the keys 2, 5, 9 and 10, 3 partitions, both clients | 196,468 | all of section 7 |
| `mr_assert` | 2 mappers, 2 files | | **violated**, finding 2 |
| `proc_smp` | 2 CPUs, 3 slots, 3 pids, sleeps of 1 tick, clock modulo 2 | 604,308 | stacks, waiters, ticks, the tree |
| `proc_live` | 1 CPU, 4 slots, 4 pids; and 2 CPUs, 3 pids, sleeps of 1 tick; kills of pids 2 and 3 | 56,543 | killed processes exit, orphans are reaped |
| `proc_newborn` | 1 CPU, 3 slots | | **violated**, finding 3 |
| `kalloc_frames` | 5 frames, 2 of them freed early, 2 processes, arrays of 6, 5 marked, 4 sorted | 176,405 | section 9 |

**Why the bounds are enough to be interesting.**  Log: two callers fill the log, so
that each can wait for the other; crashes at every write, also of recovery, with calls
of two blocks that a torn commit would split.  In a log of 6 two blocks cannot
overflow; in the second size they fill the log, and a call admitted without regard to
the others' reservations would run into `log_write`'s panic.  A run gives a constant
one value, so `MCLog` has the second size as an instance of `Log`, chosen initially by
a variable; the theorem `ReservationSuffices`, like the others, sets no bound on
callers, blocks and sizes.  Buffer cache: one buffer more than the two processes hold;
two can be pinned, so that buffers are recycled all the time and `bget` can also find
none; more blocks than buffers.  The proofs cover processes that hold many.  File
system: four calls make, link, open and remove a name, with another process in the
middle of any of them; directories in directories; three inodes and three blocks let a
freed one be used again and let both run out. Paths have two names at most, so that no
call makes a directory in one that is being removed and has a name itself; the
theorems have paths of any length, and it was their proof that showed what happens
then (below).  Pipe: a ring of two bytes, so that bytes could come out of order and
both places of the ring are used; two writes of two bytes do not fit in it, so that
the second sleeps in the middle; counters that wrap at twice the ring; both processes
read, write and close either end.  The proofs cover any
number of readers and writers. MapReduce: more files and more partitions than threads,
keys that share a partition, files that are empty; `strcmp` puts 10 before 2, 5 and 9,
`atol` after them, and `MR_SortedPartition` puts 9 and 10 in one partition, 2 and 5 in
another.  Processes: two CPUs that hand over one lock; a slot that is used again, a
fork that finds the table full; three pids are init, a child and a grandchild (an
orphan).  `proc_live` begins with these three and has two machines
(`MCProcTableLive`): on one CPU, a fourth slot and pid let init be given a zombie
while it has another child; on two, processes sleep on the clock while another CPU
kills them or ticks, so that a kill also comes between the test of `killed` in
`sys_sleep` and `sleep`, and between `trap()`'s and `wait`'s.  Allocator: three frames
let two processes meet at one between them, and entries lie inside and outside of what
is marked and sorted.

`MaxPid`, `MaxSleep`, `KillPid`, `MaxN`, `MaxLines`, `OpMax`, `MaxHeld`, `MaxPin`,
`Menu`, `Path` and `MaxCall` bound what programs ask for.  `CHECK_DEADLOCK FALSE` is
used where the modelled system may stop: all processes of a pipe gone, `MR_Run`
returned or aborted, pids used up, calls used up, a panic, `broken`.  The log never
stops.

**Fairness.**
* Log: a process inside the log code runs (`WF` of `Step`; the scheduler is
  round-robin and disk requests complete), recovery runs, and a system call reaches
  its `end_op` (`SF`, since it may return to the same place between its writes, but
  makes a bounded number of them).  No caller is assumed to start or, while calls
  compete, to get in.
* Pipe: as above, and whoever wants the spin lock, which is freed again and again,
  gets it (`SF`).  `exit()` closes all files.  A killed process exits at the next
  tick.  Nobody is made to read, write or close.
* Processes: CPUs do what their scheduler does and the clock ticks (`SF`, both compete
  for spin locks); a thread that runs again and again gets on (`SF`, since it runs
  only while scheduled); `init.c` calls `wait` in a loop.  Other programs need do
  nothing.  This is `FairSpec`; `MCSpec` of `MCProcTableLive` is the same for its two
  machines, as `MCLog`'s `MCSpec` is `Spec` of `Log` for its two sizes.

The buffer cache, the file system and the allocator are checked for safety only:
`acquiresleep` has no queue, so a waiter may starve.

**Findings.**
1. *A killed writer leaves readers asleep on a full pipe.*  In `pipewrite`'s full
   loop, `return -1` (`pipe.c:84-87`) skips the `wakeup(&p->nread)` that a sleep or a
   return would do.  The readers sleep until the pipe is written again or closed.
   `SleepersHaveCause` is what holds: a reader misses no other wakeup.  Only a reader
   that was asleep at that moment, and that nobody has woken since, is excused
   (`owed`); that somebody was killed excuses nobody.
2. *`Map` can be called for a file that does not exist.*  `files < totalfiles` is
   tested outside the mutex; two mappers pass it for the last file and the second
   opens `argv[argc]`, and `assert(fp != NULL)` in the clients fails.  The same race
   on `part_num` is harmless: an index of `NumPart` or more is an empty partition to
   the loop that follows.
3. *A process can be born killed.*  `kill` looks at all slots, the UNUSED ones too, so
   `kill(0)`, or of the pid of a fork that failed, marks a free slot, and `allocproc`
   does not clear the mark.
4. *`create` and `unlink` of one name deadlock.*  `create` calls `iunlockput(dp)`
   while the new inode is locked, and `iput` begins by locking `dp` again
   (`sysfile.c:280`, `fs.c:334`).  `unlink` takes `dp` in between and waits for the
   new inode.  `unlink` has the same order at `sysfile.c:224`.

Seen while modelling, not checked by a run of their own:
* `begin_op` reserves for `LOGSIZE` entries, while `mkfs.c:25` gives the log `LOGSIZE`
  blocks, one of them the header (the theorems ask for `OpFits` because of it).
* `bget` can panic: `NBUF` equals `LOGSIZE` (`param.h:11-12`), so a full log pins
  every buffer; `PanicOnlyWhenFull` says that it panics for no other reason.
  `ide.c:118` marks the data of a failed read valid.
* `iput` drops its reference after the inode's lock (`fs.c:348`): of two processes
  that both saw two references, neither frees an inode without names.  It stays
  allocated, with its block, for good; `ImageSound` allows for it.
* `create` and `link` in a directory that is being removed leave an inode whose name
  is in no directory.  If it is a directory, its `..` goes on naming the one that was
  removed and then freed, of which `fscheck` says "inode marked free but referred".
* `open` through a symbolic link keeps the link's reference, and returns with a
  directory locked (`sysfile.c:325`); `symlink` leaves its descriptor open.
* `fscheck` stops at the first zeroed entry of a directory, so it misses what follows;
  calls a symbolic link a bad inode; and decides on `iNodesArr`, which it does not
  initialise.
* `kill()` between a pipe's test of `p->killed` and its `sleep()` is not noticed until
  the pipe is used again.
* `MR_Run` replaces the values of a bucket by the value of its first node, and copies
  a partition to an array of 1000010 without a test (`mapreduce.c:137`).
* `init.c` exits, and the kernel panics, if its first `fork` fails (`init.c:27`).
* `kalloc` with no suitable frame follows a null pointer (`kalloc.c:143` says it
  returns 0), with an empty list it releases `kmem.lock` twice; `totalframes` only
  grows, so the arrays are overrun after 65536 calls; `kinit2` marks 16384 of their
  entries, forgets the frames handed out before it, and `dump_physmem` reports `(0,
  0)` for unmarked entries and sorts the first 1000 only.
* `mysh` counts jobs without a bound in a table of 100, and a background child whose
  `exec` fails goes on as a second shell (`mysh.c:152`).

## 11. Proofs

No proof sets a bound: sets of processes, CPUs, blocks, values and files are arbitrary
(finite where they are counted), and sizes are arbitrary numbers that satisfy the
assumptions declared beside the constants.  The theorems are listed in `PROJECT.json`.
In each module the invariant in question is not inductive; what follows says what had
to be added, and why.

**`LogProofs`**: `TypeOK`, `NoPanic`, `NoForgottenSleeper` and `CommitAlone` of `Log`,
for every instance with `OpFits`: a call writes fewer blocks than it reserves, by more
than the log on disk lacks.  xv6's sizes satisfy it: 10 blocks reserved, at most 8
written (`writei` in `filewrite` is cut into pieces for that reason), 30 entries, 29
blocks.

`NoPanic` is not inductive: nothing in it says why the next `log_write` fits. What
does is a count of pairs.  `Unused` has a pair for each block that a call in progress
reserved and has not logged; `SpaceInv` says that the length of the log and the number
of these pairs together never exceed `LOGSIZE`.  Admitting a call adds `MAXOPBLOCKS`
pairs, which the test of `begin_op` paid for; appending a block removes one; ending a
call removes what is left.  `OpFits` turns this into the bound on the blocks of the
disk.  The other parts say what the count relies on: `outstanding` counts the calls in
progress, a committer is alone, a call holds one buffer, what it wrote is in the log,
and the log is empty at rest.  Lemmas on the cardinality of `Unused` come first, then
one lemma per action.

**`LogCrashProofs`**: `QuiescentDurable`, `WriteAhead` and `ImplementsAtomicDisk`,
with the same assumption.  The invariant says, for every label of `commit()` and of
recovery, which blocks are pinned (`PinInv`), that an unpinned buffer is what is at
home (`CleanInv`), that no block is in the log twice (`OnceInv`), what the header on
disk is (`HeadInv`), and what has been copied to the log and home (`CopyInv`).  The
durable disk of the refinement is the disk with the blocks that a non-empty header
names overlaid from the log; `CommitPoint` is then the abstract commit, the change of
a buffer the abstract write, and every block that is installed, every crash during
recovery and the clearing of the header leave the durable disk as it is. No block
being twice in the log is what makes the order of installing immaterial.

**`BufferCacheProofs`**: `TypeOK`, `BuffersSound`, `PanicOnlyWhenFull` and
`ImplementsBlockStore`, with no assumption on how many buffers there are, how many are
pinned and how many a process holds. `CopyInv` says that what is cached and not dirty
is on the disk, so recycling loses nothing; `PendInv` that a request has something to
do until it leaves the queue, and that who was woken early, by `kill()`, finds its
request still there, so that it is right to sleep again. `LruInv` says that the list
holds every buffer, so the search finds what exists; when `bget` finds none that is
neither pinned nor counted, the count (`Counted`) gives each buffer that is not pinned
a user.

**`PipeProofs`**: `TypeOK`, `SleepersHaveCause`, `NoUseAfterFree`, `OpenWhileHeld` and
`ImplementsByteQueue`.  `LockInv` says at which places `p->lock` is held, `CloseInv`
that an end is closed by the one process that had its last descriptor, `SleepInv` what
a sleeper waits for and who is about to wake it, `EofInv` that a reader that copied
nothing met no open writer.  The lemmas on remainders say when two counters that wrap
around point at the same byte of the ring; they need that `UintSize` is a multiple of
`PIPESIZE`.

**`ProcTableProofs`**: `TypeOK`, `OneCpuPerStack`, `StackLive`, `WaitersHaveCause`,
`NoMissedTick` and `ImplementsProcessTree`.  `PlaceInv` says where a thread is in each
state; `CpuInv` that a CPU on the stack of a process that no longer runs holds
`ptable.lock`; `ForkInv` that the slot of a `fork` in progress is nobody else's;
`ParentInv` and `RootInv` what `parent` can be; `ClockInv` who holds `tickslock`;
`WaitInv` and `TickInv` are the two properties of sleepers, slot by slot.  Every
conjunct is preserved by a lemma per action.

The refinement adds that a slot in use has a pid of its own, below `nextpid`
(`PidInv`), and that the parent of a process has not exited (`LivingInv`).  Then a
process is found by its pid, and a step of the table is a step of the tree when a
child becomes runnable, when a process becomes a zombie, and when `wait` frees a
zombie's slot; an embryo is in nobody's tree, so `fork`'s other steps, with their
failures, cannot be seen.

**`FileSystemProofs`**: `TypeOK`, `NoPanic`, `LinksCounted`, `HoldingsMatch` and
`ImageSound`, of `CrashSpec`, and so of `Spec`: for any finite set of processes, any
number of inodes, blocks and names, paths of any length and any menu of calls.  None
of them is inductive: that an inode is not freed under its user depends on the counts,
the counts on what calls hold, that on the locks, and all of it on what the entries of
directories say.  `IInv` is therefore one invariant:
* `CallInv` is about calls in progress.  `Place` says which of its locals a call uses
  at each label; `Held` what it may rely on while it holds a lock or a reference (the
  inode it refers to is allocated and, where the code expects it, a directory; the
  entry that `unlink` found is still there; the inode that `iput` frees has one
  reference and no link); `FreshInv` that the link that `symlink` has yet to write is
  its own.  `LocksMatch` is a part of `HoldingsMatch`; `RefInv` is the other, written
  with `Slack`, the references that nobody can give back.  A step of one process
  changes the number that it holds and the count by the same amount (`LocksAndRefs`),
  so each action only has to say what it takes and gives. `CacheInv` and `LoadedInv`
  say that a valid copy is what is on disk, and that who keeps a lock has a valid
  copy.
* `DiskInv`: a free inode has no links and no block, a block has one owner, the bitmap
  is the set of the owned blocks, a directory's `.` is itself.  `DirInv`: no name
  twice in a directory, and a directory is named once, where its `..` leads.
* `LinkInv`: the link count of an inode is at least `Due`, its names and
  subdirectories together with the links that a call counts before it writes the
  entry, or after it has cleared it (`Pending`). Without `Pending`, `link` and
  `unlink` would not preserve it: between their two steps other calls run.

`NoPanic` then follows step by step: the inode in an entry has a link, hence is
allocated; one with a user has a reference, hence `iput` does not free it.  That an
entry fits in a directory is a pigeonhole: no name is there twice and there are as
many slots as names (`HoleLeft`).  A crash forgets all calls, and is possible only
when none is `Pending`.  `ImageSound` follows from `DiskInv` and `DirInv` for the
checks that are silent; of the others the proof looks for the witness that the
property promises.

**`KallocProofs`**: `TypeOK`, `Isolated` and `Accounted`.  `ArrInv` says that an entry
that names a frame was written, is the only one for the frame and has the pid of its
owner; `ListInv` that the list has each free frame once; `EarlyInv` that `kinit2`
marks every entry written before it.  That a sort loses no entry is a pigeonhole: an
injection of a finite set to itself is onto.

**`MapReduceProofs`**: `TypeOK`, `WorkPrivate`, `CompleteOnReturn`, `OutputSorted` and
`ImplementsGroupByKey`, for any non-empty sets of mappers and reducers, any files, any
non-empty set of strings as keys, any values and any number of partitions up to that
of numbers.  The invariant has two halves.  `Safe` says where threads are in each
phase (`PhaseInv`), that an index in use is behind its counter and that who has exited
saw the counter at its end (`IndexInv`), that a bucket has only keys of its partition,
as many as its size says, and is in order once it was sorted (`BucketInv`), and that
what is left of a partition is above what was printed of it and not below the key in
work (`ReduceInv`: `AtKey`, `Above`, `InOrder`, `Finished`).  `EmitInv` says that the
nodes, the held and the printed values of a key together are as many as its lines that
were read (`ReadLines`: the files that were taken, but for what a mapper has still to
read); `Emit` adds one to both, the other steps only move values from one place to the
next.

The lemmas count: where a key can be, a node in one bucket, a held value with one
reducer, a printed one in one line, so that each number is the cardinality of one set
(`NodesIs`, `HeldIs`, `PrintedIs`); what putting a node at the head of a list and
taking it off do to the number of a key (`CountCons`, `CountTail`); and that sorting
keeps it and puts the keys in order (`SortedIs`).  For this `strcmp` is shown to be a
strict total order (`BeforeIsOrder`); the places of a key in the sorted list lie
between the number of keys before it and the number up to it (`PlaceOf`), so that
every place has a key (`PlaceExists`) and only one (`OnePlace`).  At the end all
threads have exited, so all lines were read and nothing is left or held. When `Reduce`
returns, the number the reducer counted is all there is of its key: this is the
abstract `Reduce`.

Two facts about the partition functions are assumptions on the constants, since the
provers know neither powers nor folds: `PowerAssumption` (`2^KeyBits` and `2^Shift`
are natural numbers and `NumPart * 2^Shift` is at least `2^KeyBits`, which `Shift =
KeyBits - log2n[NumPart]` gives for every `NumPart`) and `HashAssumption` (a remainder
modulo `NumPart` is a partition).  A third, `SortAssumption`, is about the lines of
the sort client: `atol` reads a number of `KeyBits` bits from each.  TLC evaluates all
three on its instance. That the sorted partition of a key exists and keeps the order
of the numbers is proved from the first and the third.

**Only model-checked**: liveness under fairness (`SleeperWoken`, `StaysOpen`,
`CallsReleased`, `KilledExits`, `OrphansReaped`), and with it `ENABLED`, which are out
of the prover's reach; and what functions defined by recursion or folds over data
(`log2n`, the hash of a key) compute for every input.  Every other property that a
passing run checks is a theorem.

## 12. Not modelled, and what is left

Not modelled, for good: page tables and `exec` (one process changes them by itself;
their failures are `ForkFail`), the console (character input and output, its sleep is
`Pipe`'s pattern), the shell (one process; what its children interleave with is in
`ProcTable`, its own faults are single paths named in section 10), the utilities of
`p1`, the user programs and tests, and p4 (sequential programs, tests, no state that
lasts). Most files of the repository are further copies of xv6, one per hand-in, and
their tests: each part is modelled once, so the lines that the model stands for are a
small share of all.

Left out of parts that are modelled: `chdir`, relative paths and `..`, `mknod`; the
contents of files and truncation of more than a block; `dup` and the limits of the
file table and of the inode cache; errors of the disk controller; `growproc`, and
`getofilecnt`, `getofilenext`; the nesting of `pushcli`.

Next, in this order: the contents of files, with `writei` cut into transactions; the
shell's job table.
