-------------------------------- MODULE Pipe --------------------------------
(***************************************************************************)
(* One xv6 pipe (p2/xv6/pipe.c) and the processes that hold its two ends:  *)
(* they read, write, close, fork, are killed and exit.                     *)
(*                                                                         *)
(* p->lock is held over several actions, because kill() (proc.c) can act   *)
(* between the test of p->killed and sleep(), and because bytes move one   *)
(* at a time.  What nothing can come between is one action.                *)
(***************************************************************************)
EXTENDS Naturals, Sequences, FiniteSets

CONSTANTS Proc,      \* processes
          Byte,      \* what one byte can be
          PIPESIZE,  \* bytes in the ring
          UintSize,  \* counters are unsigned ints: they count modulo UintSize
          MaxN,      \* bound: the largest n of a read or a write
          Eof,       \* what a reader is given at end of file
          Nothing,   \* what a reader has before and after
          NoProc     \* nobody

\* 2^32 is a multiple of 512, and larger.
ASSUME SizeAssumption == /\ PIPESIZE \in Nat \ {0} /\ UintSize \in Nat
                         /\ UintSize % PIPESIZE = 0 /\ UintSize > PIPESIZE
                         /\ MaxN \in Nat
ASSUME NameAssumption == NoProc \notin Proc /\ Eof \notin Byte /\ Nothing \notin Byte

VARIABLES data,     \* p->data
          nread,    \* p->nread
          nwrite,   \* p->nwrite
          open,     \* [r |-> p->readopen, w |-> p->writeopen]
          lock,     \* the holder of p->lock
          freed,    \* the page of the pipe has been given to kfree()
          fds,      \* [r |-> , w |-> ]: processes with a descriptor for the end
          pc,       \* process -> where it is
          n,        \* process -> n of its call
          i,        \* process -> i of its call
          killed,   \* the processes with p->killed set
          exiting,  \* the processes that run exit()
          answer,   \* what piperead() has just given its caller
          owed      \* history: the readers asleep since before a killed writer
                    \* gave up on a full ring, and not woken since

ring  == <<data, nread, nwrite>>
procs == <<killed, exiting>>
vars  == <<ring, open, lock, freed, fds, pc, n, i, procs, answer, owed>>

End == {"r", "w"}

Empty == nread = nwrite
\* Mutant: the sum is not an unsigned int.
FullUnwrapped == nwrite = nread + PIPESIZE

Full  == nwrite = (nread + PIPESIZE) % UintSize

\* Places inside pipe.c; Closing[e] is where the close of end e is.
Closing == [r |-> "r_close", w |-> "w_close"]
Reading == {"r_lock", "r_test", "r_sleep", "r_asleep", "r_copy"}
Writing == {"w_lock", "w_copy", "w_sleep", "w_asleep"}
InPipe(p) == pc[p] \in Reading \union Writing \union {Closing[e] : e \in End}

Goto(p, label) == pc' = [pc EXCEPT ![p] = label]

\* wakeup(&p->nread) wakes the readers asleep, wakeup(&p->nwrite) the writers;
\* the caller, q, goes to label.
Woken(at) == CASE at = "r_asleep" -> "r_lock" [] at = "w_asleep" -> "w_lock"
Wakeup(asleep, q, label) ==
    /\ pc' = [p \in Proc |-> IF p = q THEN label
                             ELSE IF pc[p] = asleep THEN Woken(asleep) ELSE pc[p]]
    /\ owed' = IF asleep = "r_asleep" THEN {} ELSE owed

----------------------------------------------------------------------------
\* After pipealloc(): one process holds both ends of an empty pipe, in a page
\* that kalloc() does not clear.
Init == /\ data \in [0..(PIPESIZE - 1) -> Byte]
        /\ nread = 0 /\ nwrite = 0
        /\ open = [e \in End |-> TRUE]
        /\ lock = NoProc /\ freed = FALSE
        /\ \E creator \in Proc :
               /\ fds = [e \in End |-> {creator}]
               /\ pc = [p \in Proc |-> IF p = creator THEN "user" ELSE "unborn"]
        /\ n = [p \in Proc |-> 0] /\ i = [p \in Proc |-> 0]
        /\ killed = {} /\ exiting = {}
        /\ answer = Nothing /\ owed = {}

----------------------------------------------------------------------------
(* piperead() *)

Call(p, e, label) == \E k \in 0..MaxN :
    /\ pc[p] = "user" /\ p \in fds[e] /\ p \notin exiting
    /\ n' = [n EXCEPT ![p] = k] /\ i' = [i EXCEPT ![p] = 0]
    /\ Goto(p, label)
    /\ UNCHANGED <<ring, open, lock, freed, fds, procs, answer, owed>>

\* acquire(&p->lock), on entry or at the end of sleep().
Lock(p, from, label) == /\ pc[p] = from /\ lock = NoProc
                        /\ lock' = p
                        /\ Goto(p, label)
                        /\ UNCHANGED <<ring, open, freed, fds, n, i, procs, answer, owed>>

Read(p) == Call(p, "r", "r_lock")
ReadLock(p) == Lock(p, "r_lock", "r_test")

\* Mutant: an empty pipe is taken for a finished one.
ReadTestNoWait(p) == /\ pc[p] = "r_test"
                     /\ Goto(p, "r_copy")
                     /\ UNCHANGED <<ring, open, lock, freed, fds, n, i, procs, answer, owed>>

\* The head of the while loop: wait while the pipe is empty and can be written.
ReadTest(p) ==
    /\ pc[p] = "r_test"
    /\ IF ~(Empty /\ open["w"])
       THEN Goto(p, "r_copy") /\ UNCHANGED <<lock, n, i>>
       ELSE IF p \in killed
            THEN /\ lock' = NoProc /\ Goto(p, "user")
                 /\ n' = [n EXCEPT ![p] = 0] /\ UNCHANGED i
            ELSE Goto(p, "r_sleep") /\ UNCHANGED <<lock, n, i>>
    /\ UNCHANGED <<ring, open, freed, fds, procs, answer, owed>>

\* sleep() takes ptable.lock, gives p->lock up and sleeps, in one step.
Sleep(p, from, asleep) == /\ pc[p] = from
                          /\ lock' = NoProc
                          /\ Goto(p, asleep)
                          /\ UNCHANGED <<ring, open, freed, fds, n, i, procs, answer, owed>>

ReadSleep(p) == Sleep(p, "r_sleep", "r_asleep")

ReadCopy(p) == /\ pc[p] = "r_copy" /\ i[p] < n[p] /\ ~Empty
               /\ answer' = data[nread % PIPESIZE]
               /\ nread' = (nread + 1) % UintSize
               /\ i' = [i EXCEPT ![p] = @ + 1]
               /\ UNCHANGED <<data, nwrite, open, lock, freed, fds, pc, n, procs, owed>>

\* Mutant: the writers are not woken.
ReadReturnSilent(p) == /\ pc[p] = "r_copy" /\ (i[p] = n[p] \/ Empty)
                       /\ Goto(p, "user")
                       /\ lock' = NoProc
                       /\ answer' = IF i[p] = 0 /\ n[p] > 0 THEN Eof ELSE Nothing
                       /\ n' = [n EXCEPT ![p] = 0] /\ i' = [i EXCEPT ![p] = 0]
                       /\ UNCHANGED <<ring, open, freed, fds, procs, owed>>

\* Nothing more to copy: wake the writers and return i.
ReadReturn(p) == /\ pc[p] = "r_copy" /\ (i[p] = n[p] \/ Empty)
                 /\ Wakeup("w_asleep", p, "user")
                 /\ lock' = NoProc
                 /\ answer' = IF i[p] = 0 /\ n[p] > 0 THEN Eof ELSE Nothing
                 /\ n' = [n EXCEPT ![p] = 0] /\ i' = [i EXCEPT ![p] = 0]
                 /\ UNCHANGED <<ring, open, freed, fds, procs>>

----------------------------------------------------------------------------
(* pipewrite() *)

Write(p) == Call(p, "w", "w_lock")
WriteLock(p) == Lock(p, "w_lock", "w_copy")

WriteCopy(p, b) == /\ pc[p] = "w_copy" /\ i[p] < n[p] /\ ~Full
                   /\ data' = [data EXCEPT ![nwrite % PIPESIZE] = b]
                   /\ nwrite' = (nwrite + 1) % UintSize
                   /\ i' = [i EXCEPT ![p] = @ + 1]
                   /\ UNCHANGED <<nread, open, lock, freed, fds, pc, n, procs, answer, owed>>

\* The ring is full: give up, or wake the readers and get ready to sleep.
WriteFull(p) ==
    /\ pc[p] = "w_copy" /\ i[p] < n[p] /\ Full
    /\ IF ~open["r"] \/ p \in killed
       THEN /\ lock' = NoProc /\ Goto(p, "user")
            /\ n' = [n EXCEPT ![p] = 0] /\ i' = [i EXCEPT ![p] = 0]
            /\ owed' = owed \union {q \in Proc : pc[q] = "r_asleep"}
       ELSE Wakeup("r_asleep", p, "w_sleep") /\ UNCHANGED <<lock, n, i>>
    /\ UNCHANGED <<ring, open, freed, fds, procs, answer>>

WriteSleep(p) == Sleep(p, "w_sleep", "w_asleep")

WriteReturn(p) == /\ pc[p] = "w_copy" /\ i[p] = n[p]
                  /\ Wakeup("r_asleep", p, "user")
                  /\ lock' = NoProc
                  /\ n' = [n EXCEPT ![p] = 0] /\ i' = [i EXCEPT ![p] = 0]
                  /\ UNCHANGED <<ring, open, freed, fds, procs, answer>>

----------------------------------------------------------------------------
(* fileclose() and pipeclose() *)

\* Mutant: every close of a descriptor closes the pipe's end.
CloseEarly(p, e) == /\ pc[p] = "user" /\ p \in fds[e]
                    /\ fds' = [fds EXCEPT ![e] = @ \ {p}]
                    /\ Goto(p, Closing[e])
                    /\ UNCHANGED <<ring, open, lock, freed, n, i, procs, answer, owed>>

\* The last descriptor of an end goes on into pipeclose().
Close(p, e) == /\ pc[p] = "user" /\ p \in fds[e]
               /\ fds' = [fds EXCEPT ![e] = @ \ {p}]
               /\ Goto(p, IF fds[e] = {p} THEN Closing[e] ELSE "user")
               /\ UNCHANGED <<ring, open, lock, freed, n, i, procs, answer, owed>>

\* Mutant: the page is freed when either end is closed.
PipeCloseEither(p, e) ==
    /\ pc[p] = Closing[e] /\ lock = NoProc
    /\ open' = [open EXCEPT ![e] = FALSE]
    /\ freed' = TRUE
    /\ Wakeup(IF e = "w" THEN "r_asleep" ELSE "w_asleep", p, "user")
    /\ UNCHANGED <<ring, lock, fds, n, i, procs, answer>>

\* Mutant: the closing end wakes its own side.
PipeCloseSwapped(p, e) ==
    /\ pc[p] = Closing[e] /\ lock = NoProc
    /\ open' = [open EXCEPT ![e] = FALSE]
    /\ freed' = (freed \/ \A x \in End : ~open'[x])
    /\ Wakeup(IF e = "r" THEN "r_asleep" ELSE "w_asleep", p, "user")
    /\ UNCHANGED <<ring, lock, fds, n, i, procs, answer>>

PipeClose(p, e) ==
    /\ pc[p] = Closing[e] /\ lock = NoProc
    /\ open' = [open EXCEPT ![e] = FALSE]
    /\ freed' = (freed \/ \A x \in End : ~open'[x])
    /\ Wakeup(IF e = "w" THEN "r_asleep" ELSE "w_asleep", p, "user")
    /\ UNCHANGED <<ring, lock, fds, n, i, procs, answer>>

----------------------------------------------------------------------------
(* The life of a process, as far as it concerns the pipe. *)

\* fork() gives the child its parent's descriptors.
Fork(p, c) == /\ pc[p] = "user" /\ p \notin exiting
              /\ pc[c] = "unborn"
              /\ Goto(c, "user")
              /\ fds' = [e \in End |-> IF p \in fds[e] THEN fds[e] \union {c} ELSE fds[e]]
              /\ UNCHANGED <<ring, open, lock, freed, n, i, procs, answer, owed>>

\* kill() marks p and makes it runnable if it sleeps.
Kill(p) == /\ pc[p] \notin {"unborn", "gone"} /\ p \notin killed
           /\ killed' = killed \union {p} /\ owed' = owed \ {p}
           /\ IF pc[p] \in {"r_asleep", "w_asleep"} THEN Goto(p, Woken(pc[p])) ELSE UNCHANGED pc
           /\ UNCHANGED <<ring, open, lock, freed, fds, n, i, exiting, answer>>

\* A process exits of its own will, or in trap() because it was killed ...
Exit(p) == /\ pc[p] = "user" /\ p \notin exiting
           /\ exiting' = exiting \union {p}
           /\ UNCHANGED <<ring, open, lock, freed, fds, pc, n, i, killed, answer, owed>>

\* ... and is gone when exit() has closed its descriptors.
Gone(p) == /\ pc[p] = "user" /\ p \in exiting
           /\ \A e \in End : p \notin fds[e]
           /\ Goto(p, "gone")
           /\ UNCHANGED <<ring, open, lock, freed, fds, n, i, procs, answer, owed>>

----------------------------------------------------------------------------
\* What a process inside pipe.c, or inside exit(), does next.
Step(p) == \/ ReadLock(p) \/ ReadTest(p) \/ ReadSleep(p) \/ ReadCopy(p) \/ ReadReturn(p)
           \/ WriteLock(p) \/ WriteFull(p) \/ WriteSleep(p) \/ WriteReturn(p)
           \/ \E b \in Byte : WriteCopy(p, b)
           \/ \E e \in End : PipeClose(p, e)
           \/ Gone(p)

Next == \E p \in Proc : \/ Step(p)
                        \/ Read(p) \/ Write(p)
                        \/ \E e \in End : Close(p, e)
                        \/ \E c \in Proc : Fork(p, c)
                        \/ Kill(p) \/ Exit(p)

Spec == Init /\ [][Next]_vars

\* A runnable process runs, a spinlock that keeps being released is taken in
\* the end, exit() closes every descriptor, and a killed process exits at the
\* next clock tick.  Nothing makes a program read, write, close or exit.
Fairness == \A p \in Proc :
                /\ WF_vars(Step(p))
                /\ SF_vars(ReadLock(p) \/ WriteLock(p) \/ \E e \in End : PipeClose(p, e))
                /\ WF_vars(p \in exiting /\ \E e \in End : Close(p, e))
                /\ WF_vars(p \in killed /\ Exit(p))

FairSpec == Spec /\ Fairness

----------------------------------------------------------------------------
(* Properties *)

Used == (nwrite + UintSize - nread) % UintSize

TypeOK == /\ data \in [0..(PIPESIZE - 1) -> Byte]
          /\ nread \in 0..(UintSize - 1) /\ nwrite \in 0..(UintSize - 1)
          /\ Used <= PIPESIZE
          /\ open \in [End -> BOOLEAN] /\ freed \in BOOLEAN
          /\ lock \in Proc \union {NoProc}
          /\ fds \in [End -> SUBSET Proc]
          /\ pc \in [Proc -> Reading \union Writing \union
                             {"user", "unborn", "gone", "r_close", "w_close"}]
          /\ n \in [Proc -> 0..MaxN] /\ i \in [Proc -> 0..MaxN]
          /\ killed \subseteq Proc /\ exiting \subseteq Proc
          /\ answer \in Byte \union {Eof, Nothing}
          /\ owed \subseteq Proc

\* No wakeup is lost: whenever p->lock is free, a reader sleeps only on an
\* empty pipe, a writer only on a full one.  The loops are labelled so:
\* "DOC: pipe-empty" (pipe.c:104), "DOC: pipewrite-full" (pipe.c:83).
NoLostWakeup == lock = NoProc => \A p \in Proc :
                    /\ pc[p] = "r_asleep" => Empty
                    /\ pc[p] = "w_asleep" => Full

\* What holds of the code: writers never miss a wakeup, nobody sleeps on an end
\* whose other end is closed, and a reader sleeps on a pipe with bytes in it only
\* if it was asleep when a killed writer gave up on the full ring without the
\* wakeup of line 88, and nobody has woken it since (pipe.c:64, 67, 84, 93, 116).
SleepersHaveCause == lock = NoProc => \A p \in Proc :
                         /\ pc[p] = "r_asleep" => open["w"] /\ (Empty \/ p \in owed)
                         /\ pc[p] = "w_asleep" => open["r"] /\ Full

\* The page of the pipe is freed once, when nobody can reach it again: no
\* process is in pipe.c or holds a descriptor (pipe.c:69-73, file.c:64-74).
NoUseAfterFree == freed => \A p \in Proc : ~InPipe(p) /\ \A e \in End : p \notin fds[e]

\* The flags follow the descriptors: an end is closed when the last process
\* that holds it has closed it, not before, and by one process.
OpenWhileHeld == \A e \in End :
    /\ fds[e] # {} => open[e]
    /\ open[e] /\ fds[e] = {} => \E p \in Proc : pc[p] = Closing[e]
    /\ Cardinality({p \in Proc : pc[p] = Closing[e]}) <= 1

Queue == [k \in 1..Used |-> data[((nread + k - 1) % UintSize) % PIPESIZE]]

Abstract == INSTANCE ByteQueue WITH Capacity <- PIPESIZE, queue <- Queue,
                                    writeOpen <- open["w"]

\* A pipe is a bounded FIFO of bytes, counters wrapping around included, and
\* reports end of file only when it is empty and can no longer be written.
ImplementsByteQueue == Abstract!Spec

\* When the last writer goes away every reader inside piperead() returns; when
\* the last reader goes away every writer inside pipewrite() returns (pipe.c:64-67).
Abandoned(p) == \/ pc[p] \in Reading /\ fds["w"] = {}
                \/ pc[p] \in Writing /\ fds["r"] = {}
CallsReleased == \A p \in Proc : Abandoned(p) ~> ~Abandoned(p)
=============================================================================
