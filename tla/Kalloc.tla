------------------------------- MODULE Kalloc -------------------------------
(***************************************************************************)
(* The physical allocator of p5/v2 (kalloc.c).  A process is never given a *)
(* frame next to a frame of another process; who has which frame is kept   *)
(* in two arrays that are written in order, never reused, and searched.    *)
(*                                                                         *)
(* kmem.lock is held all through kalloc(), kfree() and dump_physmem(), and *)
(* before kinit2() one CPU runs: each call is one action.                  *)
(***************************************************************************)
EXTENDS Integers, Sequences, FiniteSets, SequencesExt

CONSTANTS LowFrame,    \* number of the first frame after the kernel's end[]
          SplitFrame,  \* of the first frame that kinit2() frees (4 MB)
          TopFrame,    \* of the first frame that does not exist (PHYSTOP)
          Pid,         \* pids of processes
          NENTRY,      \* length of framearr and pidarr (65536)
          NMARK,       \* entries that kinit2() marks as unused (16384)
          NSORT        \* entries that dump_physmem() sorts (1000)

ASSUME FrameAssumption ==
    /\ LowFrame \in Nat /\ SplitFrame \in Nat /\ TopFrame \in Nat
    /\ 1 < LowFrame /\ LowFrame <= SplitFrame /\ SplitFrame <= TopFrame
ASSUME PidAssumption == Pid \subseteq Nat \ {0}
ASSUME TableAssumption ==
    /\ NENTRY \in Nat /\ NMARK \in Nat /\ NSORT \in Nat
    /\ NSORT <= NMARK /\ NMARK <= NENTRY /\ SplitFrame - LowFrame <= NMARK

Frame == LowFrame..(TopFrame - 1)
Entry == 0..(NENTRY - 1)

Kernel == -2  \* the pid that the kernel asks for frames with
None   == -1  \* in the arrays: an entry that says nothing
Free   == -3  \* nobody has the frame
Boot   == -4  \* the kernel has had it since before kinit2()

VARIABLES freelist,     \* kmem.freelist
          use_lock,     \* kmem.use_lock: kinit2() has run
          framearr,     \* the frames handed out, at the entries they were given
          pidarr,       \* and the pids they were handed to
          totalframes,  \* the next entry to be written
          owner,        \* frame -> the pid that has it, Boot or Free
          broken        \* a null list node was followed, or an array overrun

arrays == <<framearr, pidarr, totalframes>>
vars == <<freelist, use_lock, arrays, owner, broken>>

Running == broken = "no"

\* Mutant: the frame that ends at vend is freed although it begins there.
FreeRangePast(first, past, list) == [i \in 1..(past + 1 - first) |-> past + 1 - i] \o list

\* The list after freerange(first, past): kfree() pushes each frame in turn.
FreeRange(first, past, list) == [i \in 1..(past - first) |-> past - i] \o list

\* kinit1() has freed the frames below 4 MB; the arrays are static, so zero.
Init == /\ freelist = FreeRange(LowFrame, SplitFrame, <<>>)
        /\ use_lock = FALSE
        /\ framearr = [i \in Entry |-> 0] /\ pidarr = [i \in Entry |-> 0]
        /\ totalframes = 0
        /\ owner = [f \in Frame |-> Free]
        /\ broken = "no"

\* kinit2() frees the rest and marks a part of the arrays; what the kernel
\* was given before is forgotten.
Kinit2 == /\ Running /\ ~use_lock
          /\ freelist' = FreeRange(SplitFrame, TopFrame, freelist)
          /\ use_lock' = TRUE
          /\ framearr' = [i \in Entry |-> IF i < NMARK THEN None ELSE framearr[i]]
          /\ pidarr' = [i \in Entry |-> IF i < NMARK THEN None ELSE pidarr[i]]
          /\ UNCHANGED <<totalframes, owner, broken>>

\* findIndexinframeArr(): the first entry for a frame is the one that counts.
EntriesOf(frame) == {i \in Entry : framearr[i] = frame}
FirstEntry(frame) == CHOOSE i \in EntriesOf(frame) : \A j \in EntriesOf(frame) : i <= j

GetPidForFrame(frame) == IF EntriesOf(frame) = {} THEN None ELSE pidarr[FirstEntry(frame)]

\* Mutant: only the frame below is looked at.
IsSafeBelow(pid, frame) == pid = Kernel \/ GetPidForFrame(frame - 1) \in {pid, None, Kernel}

\* isSafeToAllocare(): no neighbour of the frame belongs to another process.
IsSafe(pid, frame) == \/ pid = Kernel
                      \/ \A n \in {frame - 1, frame + 1} :
                             GetPidForFrame(n) = pid \/ GetPidForFrame(n) < 0

\* The places in the list of the frames that pid may have.
Suitable(pid) == {i \in DOMAIN freelist : IsSafe(pid, freelist[i])}

\* kalloc() takes the first frame of the list that is safe.
Kalloc(pid) ==
    /\ Running
    /\ use_lock \/ pid = Kernel
    /\ totalframes < NENTRY
    /\ \E i \in Suitable(pid) :
          /\ \A j \in Suitable(pid) : i <= j
          /\ freelist' = RemoveAt(freelist, i)
          /\ framearr' = [framearr EXCEPT ![totalframes] = freelist[i]]
          /\ pidarr' = [pidarr EXCEPT ![totalframes] = pid]
          /\ owner' = [owner EXCEPT ![freelist[i]] = IF use_lock THEN pid ELSE Boot]
    /\ totalframes' = totalframes + 1
    /\ UNCHANGED <<use_lock, broken>>

\* With no such frame the null pointer is followed (and with an empty list the
\* lock, released already, is released again: a panic).
KallocNone(pid) == /\ Running
                   /\ use_lock \/ pid = Kernel
                   /\ Suitable(pid) = {}
                   /\ broken' = "no frame"
                   /\ UNCHANGED <<freelist, use_lock, arrays, owner>>

\* totalframes only grows: after NENTRY calls the arrays are overrun.
KallocOverrun(pid) == /\ Running
                      /\ use_lock \/ pid = Kernel
                      /\ Suitable(pid) # {} /\ totalframes = NENTRY
                      /\ broken' = "overrun"
                      /\ UNCHANGED <<freelist, use_lock, arrays, owner>>

\* kfree(): the frame goes to the front of the list and out of the arrays.
\* What the kernel got before kinit2() (its page table, the stacks of the other
\* CPUs' schedulers) it keeps.
Kfree(f) == /\ Running /\ use_lock
            /\ owner[f] \in Pid \union {Kernel}
            /\ freelist' = <<f>> \o freelist
            /\ IF EntriesOf(f) = {}
               THEN UNCHANGED <<framearr, pidarr>>
               ELSE /\ framearr' = [framearr EXCEPT ![FirstEntry(f)] = None]
                    /\ pidarr' = [pidarr EXCEPT ![FirstEntry(f)] = None]
            /\ owner' = [owner EXCEPT ![f] = Free]
            /\ UNCHANGED <<totalframes, use_lock, broken>>

Sorted == 0..(NSORT - 1)

\* Mutant: the pids stay where they are.
DumpFramesOnly ==
    /\ Running /\ use_lock
    /\ \E order \in [Sorted -> Sorted] :
          /\ \A i, j \in Sorted : order[i] = order[j] => i = j
          /\ \A i, j \in Sorted : i < j => framearr[order[i]] >= framearr[order[j]]
          /\ framearr' = [i \in Entry |-> framearr[IF i \in Sorted THEN order[i] ELSE i]]
    /\ UNCHANGED <<freelist, use_lock, pidarr, totalframes, owner, broken>>

\* dump_physmem() sorts the first NSORT entries of both arrays, the highest
\* frame first, before it copies them out.
DumpPhysmem ==
    /\ Running /\ use_lock
    /\ \E order \in [Sorted -> Sorted] :
          /\ \A i, j \in Sorted : order[i] = order[j] => i = j
          /\ \A i, j \in Sorted : i < j => framearr[order[i]] >= framearr[order[j]]
          /\ framearr' = [i \in Entry |-> framearr[IF i \in Sorted THEN order[i] ELSE i]]
          /\ pidarr' = [i \in Entry |-> pidarr[IF i \in Sorted THEN order[i] ELSE i]]
    /\ UNCHANGED <<freelist, use_lock, totalframes, owner, broken>>

Next == \/ Kinit2 \/ DumpPhysmem
        \/ \E pid \in Pid \union {Kernel} : Kalloc(pid) \/ KallocNone(pid) \/ KallocOverrun(pid)
        \/ \E f \in Frame : Kfree(f)

Spec == Init /\ [][Next]_vars
----------------------------------------------------------------------------
(* Properties *)

TypeOK ==
    /\ freelist \in Seq(Frame)
    /\ use_lock \in BOOLEAN
    /\ framearr \in [Entry -> Frame \union {None, 0}]
    /\ pidarr \in [Entry -> Pid \union {Kernel, None, 0}]
    /\ totalframes \in 0..NENTRY
    /\ owner \in [Frame -> Pid \union {Kernel, Boot, Free}]
    /\ broken \in {"no", "no frame", "overrun"}

\* The frames that have been given to the allocator.
Managed == {f \in Frame : use_lock \/ f < SplitFrame}

\* The purpose of isSafeToAllocare() (kalloc.c:129): at no time, in whatever
\* order frames are handed out and freed, do two processes have neighbouring
\* frames.  It is decided from the arrays, which are sorted under way.
Isolated == \A f, g \in Frame :
    g = f + 1 /\ owner[f] \in Pid /\ owner[g] \in Pid => owner[f] = owner[g]

\* No frame is lost or handed out twice: it is once in the list (kalloc.c:108),
\* or once in the arrays with the pid that has it (kalloc.c:187), and the entry that the
\* next kalloc() writes says nothing.
Accounted ==
    /\ \A i, j \in DOMAIN freelist : freelist[i] = freelist[j] => i = j
    /\ \A f \in Managed : owner[f] = Free <=> \E i \in DOMAIN freelist : freelist[i] = f
    /\ use_lock => \A f \in Frame : \/ owner[f] \in {Free, Boot} /\ EntriesOf(f) = {}
                                    \/ \E i \in Entry : EntriesOf(f) = {i} /\ pidarr[i] = owner[f]
    /\ totalframes < NENTRY => framearr[totalframes] \notin Frame
=============================================================================
