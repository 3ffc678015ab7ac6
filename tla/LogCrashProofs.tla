--------------------------- MODULE LogCrashProofs ---------------------------
(***************************************************************************)
(* Proofs about Log and crashes, for every number of processes and blocks  *)
(* and every size of the log: what is in the cache, in the log and at home *)
(* at each point of a commit and of recovery, and from it that the log     *)
(* implements AtomicDisk.                                                  *)
(***************************************************************************)
EXTENDS LogProofs

Once(s) == \A i, j \in 1..Len(s) : s[i] = s[j] => i = j

\* log_write() absorbs a block that is in the header already.
OnceInv == Once(lh) /\ Once(dhead)

\* A buffer that is not pinned has what is at home, unless the process that has
\* it has changed it and not yet told the log.
CleanInv == \A b \in Block :
    /\ holder[b] # NoProc => cache[b] # NotCached
    /\ b \notin dirty => \/ cache[b] = NotCached \/ cache[b] = disk[b]
                         \/ holder[b] # NoProc /\ pc[holder[b]] \in {"modified", "append"}

\* The blocks of the group are pinned until they are installed.
PinInv ==
    /\ \A b \in dirty : cache[b] # NotCached
    /\ boot # "up" => dirty = {}
    /\ boot = "up" => \A b \in Block :
           b \in dirty <=> \E i \in 1..Len(lh) :
                               lh[i] = b /\ \A p \in Proc : pc[p] = "install" => tail[p] <= i

\* The header on disk is empty, but from the commit point to its clearing.
HeadInv ==
    /\ boot = "up" /\ dhead # <<>> => \E p \in Proc : pc[p] \in {"install", "clear_head"}
    /\ \A p \in Proc : pc[p] = "install" => dhead = lh
    /\ boot = "install" => dhead = lh

\* What has been copied to the log, and what has been copied home.
CopyInv ==
    /\ \A p \in Proc, i \in 1..Len(lh) :
           /\ pc[p] = "write_log" /\ i < tail[p] => dlog[i] = Contents(lh[i])
           /\ pc[p] = "install" => dlog[i] = Contents(lh[i])
           /\ pc[p] = "install" /\ i < tail[p] => disk[lh[i]] = dlog[i]
    /\ \A i \in 1..Len(lh) : boot = "install" /\ i < btail => disk[lh[i]] = dlog[i]
    /\ boot = "clear_head" \/ (\E p \in Proc : pc[p] = "clear_head") =>
           \A i \in 1..Len(dhead) : disk[dhead[i]] = dlog[i]

CrashInv == OnceInv /\ CleanInv /\ PinInv /\ HeadInv /\ CopyInv

(***************************************************************************)
(* What the steps need of the types, and who is where during a commit.     *)
(***************************************************************************)

Shape ==
    /\ cache \in [Block -> Value \union {NotCached}] /\ dirty \subseteq Block
    /\ holder \in [Block -> Proc \union {NoProc}]
    /\ disk \in [Block -> Value] /\ dlog \in [1..(NLOG - 1) -> Value]
    /\ pc \in [Proc -> AllPC] /\ tail \in [Proc -> Nat \ {0}] /\ btail \in Nat \ {0}
    /\ Len(lh) \in Nat /\ Len(lh) <= NLOG - 1 /\ \A i \in 1..Len(lh) : lh[i] \in Block
    /\ Len(dhead) \in Nat /\ Len(dhead) <= NLOG - 1
    /\ \A i \in 1..Len(dhead) : dhead[i] \in Block

LEMMA ShapeHolds == IInv => Shape
<1> SUFFICES ASSUME IInv PROVE Shape
  OBVIOUS
<1>1. /\ cache \in [Block -> Value \union {NotCached}] /\ dirty \subseteq Block
      /\ holder \in [Block -> Proc \union {NoProc}]
      /\ disk \in [Block -> Value] /\ dlog \in [1..(NLOG - 1) -> Value]
      /\ pc \in [Proc -> AllPC] /\ tail \in [Proc -> Nat \ {0}] /\ btail \in Nat \ {0}
      /\ lh \in Seq(Block) /\ dhead \in Seq(Block)
  BY DEF IInv, TypeOK, AllPC
<1>2. Len(lh) <= NLOG - 1 /\ Len(dhead) <= NLOG - 1
  BY DEF IInv, SpaceInv
<1>3. /\ Len(lh) \in Nat /\ \A i \in 1..Len(lh) : lh[i] \in Block
      /\ Len(dhead) \in Nat /\ \A i \in 1..Len(dhead) : dhead[i] \in Block
  BY <1>1, ElementOfSeq
<1> QED BY <1>1, <1>2, <1>3 DEF Shape

\* A committer finds every buffer free and every other process outside.
LEMMA Alone ==
  ASSUME IInv, NEW p \in Proc, pc[p] \in CommitPC
  PROVE  /\ boot = "up" /\ Active = {}
         /\ \A q \in Proc : pc[q] \in {"write_log", "install", "clear_head"} => q = p
         /\ \A b \in Block : holder[b] = NoProc
<1>1. p \in Committers
  BY DEF Committers
<1>2. boot = "up"
  BY DEF IInv, BootInv, CommitPC
<1>3. Active = {} /\ \A q \in Proc : pc[q] \in CommitPC => q = p
  BY <1>1 DEF IInv, CommitInv, Committers
<1>4. \A b \in Block : holder[b] = NoProc
  <2>1. \A b \in Block : holder[b] \in Proc \union {NoProc}
    BY ShapeHolds DEF Shape
  <2> QED BY <1>3, <2>1 DEF IInv, HoldInv, Active, InOpPC
<1> QED BY <1>2, <1>3, <1>4 DEF CommitPC

\* During a call nobody commits.
LEMMA InCall ==
  ASSUME IInv, NEW p \in Proc, pc[p] \in InOpPC
  PROVE  /\ boot = "up"
         /\ \A q \in Proc : pc[q] \notin {"write_log", "install", "clear_head"}
<1>1. p \in Active
  BY DEF Active
<1>2. \A q \in Proc : q \notin Committers
  BY <1>1 DEF IInv, CommitInv
<1> QED BY <1>2 DEF IInv, BootInv, Committers, CommitPC, InOpPC

\* During recovery nobody does anything.
LEMMA Booting ==
  ASSUME IInv, boot # "up"
  PROVE  /\ \A q \in Proc : pc[q] = "idle"
         /\ \A b \in Block : holder[b] = NoProc
<1>1. \A q \in Proc : pc[q] = "idle"
  BY DEF IInv, BootInv
<1>2. \A b \in Block : holder[b] \in Proc \union {NoProc}
  BY ShapeHolds DEF Shape
<1> QED BY <1>1, <1>2 DEF IInv, HoldInv

\* The header has been emptied.
LEMMA Emptied ==
  ASSUME IInv, boot = "clear_head" \/ \E p \in Proc : pc[p] = "clear_head"
  PROVE  lh = <<>>
BY DEF IInv, EmptyInv

LEMMA NoElements == Len(<<>>) = 0
OBVIOUS

\* A header is one of a group of blocks, or empty.
LEMMA EmptyHeader ==
  ASSUME Shape
  PROVE  (Len(lh) = 0 => \A i \in 1..Len(lh) : FALSE) /\ (dhead = <<>> => Len(dhead) = 0)
BY NoElements DEF Shape

(***************************************************************************)
(* Every step keeps CrashInv.                                              *)
(***************************************************************************)

\* Steps that leave the disk and the cache alone, neither begin nor end a part
\* of a commit, and forget no change of a buffer.
LEMMA QuietKeeps ==
  ASSUME IInv, CrashInv, pc' \in [Proc -> AllPC],
         UNCHANGED <<lh, bufVars, diskVars, bootVars>>,
         \A p \in Proc, l \in {"write_log", "install", "clear_head"} : pc'[p] = l <=> pc[p] = l,
         \A p \in Proc : pc[p] \in {"modified", "append"} => pc'[p] \in {"modified", "append"},
         \A p \in Proc : pc[p] \in {"write_log", "install"} => tail'[p] = tail[p]
  PROVE  CrashInv'
<1>1. Shape
  BY ShapeHolds
<1>2. OnceInv'
  BY DEF CrashInv, OnceInv, Once, diskVars
<1>3. CleanInv'
  BY <1>1 DEF CrashInv, CleanInv, Shape, bufVars, diskVars
<1>4. PinInv'
  BY DEF CrashInv, PinInv, bufVars, bootVars
<1>5. HeadInv'
  BY DEF CrashInv, HeadInv, diskVars, bootVars
<1>6. CopyInv'
  BY DEF CrashInv, CopyInv, Contents, bufVars, diskVars, bootVars
<1> QED BY <1>2, <1>3, <1>4, <1>5, <1>6 DEF CrashInv

LEMMA LogWriteAppends ==
  ASSUME IInv, NEW p \in Proc, NEW b \in Block, LogWrite(p, b)
  PROVE  \/ lh' = lh /\ \E i \in 1..Len(lh) : lh[i] = b
         \/ /\ Len(lh') = Len(lh) + 1 /\ lh'[Len(lh) + 1] = b
            /\ \A i \in 1..Len(lh) : lh'[i] = lh[i] /\ lh[i] # b
<1>1. lh \in Seq(Block)
  BY DEF IInv, TypeOK
<1>2. CASE b \in Logged
  BY <1>1, <1>2 DEF LogWrite, Logged
<1>3. CASE b \notin Logged
  <2>1. lh' = Append(lh, b)
    BY <1>3 DEF LogWrite
  <2>2. /\ Len(lh') = Len(lh) + 1 /\ lh'[Len(lh) + 1] = b
        /\ \A i \in 1..Len(lh) : lh'[i] = lh[i]
    BY <1>1, <2>1, AppendProperties
  <2>3. \A i \in 1..Len(lh) : lh[i] # b
    BY <1>1, <1>3 DEF Logged
  <2> QED BY <2>2, <2>3
<1> QED BY <1>2, <1>3

LEMMA CrashKeeps ==
  ASSUME IInv, CrashInv, Crash
  PROVE  CrashInv'
<1>1. Shape
  BY ShapeHolds
<1>2. OnceInv'
  BY <1>1, NoElements
  DEF CrashInv, OnceInv, Once, Shape, Crash, diskVars
<1>3. CleanInv'
  BY <1>1, NoElements
  DEF CrashInv, CleanInv, Shape, Crash, diskVars
<1>4. PinInv'
  BY <1>1, NoElements
  DEF CrashInv, PinInv, Shape, Crash, diskVars
<1>5. HeadInv'
  BY <1>1, NoElements
  DEF CrashInv, HeadInv, Shape, Crash, diskVars
<1>6. CopyInv'
  BY <1>1, NoElements
  DEF CrashInv, CopyInv, Contents, Shape, Crash, diskVars
<1> QED BY <1>2, <1>3, <1>4, <1>5, <1>6 DEF CrashInv

LEMMA ReadHeadKeeps ==
  ASSUME IInv, CrashInv, ReadHead
  PROVE  CrashInv'
<1>1. Shape
  BY ShapeHolds
<1>2. \A q \in Proc : pc[q] = "idle"
  BY Booting DEF ReadHead
<1>3. OnceInv'
  BY <1>1, <1>2
  DEF CrashInv, OnceInv, Once, Shape, ReadHead, logVars, bufVars, diskVars, bootVars, procVars
<1>4. CleanInv'
  BY <1>1, <1>2
  DEF CrashInv, CleanInv, Shape, ReadHead, logVars, bufVars, diskVars, bootVars, procVars
<1>5. PinInv'
  BY <1>1, <1>2
  DEF CrashInv, PinInv, Shape, ReadHead, logVars, bufVars, diskVars, bootVars, procVars
<1>6. HeadInv'
  BY <1>1, <1>2
  DEF CrashInv, HeadInv, Shape, ReadHead, logVars, bufVars, diskVars, bootVars, procVars
<1>7. CopyInv'
  BY <1>1, <1>2
  DEF CrashInv, CopyInv, Contents, Shape, ReadHead, logVars, bufVars, diskVars, bootVars,
      procVars
<1> QED BY <1>3, <1>4, <1>5, <1>6, <1>7 DEF CrashInv

LEMMA RecoverInstallKeeps ==
  ASSUME IInv, CrashInv, RecoverInstall
  PROVE  CrashInv'
<1>1. Shape
  BY ShapeHolds
<1>2. /\ \A q \in Proc : pc[q] = "idle"
      /\ \A b \in Block : holder[b] = NoProc
  BY Booting DEF RecoverInstall
<1>3. btail \in 1..Len(lh) /\ lh[btail] \in Block
  BY <1>1 DEF RecoverInstall, Shape
<1>4. dlog[btail] \in Value
  BY <1>1, <1>3, SizeAssumption DEF Shape
<1>5. OnceInv'
  BY <1>1, <1>2, <1>3, <1>4, ValueAssumption
  DEF CrashInv, OnceInv, Once, Shape, RecoverInstall, InstallBlock, logVars, bufVars,
      diskVars, bootVars, procVars
<1>6. CleanInv'
  BY <1>1, <1>2, <1>3, <1>4, ValueAssumption
  DEF CrashInv, CleanInv, Shape, RecoverInstall, InstallBlock, logVars, bufVars, diskVars,
      bootVars, procVars
<1>7. PinInv'
  BY <1>1, <1>2, <1>3, <1>4, ValueAssumption
  DEF CrashInv, PinInv, Shape, RecoverInstall, InstallBlock, logVars, bufVars, diskVars,
      bootVars, procVars
<1>8. HeadInv'
  BY <1>1, <1>2, <1>3, <1>4, ValueAssumption
  DEF CrashInv, HeadInv, Shape, RecoverInstall, InstallBlock, logVars, bufVars, diskVars,
      bootVars, procVars
<1>9. CopyInv'
  BY <1>1, <1>2, <1>3, <1>4, ValueAssumption
  DEF CrashInv, CopyInv, Contents, OnceInv, Once, Shape, RecoverInstall, InstallBlock,
      logVars, bufVars, diskVars, bootVars, procVars
<1> QED BY <1>5, <1>6, <1>7, <1>8, <1>9 DEF CrashInv

LEMMA RecoverResetKeeps ==
  ASSUME IInv, CrashInv, RecoverReset
  PROVE  CrashInv'
<1>1. Shape
  BY ShapeHolds
<1>2. \A q \in Proc : pc[q] = "idle"
  BY Booting DEF RecoverReset
<1>3. OnceInv'
  BY <1>1, <1>2, NoElements
  DEF CrashInv, OnceInv, Once, Shape, RecoverReset, logVars, bufVars, diskVars, bootVars,
      procVars
<1>4. CleanInv'
  BY <1>1, <1>2, NoElements
  DEF CrashInv, CleanInv, Shape, RecoverReset, logVars, bufVars, diskVars, bootVars, procVars
<1>5. PinInv'
  BY <1>1, <1>2, NoElements
  DEF CrashInv, PinInv, Shape, RecoverReset, logVars, bufVars, diskVars, bootVars, procVars
<1>6. HeadInv'
  BY <1>1, <1>2, NoElements
  DEF CrashInv, HeadInv, Shape, RecoverReset, logVars, bufVars, diskVars, bootVars, procVars
<1>7. CopyInv'
  BY <1>1, <1>2, NoElements
  DEF CrashInv, CopyInv, Contents, HeadInv, Shape, RecoverReset, logVars, bufVars, diskVars,
      bootVars, procVars
<1> QED BY <1>3, <1>4, <1>5, <1>6, <1>7 DEF CrashInv

LEMMA RecoverClearKeeps ==
  ASSUME IInv, CrashInv, RecoverClear
  PROVE  CrashInv'
<1>1. Shape
  BY ShapeHolds
<1>2. \A q \in Proc : pc[q] = "idle"
  BY Booting DEF RecoverClear
<1>3. lh = <<>>
  BY Emptied DEF RecoverClear
<1>4. OnceInv'
  BY <1>1, <1>2, <1>3, NoElements
  DEF CrashInv, OnceInv, Once, Shape, RecoverClear, WriteHead, logVars, bufVars, diskVars,
      bootVars, procVars
<1>5. CleanInv'
  BY <1>1, <1>2, <1>3, NoElements
  DEF CrashInv, CleanInv, Shape, RecoverClear, WriteHead, logVars, bufVars, diskVars,
      bootVars, procVars
<1>6. PinInv'
  BY <1>1, <1>2, <1>3, NoElements
  DEF CrashInv, PinInv, Shape, RecoverClear, WriteHead, logVars, bufVars, diskVars, bootVars,
      procVars
<1>7. HeadInv'
  BY <1>1, <1>2, <1>3, NoElements
  DEF CrashInv, HeadInv, Shape, RecoverClear, WriteHead, logVars, bufVars, diskVars,
      bootVars, procVars
<1>8. CopyInv'
  BY <1>1, <1>2, <1>3, NoElements
  DEF CrashInv, CopyInv, Contents, Shape, RecoverClear, WriteHead, logVars, bufVars,
      diskVars, bootVars, procVars
<1> QED BY <1>4, <1>5, <1>6, <1>7, <1>8 DEF CrashInv

LEMMA LookupKeeps ==
  ASSUME IInv, CrashInv, NEW b \in Block, Lookup(b)
  PROVE  CrashInv'
<1>1. Shape
  BY ShapeHolds
<1>2. OnceInv'
  BY <1>1, ValueAssumption
  DEF CrashInv, OnceInv, Once, Shape, Lookup, Contents, logVars, bufVars, diskVars, bootVars,
      procVars
<1>3. CleanInv'
  BY <1>1, ValueAssumption
  DEF CrashInv, CleanInv, Shape, Lookup, Contents, logVars, bufVars, diskVars, bootVars,
      procVars
<1>4. PinInv'
  BY <1>1, ValueAssumption
  DEF CrashInv, PinInv, Shape, Lookup, Contents, logVars, bufVars, diskVars, bootVars, procVars
<1>5. HeadInv'
  BY <1>1, ValueAssumption
  DEF CrashInv, HeadInv, Shape, Lookup, Contents, logVars, bufVars, diskVars, bootVars, procVars
<1>6. CopyInv'
  BY <1>1, ValueAssumption
  DEF CrashInv, CopyInv, Contents, Shape, Lookup, logVars, bufVars, diskVars, bootVars, procVars
<1> QED BY <1>2, <1>3, <1>4, <1>5, <1>6 DEF CrashInv

LEMMA EvictKeeps ==
  ASSUME IInv, CrashInv, NEW b \in Block, Evict(b)
  PROVE  CrashInv'
<1>1. Shape
  BY ShapeHolds
<1>2. OnceInv'
  BY <1>1, ValueAssumption
  DEF CrashInv, OnceInv, Once, Shape, Evict, logVars, bufVars, diskVars, bootVars, procVars
<1>3. CleanInv'
  BY <1>1, ValueAssumption
  DEF CrashInv, CleanInv, Shape, Evict, logVars, bufVars, diskVars, bootVars, procVars
<1>4. PinInv'
  BY <1>1, ValueAssumption
  DEF CrashInv, PinInv, Shape, Evict, logVars, bufVars, diskVars, bootVars, procVars
<1>5. HeadInv'
  BY <1>1, ValueAssumption
  DEF CrashInv, HeadInv, Shape, Evict, logVars, bufVars, diskVars, bootVars, procVars
<1>6. CopyInv'
  BY <1>1, ValueAssumption
  DEF CrashInv, CopyInv, Contents, CleanInv, PinInv, Shape, Evict, logVars, bufVars,
      diskVars, bootVars, procVars
<1> QED BY <1>2, <1>3, <1>4, <1>5, <1>6 DEF CrashInv

LEMMA BreadKeeps ==
  ASSUME IInv, CrashInv, NEW p \in Proc, NEW b \in Block, Bread(p, b)
  PROVE  CrashInv'
<1>1. Shape
  BY ShapeHolds
<1>2. pc[p] = "op" /\ p # NoProc /\ \A c \in Block : holder[c] # p
  BY ProcAssumption DEF Bread, IInv, HoldInv
<1>3. OnceInv'
  BY <1>1, <1>2, ValueAssumption
  DEF CrashInv, OnceInv, Once, Shape, Bread, Goto, Contents, logVars, bufVars, diskVars,
      bootVars, procVars
<1>4. CleanInv'
  BY <1>1, <1>2, ValueAssumption
  DEF CrashInv, CleanInv, Shape, Bread, Goto, Contents, logVars, bufVars, diskVars, bootVars,
      procVars
<1>5. PinInv'
  BY <1>1, <1>2, ValueAssumption
  DEF CrashInv, PinInv, Shape, Bread, Goto, Contents, logVars, bufVars, diskVars, bootVars,
      procVars
<1>6. HeadInv'
  BY <1>1, <1>2, ValueAssumption
  DEF CrashInv, HeadInv, Shape, Bread, Goto, Contents, logVars, bufVars, diskVars, bootVars,
      procVars
<1>7. CopyInv'
  BY <1>1, <1>2, ValueAssumption
  DEF CrashInv, CopyInv, Contents, Shape, Bread, Goto, logVars, bufVars, diskVars, bootVars,
      procVars
<1> QED BY <1>3, <1>4, <1>5, <1>6, <1>7 DEF CrashInv

LEMMA ModifyKeeps ==
  ASSUME IInv, CrashInv, NEW p \in Proc, NEW b \in Block, NEW v \in Value, Modify(p, b, v)
  PROVE  CrashInv'
<1>1. Shape
  BY ShapeHolds
<1>2. /\ pc[p] = "bread" /\ holder[b] = p /\ p # NoProc
      /\ \A c \in Block : holder[c] = p => c = b
  BY ProcAssumption DEF Modify, IInv, HoldInv
<1>3. \A q \in Proc : pc[q] \notin {"write_log", "install", "clear_head"}
  BY <1>2, InCall DEF InOpPC
<1>4. OnceInv'
  BY <1>1, <1>2, <1>3, ValueAssumption
  DEF CrashInv, OnceInv, Once, Shape, Modify, Goto, logVars, bufVars, diskVars, bootVars,
      procVars
<1>5. CleanInv'
  BY <1>1, <1>2, <1>3, ValueAssumption
  DEF CrashInv, CleanInv, Shape, Modify, Goto, logVars, bufVars, diskVars, bootVars, procVars
<1>6. PinInv'
  BY <1>1, <1>2, <1>3, ValueAssumption
  DEF CrashInv, PinInv, Shape, Modify, Goto, logVars, bufVars, diskVars, bootVars, procVars
<1>7. HeadInv'
  BY <1>1, <1>2, <1>3, ValueAssumption
  DEF CrashInv, HeadInv, Shape, Modify, Goto, logVars, bufVars, diskVars, bootVars, procVars
<1>8. CopyInv'
  BY <1>1, <1>2, <1>3, ValueAssumption
  DEF CrashInv, CopyInv, Contents, Shape, Modify, Goto, logVars, bufVars, diskVars, bootVars,
      procVars
<1> QED BY <1>4, <1>5, <1>6, <1>7, <1>8 DEF CrashInv

LEMMA LogWriteKeeps ==
  ASSUME IInv, CrashInv, NEW p \in Proc, NEW b \in Block, LogWrite(p, b)
  PROVE  CrashInv'
<1>1. Shape
  BY ShapeHolds
<1>2. /\ pc[p] = "append" /\ holder[b] = p /\ p # NoProc
      /\ \A c \in Block : holder[c] = p => c = b
  BY ProcAssumption DEF LogWrite, IInv, HoldInv
<1>3. /\ boot = "up"
      /\ \A q \in Proc : pc[q] \notin {"write_log", "install", "clear_head"}
  BY <1>2, InCall DEF InOpPC
<1>4. \/ lh' = lh /\ \E i \in 1..Len(lh) : lh[i] = b
      \/ /\ Len(lh') = Len(lh) + 1 /\ lh'[Len(lh) + 1] = b
         /\ \A i \in 1..Len(lh) : lh'[i] = lh[i] /\ lh[i] # b
  BY LogWriteAppends
<1>5. /\ dirty' = dirty \union {b} /\ pc' = [pc EXCEPT ![p] = "release"]
      /\ UNCHANGED <<cache, holder, diskVars, bootVars, tail>>
  BY DEF LogWrite, Goto
<1>6. OnceInv'
  <2>1. CASE lh' = lh
    BY <1>5, <2>1 DEF CrashInv, OnceInv, Once, diskVars
  <2>2. CASE lh' # lh
    <3>1. \A i \in 1..Len(lh') : i \in 1..Len(lh) \/ i = Len(lh) + 1
      BY <1>1, <1>4, <2>2 DEF Shape
    <3>2. Once(lh')
      BY <1>1, <1>4, <2>2, <3>1 DEF CrashInv, OnceInv, Once, Shape
    <3> QED BY <1>5, <3>2 DEF CrashInv, OnceInv, diskVars, Once
  <2> QED BY <2>1, <2>2
<1>7. CleanInv'
  BY <1>1, <1>2, <1>3, <1>4, <1>5
  DEF CrashInv, CleanInv, Shape, bufVars, diskVars, bootVars
<1>8. PinInv'
  <2>1. cache[b] # NotCached
    BY <1>2 DEF CrashInv, CleanInv
  <2>2. \A c \in Block : (\E i \in 1..Len(lh') : lh'[i] = c)
                           <=> c = b \/ \E i \in 1..Len(lh) : lh[i] = c
    <3>1. CASE lh' = lh
      BY <1>4, <3>1
    <3>2. CASE lh' # lh
      <4>1. \A i \in 1..Len(lh') : i \in 1..Len(lh) \/ i = Len(lh) + 1
        BY <1>1, <1>4, <3>2 DEF Shape
      <4>2. \A i \in 1..Len(lh) : i \in 1..Len(lh')
        BY <1>1, <1>4, <3>2 DEF Shape
      <4>3. Len(lh) + 1 \in 1..Len(lh')
        BY <1>1, <1>4, <3>2 DEF Shape
      <4> QED BY <1>4, <3>2, <4>1, <4>2, <4>3
    <3> QED BY <3>1, <3>2
  <2>3. \A q \in Proc : pc[q] # "install" /\ pc'[q] # "install"
    BY <1>1, <1>3, <1>5 DEF Shape
  <2> QED BY <1>3, <1>5, <2>1, <2>2, <2>3 DEF CrashInv, PinInv, bootVars
<1>9. HeadInv'
  BY <1>1, <1>2, <1>3, <1>4, <1>5
  DEF CrashInv, HeadInv, Shape, bufVars, diskVars, bootVars
<1>10. CopyInv'
  BY <1>1, <1>2, <1>3, <1>4, <1>5
  DEF CrashInv, CopyInv, Contents, Shape, bufVars, diskVars, bootVars
<1> QED BY <1>6, <1>7, <1>8, <1>9, <1>10 DEF CrashInv

LEMMA BrelseKeeps ==
  ASSUME IInv, CrashInv, NEW p \in Proc, NEW b \in Block, Brelse(p, b)
  PROVE  CrashInv'
<1>1. Shape
  BY ShapeHolds
<1>2. /\ pc[p] \in {"bread", "release"} /\ holder[b] = p /\ p # NoProc
      /\ \A c \in Block : holder[c] = p => c = b
  BY ProcAssumption DEF Brelse, IInv, HoldInv
<1>3. OnceInv'
  BY <1>1, <1>2
  DEF CrashInv, OnceInv, Once, Shape, Brelse, Goto, logVars, bufVars, diskVars, bootVars,
      procVars
<1>4. CleanInv'
  BY <1>1, <1>2
  DEF CrashInv, CleanInv, Shape, Brelse, Goto, logVars, bufVars, diskVars, bootVars, procVars
<1>5. PinInv'
  BY <1>1, <1>2
  DEF CrashInv, PinInv, Shape, Brelse, Goto, logVars, bufVars, diskVars, bootVars, procVars
<1>6. HeadInv'
  BY <1>1, <1>2
  DEF CrashInv, HeadInv, Shape, Brelse, Goto, logVars, bufVars, diskVars, bootVars, procVars
<1>7. CopyInv'
  BY <1>1, <1>2
  DEF CrashInv, CopyInv, Contents, Shape, Brelse, Goto, logVars, bufVars, diskVars, bootVars,
      procVars
<1> QED BY <1>3, <1>4, <1>5, <1>6, <1>7 DEF CrashInv

LEMMA StartCommitKeeps ==
  ASSUME IInv, CrashInv, NEW p \in Proc, StartCommit(p)
  PROVE  CrashInv'
<1>1. Shape
  BY ShapeHolds
<1>2. /\ pc[p] = "commit" /\ boot = "up"
      /\ \A q \in Proc : pc[q] \in {"write_log", "install", "clear_head"} => q = p
      /\ \A b \in Block : holder[b] = NoProc
  BY Alone DEF StartCommit, CommitPC
<1>3. OnceInv'
  BY <1>1, <1>2
  DEF CrashInv, OnceInv, Once, Shape, StartCommit, Goto, logVars, bufVars, diskVars,
      bootVars, procVars
<1>4. CleanInv'
  BY <1>1, <1>2
  DEF CrashInv, CleanInv, Shape, StartCommit, Goto, logVars, bufVars, diskVars, bootVars,
      procVars
<1>5. PinInv'
  BY <1>1, <1>2
  DEF CrashInv, PinInv, Shape, StartCommit, Goto, logVars, bufVars, diskVars, bootVars, procVars
<1>6. HeadInv'
  BY <1>1, <1>2
  DEF CrashInv, HeadInv, Shape, StartCommit, Goto, logVars, bufVars, diskVars, bootVars,
      procVars
<1>7. CopyInv'
  BY <1>1, <1>2
  DEF CrashInv, CopyInv, Contents, Shape, StartCommit, Goto, logVars, bufVars, diskVars,
      bootVars, procVars
<1> QED BY <1>3, <1>4, <1>5, <1>6, <1>7 DEF CrashInv

LEMMA WriteLogBlockKeeps ==
  ASSUME IInv, CrashInv, NEW p \in Proc, WriteLogBlock(p)
  PROVE  CrashInv'
<1>1. Shape
  BY ShapeHolds
<1>2. /\ pc[p] = "write_log" /\ boot = "up"
      /\ \A q \in Proc : pc[q] \in {"write_log", "install", "clear_head"} => q = p
      /\ \A b \in Block : holder[b] = NoProc
  BY Alone DEF WriteLogBlock, CommitPC
<1>3. tail[p] \in 1..Len(lh) /\ lh[tail[p]] \in Block /\ tail[p] \in 1..(NLOG - 1)
  BY <1>1, SizeAssumption DEF WriteLogBlock, Shape
<1>4. dhead = <<>>
  BY <1>2 DEF CrashInv, HeadInv
<1>5. /\ cache' = [cache EXCEPT ![lh[tail[p]]] = Contents(lh[tail[p]])]
      /\ UNCHANGED <<lh, dirty, holder, disk, boot, pc>>
  BY DEF WriteLogBlock, logVars, bootVars
<1>6. Contents(lh[tail[p]]) # NotCached
  BY <1>1, <1>3, ValueAssumption DEF Contents, Shape
<1>7. OnceInv'
  BY <1>1, <1>2, <1>3, <1>4, <1>5, <1>6, NoElements
  DEF CrashInv, OnceInv, Once, Shape, WriteLogBlock, logVars, bufVars, diskVars, bootVars,
      procVars
<1>8. CleanInv'
  BY <1>1, <1>2, <1>3, <1>5, <1>6 DEF CrashInv, CleanInv, Contents, Shape
<1>9. PinInv'
  BY <1>1, <1>2, <1>3, <1>5, <1>6 DEF CrashInv, PinInv, Shape
<1>10. HeadInv'
  BY <1>1, <1>2, <1>3, <1>4, <1>5, <1>6, NoElements
  DEF CrashInv, HeadInv, Shape, WriteLogBlock, logVars, bufVars, diskVars, bootVars, procVars
<1>11. CopyInv'
  BY <1>1, <1>2, <1>3, <1>4, <1>5, <1>6, NoElements
  DEF CrashInv, CopyInv, Contents, Shape, WriteLogBlock, logVars, bufVars, diskVars,
      bootVars, procVars
<1> QED BY <1>7, <1>8, <1>9, <1>10, <1>11 DEF CrashInv

LEMMA CommitPointKeeps ==
  ASSUME IInv, CrashInv, NEW p \in Proc, CommitPoint(p)
  PROVE  CrashInv'
<1>1. Shape
  BY ShapeHolds
<1>2. /\ pc[p] = "write_log" /\ boot = "up"
      /\ \A q \in Proc : pc[q] \in {"write_log", "install", "clear_head"} => q = p
      /\ \A b \in Block : holder[b] = NoProc
  BY Alone DEF CommitPoint, CommitPC
<1>3. OnceInv'
  BY <1>1, <1>2
  DEF CrashInv, OnceInv, Once, Shape, CommitPoint, WriteHead, Goto, logVars, bufVars,
      diskVars, bootVars, procVars
<1>4. CleanInv'
  BY <1>1, <1>2
  DEF CrashInv, CleanInv, Shape, CommitPoint, WriteHead, Goto, logVars, bufVars, diskVars,
      bootVars, procVars
<1>5. PinInv'
  BY <1>1, <1>2
  DEF CrashInv, PinInv, Shape, CommitPoint, WriteHead, Goto, logVars, bufVars, diskVars,
      bootVars, procVars
<1>6. HeadInv'
  BY <1>1, <1>2
  DEF CrashInv, HeadInv, Shape, CommitPoint, WriteHead, Goto, logVars, bufVars, diskVars,
      bootVars, procVars
<1>7. CopyInv'
  BY <1>1, <1>2
  DEF CrashInv, CopyInv, Contents, Shape, CommitPoint, WriteHead, Goto, logVars, bufVars,
      diskVars, bootVars, procVars
<1> QED BY <1>3, <1>4, <1>5, <1>6, <1>7 DEF CrashInv

LEMMA CommitInstallKeeps ==
  ASSUME IInv, CrashInv, NEW p \in Proc, CommitInstall(p)
  PROVE  CrashInv'
<1>1. Shape
  BY ShapeHolds
<1>2. /\ pc[p] = "install" /\ boot = "up"
      /\ \A q \in Proc : pc[q] \in {"write_log", "install", "clear_head"} => q = p
      /\ \A b \in Block : holder[b] = NoProc
  BY Alone DEF CommitInstall, CommitPC
<1>3. tail[p] \in 1..Len(lh) /\ lh[tail[p]] \in Block
  BY <1>1 DEF CommitInstall, Shape
<1>4. dlog[tail[p]] \in Value
  BY <1>1, <1>3, SizeAssumption DEF Shape
<1>5. OnceInv'
  BY <1>1, <1>2, <1>3, <1>4, ValueAssumption
  DEF CrashInv, OnceInv, Once, Shape, CommitInstall, InstallBlock, logVars, bufVars,
      diskVars, bootVars, procVars
<1>6. CleanInv'
  BY <1>1, <1>2, <1>3, <1>4, ValueAssumption
  DEF CrashInv, CleanInv, Shape, CommitInstall, InstallBlock, logVars, bufVars, diskVars,
      bootVars, procVars
<1>7. PinInv'
  BY <1>1, <1>2, <1>3, <1>4, ValueAssumption
  DEF CrashInv, PinInv, OnceInv, Once, Shape, CommitInstall, InstallBlock, logVars, bufVars,
      diskVars, bootVars, procVars
<1>8. HeadInv'
  BY <1>1, <1>2, <1>3, <1>4, ValueAssumption
  DEF CrashInv, HeadInv, Shape, CommitInstall, InstallBlock, logVars, bufVars, diskVars,
      bootVars, procVars
<1>9. CopyInv'
  BY <1>1, <1>2, <1>3, <1>4, ValueAssumption
  DEF CrashInv, CopyInv, Contents, OnceInv, Once, Shape, CommitInstall, InstallBlock,
      logVars, bufVars, diskVars, bootVars, procVars
<1> QED BY <1>5, <1>6, <1>7, <1>8, <1>9 DEF CrashInv

LEMMA CommitResetKeeps ==
  ASSUME IInv, CrashInv, NEW p \in Proc, CommitReset(p)
  PROVE  CrashInv'
<1>1. Shape
  BY ShapeHolds
<1>2. /\ pc[p] = "install" /\ boot = "up"
      /\ \A q \in Proc : pc[q] \in {"write_log", "install", "clear_head"} => q = p
      /\ \A b \in Block : holder[b] = NoProc
  BY Alone DEF CommitReset, CommitPC
<1>3. OnceInv'
  BY <1>1, <1>2, NoElements
  DEF CrashInv, OnceInv, Once, Shape, CommitReset, Goto, logVars, bufVars, diskVars,
      bootVars, procVars
<1>4. CleanInv'
  BY <1>1, <1>2, NoElements
  DEF CrashInv, CleanInv, Shape, CommitReset, Goto, logVars, bufVars, diskVars, bootVars,
      procVars
<1>5. PinInv'
  BY <1>1, <1>2, NoElements
  DEF CrashInv, PinInv, Shape, CommitReset, Goto, logVars, bufVars, diskVars, bootVars, procVars
<1>6. HeadInv'
  BY <1>1, <1>2, NoElements
  DEF CrashInv, HeadInv, Shape, CommitReset, Goto, logVars, bufVars, diskVars, bootVars,
      procVars
<1>7. CopyInv'
  BY <1>1, <1>2, NoElements
  DEF CrashInv, CopyInv, Contents, HeadInv, Shape, CommitReset, Goto, logVars, bufVars,
      diskVars, bootVars, procVars
<1> QED BY <1>3, <1>4, <1>5, <1>6, <1>7 DEF CrashInv

LEMMA CommitClearKeeps ==
  ASSUME IInv, CrashInv, NEW p \in Proc, CommitClear(p)
  PROVE  CrashInv'
<1>1. Shape
  BY ShapeHolds
<1>2. /\ pc[p] = "clear_head" /\ boot = "up"
      /\ \A q \in Proc : pc[q] \in {"write_log", "install", "clear_head"} => q = p
      /\ \A b \in Block : holder[b] = NoProc
  BY Alone DEF CommitClear, CommitPC
<1>3. lh = <<>>
  BY <1>2, Emptied
<1>4. OnceInv'
  BY <1>1, <1>2, <1>3, NoElements
  DEF CrashInv, OnceInv, Once, Shape, CommitClear, WriteHead, Goto, logVars, bufVars,
      diskVars, bootVars, procVars
<1>5. CleanInv'
  BY <1>1, <1>2, <1>3, NoElements
  DEF CrashInv, CleanInv, Shape, CommitClear, WriteHead, Goto, logVars, bufVars, diskVars,
      bootVars, procVars
<1>6. PinInv'
  BY <1>1, <1>2, <1>3, NoElements
  DEF CrashInv, PinInv, Shape, CommitClear, WriteHead, Goto, logVars, bufVars, diskVars,
      bootVars, procVars
<1>7. HeadInv'
  BY <1>1, <1>2, <1>3, NoElements
  DEF CrashInv, HeadInv, Shape, CommitClear, WriteHead, Goto, logVars, bufVars, diskVars,
      bootVars, procVars
<1>8. CopyInv'
  BY <1>1, <1>2, <1>3, NoElements
  DEF CrashInv, CopyInv, Contents, Shape, CommitClear, WriteHead, Goto, logVars, bufVars,
      diskVars, bootVars, procVars
<1> QED BY <1>4, <1>5, <1>6, <1>7, <1>8 DEF CrashInv

LEMMA CrashInvInit == Init => CrashInv
<1> SUFFICES ASSUME Init PROVE CrashInv
  OBVIOUS
<1>1. Len(lh) = 0 /\ Len(dhead) = 0 /\ dhead = <<>>
  BY NoElements DEF Init, ColdStart
<1>2. OnceInv
  BY <1>1 DEF OnceInv, Once
<1>3. CleanInv /\ PinInv
  BY DEF Init, ColdStart, CleanInv, PinInv
<1>4. HeadInv /\ CopyInv
  BY <1>1 DEF Init, ColdStart, HeadInv, CopyInv
<1> QED BY <1>2, <1>3, <1>4 DEF CrashInv

LEMMA CrashInvNext ==
  ASSUME IInv, IInv', CrashInv, [Next]_vars
  PROVE  CrashInv'
<1>1. pc \in [Proc -> AllPC] /\ pc' \in [Proc -> AllPC]
  BY DEF IInv, TypeOK, AllPC
<1>2. ASSUME NEW p \in Proc, BeginOp(p) \/ Recheck(p)
      PROVE  CrashInv'
  <2>1. UNCHANGED <<lh, bufVars, diskVars, bootVars, tail>>
    BY <1>2 DEF BeginOp, Recheck, Admit, Wait, logVars
  <2>2. /\ pc[p] \in {"idle", "awake"}
        /\ \E l \in {"op", "sleeping"} : pc' = [pc EXCEPT ![p] = l]
    BY <1>2 DEF BeginOp, Recheck, Admit, Wait, Goto
  <2> QED BY <1>1, <2>1, <2>2, QuietKeeps
<1>3. ASSUME NEW p \in Proc, LogWriteCheck(p)
      PROVE  CrashInv'
  <2>1. UNCHANGED <<lh, bufVars, diskVars, bootVars, tail>>
    BY <1>3 DEF LogWriteCheck, logVars
  <2>2. pc[p] = "modified" /\ (pc' = pc \/ pc' = [pc EXCEPT ![p] = "append"])
    BY <1>3 DEF LogWriteCheck, Goto
  <2> QED BY <1>1, <2>1, <2>2, QuietKeeps
<1>4. ASSUME NEW p \in Proc, EndOp(p)
      PROVE  CrashInv'
  <2>1. UNCHANGED <<lh, bufVars, diskVars, bootVars, tail>>
    BY <1>4 DEF EndOp
  <2>2. /\ pc[p] = "op" /\ pc'[p] \in {"op", "commit", "idle"}
        /\ \A q \in Proc \ {p} : \/ pc'[q] = pc[q]
                                 \/ pc[q] = "sleeping" /\ pc'[q] = "awake"
    BY <1>1, <1>4 DEF EndOp, Goto, WakeupLog, Sleepers
  <2> QED BY <1>1, <2>1, <2>2, QuietKeeps
<1>5. ASSUME NEW p \in Proc, EndCommit(p)
      PROVE  CrashInv'
  <2>1. UNCHANGED <<lh, bufVars, diskVars, bootVars>> /\ \A q \in Proc \ {p} : tail'[q] = tail[q]
    BY <1>5, ShapeHolds DEF EndCommit, Shape
  <2>2. /\ pc[p] = "done" /\ pc'[p] = "idle"
        /\ \A q \in Proc \ {p} : \/ pc'[q] = pc[q]
                                 \/ pc[q] = "sleeping" /\ pc'[q] = "awake"
    BY <1>1, <1>5 DEF EndCommit, WakeupLog, Sleepers
  <2> QED BY <1>1, <2>1, <2>2, QuietKeeps
<1>6. CASE UNCHANGED vars
  BY <1>1, <1>6, QuietKeeps DEF vars, logVars, procVars
<1>7. ASSUME NEW p \in Proc, Commit(p)
      PROVE  CrashInv'
  BY <1>7, StartCommitKeeps, WriteLogBlockKeeps, CommitPointKeeps, CommitInstallKeeps,
     CommitResetKeeps, CommitClearKeeps DEF Commit
<1>8. ASSUME NEW p \in Proc, NEW b \in Block, NEW v \in Value,
             Bread(p, b) \/ Modify(p, b, v) \/ LogWrite(p, b) \/ Brelse(p, b)
      PROVE  CrashInv'
  BY <1>8, BreadKeeps, ModifyKeeps, LogWriteKeeps, BrelseKeeps
<1>9. CASE Crash \/ Recover \/ \E b \in Block : Lookup(b) \/ Evict(b)
  BY <1>9, CrashKeeps, ReadHeadKeeps, RecoverInstallKeeps, RecoverResetKeeps,
     RecoverClearKeeps, LookupKeeps, EvictKeeps DEF Recover
<1>10. Value # {}
  BY ValueAssumption
<1> QED BY <1>2, <1>3, <1>4, <1>5, <1>6, <1>7, <1>8, <1>9, <1>10 DEF Next, Step

\* At each point of a commit, of recovery and of a crash, what has been copied
\* where, what is pinned, and what the header on disk says.
THEOREM CrashInvHolds ==
  ASSUME OpFits
  PROVE  Spec => []CrashInv
<1>1. Init => CrashInv
  BY CrashInvInit
<1>2. IInv /\ IInv' /\ CrashInv /\ [Next]_vars => CrashInv'
  BY CrashInvNext
<1>3. Spec => []IInv
  BY InvariantHolds
<1> QED BY <1>1, <1>2, <1>3, PTL DEF Spec

\* When the last end_op() of a group has returned, all that the group wrote is
\* at home and the header on disk is empty (log.c:143).
THEOREM RestIsDurable ==
  ASSUME OpFits
  PROVE  Spec => []QuiescentDurable
<1>1. IInv /\ CrashInv => QuiescentDurable
  <2> SUFFICES ASSUME IInv, CrashInv, Running, outstanding = 0, ~committing
               PROVE  dhead = <<>> /\ \A b \in Block : Contents(b) = disk[b]
    BY DEF QuiescentDurable
  <2>1. boot = "up" /\ lh = <<>>
    BY DEF Running, IInv, EmptyInv
  <2>2. \A p \in Proc : pc[p] \notin CommitPC
    BY DEF IInv, CommitInv, Committers
  <2>3. dhead = <<>>
    BY <2>1, <2>2 DEF CrashInv, HeadInv, CommitPC
  <2>4. \A p \in Proc : pc[p] \notin InOpPC
    <3>1. IsFiniteSet(Active) /\ Cardinality(Active) = 0
      BY FiniteSets_ DEF IInv, CountInv
    <3>2. Active = {}
      BY <3>1, FS_EmptySet
    <3> QED BY <3>2 DEF Active
  <2>5. \A b \in Block : holder[b] = NoProc
    BY <2>4, ShapeHolds DEF IInv, HoldInv, InOpPC, Shape
  <2>6. dirty = {}
    BY <2>1, NoElements, ShapeHolds DEF CrashInv, PinInv, Shape
  <2>7. \A b \in Block : Contents(b) = disk[b]
    BY <2>5, <2>6 DEF CrashInv, CleanInv, Contents
  <2> QED BY <2>3, <2>7
<1> QED BY <1>1, InvariantHolds, CrashInvHolds, PTL

\* Home blocks change only under a header on disk, the log only under none
\* (log.c:196-200), whatever crashes come in between.
THEOREM LogsBeforeItWrites ==
  ASSUME OpFits
  PROVE  Spec => WriteAhead
<1> DEFINE Ordered == /\ disk' # disk => dhead # <<>>
                      /\ dlog' # dlog => dhead = <<>>
<1>1. IInv /\ CrashInv /\ [Next]_vars => Ordered
  <2> SUFFICES ASSUME IInv, CrashInv, [Next]_vars PROVE Ordered
    OBVIOUS
  <2>0. Shape
    BY ShapeHolds
  <2>1. CASE RecoverInstall
    <3>1. dhead = lh /\ dlog' = dlog
      BY <2>1 DEF RecoverInstall, InstallBlock, CrashInv, HeadInv
    <3>2. Len(lh) # 0
      BY <2>0, <2>1 DEF RecoverInstall, Shape
    <3> QED BY <3>1, <3>2, NoElements
  <2>2. ASSUME NEW p \in Proc, CommitInstall(p) PROVE Ordered
    <3>1. dhead = lh /\ dlog' = dlog
      BY <2>2 DEF CommitInstall, InstallBlock, CrashInv, HeadInv
    <3>2. Len(lh) # 0
      BY <2>0, <2>2 DEF CommitInstall, Shape
    <3> QED BY <3>1, <3>2, NoElements
  <2>3. ASSUME NEW p \in Proc, WriteLogBlock(p) PROVE Ordered
    <3>1. pc[p] = "write_log" /\ disk' = disk
      BY <2>3 DEF WriteLogBlock
    <3>2. /\ boot = "up"
          /\ \A q \in Proc : pc[q] \in {"write_log", "install", "clear_head"} => q = p
      BY <3>1, Alone DEF CommitPC
    <3> QED BY <3>1, <3>2 DEF CrashInv, HeadInv
  <2>4. CASE UNCHANGED <<disk, dlog>>
    BY <2>4
  <2>5. \/ RecoverInstall \/ UNCHANGED <<disk, dlog>>
        \/ \E p \in Proc : CommitInstall(p) \/ WriteLogBlock(p)
    BY DEF Next, vars, diskVars, Crash, Recover, ReadHead, RecoverReset, RecoverClear,
           WriteHead, Lookup, Evict, BeginOp, Recheck, Admit, Wait, Bread, Modify,
           LogWriteCheck, LogWrite, Brelse, EndOp, Step, Commit, StartCommit, CommitPoint,
           CommitReset, CommitClear, EndCommit
  <2> QED BY <2>1, <2>2, <2>3, <2>4, <2>5
<1>2. IInv /\ CrashInv /\ [Next]_vars => [Ordered]_vars
  BY <1>1
<1> QED BY <1>2, InvariantHolds, CrashInvHolds, PTL DEF Spec, WriteAhead

(***************************************************************************)
(* The log implements AtomicDisk.                                          *)
(***************************************************************************)

\* What is on the disk is what the log says, and otherwise what is at home.
LEMMA DurableIs ==
  ASSUME Shape, dhead \in Seq(Block), Once(dhead)
  PROVE  /\ \A i \in 1..Len(dhead) : Durable[dhead[i]] = dlog[i]
         /\ \A b \in Block : (\A i \in 1..Len(dhead) : dhead[i] # b) => Durable[b] = disk[b]
<1>1. DOMAIN dhead = 1..Len(dhead)
  OBVIOUS
<1>2. ASSUME NEW i \in 1..Len(dhead)
      PROVE  Durable[dhead[i]] = dlog[i]
  <2>1. (CHOOSE j \in DOMAIN dhead : dhead[j] = dhead[i]) = i
    BY <1>1 DEF Once
  <2> QED BY <1>1, <2>1 DEF Durable, Shape
<1> QED BY <1>1, <1>2 DEF Durable

\* The same of the next state.
LEMMA DurableIsNext ==
  (Shape /\ dhead \in Seq(Block) /\ Once(dhead))' =>
      (/\ \A i \in 1..Len(dhead) : Durable[dhead[i]] = dlog[i]
       /\ \A b \in Block : (\A i \in 1..Len(dhead) : dhead[i] # b) => Durable[b] = disk[b])'
<1>1. Shape /\ dhead \in Seq(Block) /\ Once(dhead) =>
          /\ \A i \in 1..Len(dhead) : Durable[dhead[i]] = dlog[i]
          /\ \A b \in Block : (\A i \in 1..Len(dhead) : dhead[i] # b) => Durable[b] = disk[b]
  BY DurableIs
<1> QED BY <1>1, PTL

\* With nothing in the log, or with all of it installed, that is at home.
LEMMA DurableAtHome ==
  ASSUME Shape, dhead \in Seq(Block), Once(dhead),
         \A i \in 1..Len(dhead) : disk[dhead[i]] = dlog[i]
  PROVE  Durable = disk
<1>1. ASSUME NEW b \in Block
      PROVE  Durable[b] = disk[b]
  BY DurableIs
<1> QED BY <1>1 DEF Durable, Shape

LEMMA EmptyIsHome ==
  ASSUME Shape, dhead = <<>>
  PROVE  Durable = disk
<1>1. dhead \in Seq(Block) /\ Len(dhead) = 0
  BY NoElements
<1> QED BY <1>1, DurableAtHome DEF Once

\* The same of the next state.
LEMMA EmptyIsHomeNext == (Shape /\ dhead = <<>>)' => (Durable = disk)'
<1>1. Shape /\ dhead = <<>> => Durable = disk
  BY EmptyIsHome
<1> QED BY <1>1, PTL

LEMMA ShapeHoldsNext == IInv' => Shape'
BY ShapeHolds, PTL

\* Installing a block of the log changes neither view.
LEMMA InstallKeepsDurable ==
  ASSUME IInv, CrashInv, NEW t \in 1..Len(lh), InstallBlock(t), dhead = lh
  PROVE  Durable' = Durable
<1>1. Shape
  BY ShapeHolds
<1>2. dhead' = dhead /\ dlog' = dlog /\ disk' = [disk EXCEPT ![dhead[t]] = dlog[t]]
  BY DEF InstallBlock
<1>3. dhead \in Seq(Block) /\ Once(dhead) /\ DOMAIN dhead = 1..Len(dhead)
  <2>1. dhead \in Seq(Block) /\ Once(dhead)
    BY DEF IInv, TypeOK, CrashInv, OnceInv
  <2> QED BY <2>1
<1>4. ASSUME NEW b \in Block, ~\E i \in DOMAIN dhead : dhead[i] = b
      PROVE  disk'[b] = disk[b]
  BY <1>1, <1>2, <1>3, <1>4 DEF Shape
<1> QED BY <1>2, <1>4 DEF Durable

\* A step that shows every block as before, and leaves the disk alone.
LEMMA ViewsKept ==
  ASSUME UNCHANGED <<diskVars, boot>>, \A b \in Block : Contents(b)' = Contents(b)
  PROVE  UNCHANGED <<Visible, Durable>>
<1>1. Durable' = Durable
  BY DEF Durable, diskVars
<1> QED BY <1>1 DEF Visible

LEMMA CacheKept ==
  ASSUME UNCHANGED <<diskVars, boot, cache>>
  PROVE  UNCHANGED <<Visible, Durable>>
<1>1. \A b \in Block : Contents(b)' = Contents(b)
  BY DEF Contents, diskVars
<1> QED BY <1>1, ViewsKept

\* Before the log is up, readers would see what is on the disk.
LEMMA BootView ==
  ASSUME boot # "up"
  PROVE  Visible = Durable
BY DEF Visible, Durable

LEMMA BootViewNext ==
  ASSUME boot' # "up"
  PROVE  Visible' = Durable'
BY DEF Visible, Durable

LEMMA CrashImplements ==
  ASSUME IInv, Crash
  PROVE  Abstract!Crash
<1>1. Durable' = Durable
  BY DEF Crash, Durable, diskVars
<1>2. Visible' = Durable'
  BY BootViewNext DEF Crash
<1>3. Active' = {}
  BY DEF Crash, Active, InOpPC
<1> QED BY <1>1, <1>2, <1>3 DEF Abstract!Crash

LEMMA RecoverImplements ==
  ASSUME IInv, CrashInv, IInv', Recover
  PROVE  UNCHANGED <<Visible, Durable, Active>>
<1>1. Shape /\ Shape'
  BY ShapeHolds, ShapeHoldsNext
<1>2. Active' = Active
  BY DEF Recover, ReadHead, RecoverInstall, RecoverReset, RecoverClear, procVars, Active
<1>3. CASE ReadHead \/ RecoverReset
  <2>1. boot # "up" /\ boot' # "up" /\ UNCHANGED diskVars
    BY <1>3 DEF ReadHead, RecoverReset
  <2>2. Durable' = Durable
    BY <2>1 DEF Durable, diskVars
  <2> QED BY <1>2, <2>1, <2>2, BootView, BootViewNext
<1>4. CASE RecoverInstall
  <2>1. boot # "up" /\ boot' = boot /\ InstallBlock(btail) /\ dhead = lh
    BY <1>4 DEF RecoverInstall, CrashInv, HeadInv
  <2>2. btail \in 1..Len(lh)
    BY <1>1, <1>4 DEF RecoverInstall, Shape
  <2>3. Durable' = Durable
    BY <2>1, <2>2, InstallKeepsDurable
  <2> QED BY <1>2, <2>1, <2>3, BootView, BootViewNext
<1>5. CASE RecoverClear
  <2>1. boot = "clear_head" /\ boot' = "up" /\ UNCHANGED <<disk, cache, dirty, holder>>
    BY <1>5 DEF RecoverClear, WriteHead, bufVars
  <2>2. dhead' = <<>>
    BY <1>5, <2>1, Emptied DEF RecoverClear, WriteHead
  <2>3. Durable = disk
    BY <1>1, <2>1, DurableAtHome DEF IInv, TypeOK, CrashInv, OnceInv, CopyInv
  <2>4. Durable' = disk'
    BY <1>1, <2>2, EmptyIsHomeNext
  <2>5. \A b \in Block : Contents(b)' = disk[b]
    <3>1. \A b \in Block : holder[b] = NoProc /\ b \notin dirty
      BY <2>1, Booting DEF CrashInv, PinInv
    <3> QED BY <2>1, <3>1 DEF CrashInv, CleanInv, Contents
  <2>6. Visible' = disk
    BY <1>1, <2>1, <2>5 DEF Visible, Shape
  <2>7. Visible = Durable
    BY <2>1, BootView
  <2> QED BY <1>2, <2>1, <2>3, <2>4, <2>6, <2>7
<1> QED BY <1>3, <1>4, <1>5 DEF Recover

\* Reading a block, and recycling a buffer, show what was there.
LEMMA CacheImplements ==
  ASSUME IInv, CrashInv, NEW b \in Block,
         Lookup(b) \/ Evict(b) \/ \E p \in Proc : Bread(p, b)
  PROVE  UNCHANGED <<Visible, Durable, Active>>
<1>1. Shape
  BY ShapeHolds
<1>2. UNCHANGED <<diskVars, boot>>
  BY DEF Lookup, Evict, Bread, bootVars
<1>3. Active' = Active
  BY <1>1 DEF Lookup, Evict, Bread, Goto, procVars, Active, InOpPC, Shape
<1>4. CASE Lookup(b) \/ \E p \in Proc : Bread(p, b)
  <2>1. cache' = [cache EXCEPT ![b] = Contents(b)] /\ disk' = disk
    BY <1>4 DEF Lookup, Bread, diskVars
  <2>2. Contents(b) # NotCached
    BY <1>1, ValueAssumption DEF Contents, Shape
  <2>3. \A c \in Block : Contents(c)' = Contents(c)
    BY <1>1, <2>1, <2>2 DEF Contents, Shape
  <2> QED BY <1>2, <1>3, <2>3, ViewsKept
<1>5. CASE Evict(b)
  <2>1. /\ cache' = [cache EXCEPT ![b] = NotCached] /\ disk' = disk
        /\ cache[b] # NotCached /\ holder[b] = NoProc /\ b \notin dirty
    BY <1>5 DEF Evict, diskVars
  <2>2. cache[b] = disk[b]
    BY <2>1 DEF CrashInv, CleanInv
  <2>3. \A c \in Block : Contents(c)' = Contents(c)
    BY <1>1, <2>1, <2>2 DEF Contents, Shape
  <2> QED BY <1>2, <1>3, <2>3, ViewsKept
<1> QED BY <1>4, <1>5

LEMMA AdmitImplements ==
  ASSUME IInv, NEW p \in Proc, BeginOp(p) \/ Recheck(p)
  PROVE  Abstract!Begin(p) \/ UNCHANGED <<Visible, Durable, Active>>
<1>1. Shape
  BY ShapeHolds
<1>2. UNCHANGED <<Visible, Durable>>
  <2>1. UNCHANGED <<diskVars, boot, cache>>
    BY DEF BeginOp, Recheck, Admit, Wait, bufVars, bootVars
  <2> QED BY <2>1, CacheKept
<1>3. pc[p] \in {"idle", "awake"} /\ \E l \in {"op", "sleeping"} : pc' = [pc EXCEPT ![p] = l]
  BY DEF BeginOp, Recheck, Admit, Wait, Goto
<1>4. p \notin Active
  BY <1>3 DEF Active, InOpPC
<1>5. Active' = Active \union {p} \/ Active' = Active
  BY <1>1, <1>3 DEF Active, InOpPC, Shape
<1> QED BY <1>2, <1>4, <1>5 DEF Abstract!Begin

LEMMA ModifyImplements ==
  ASSUME IInv, NEW p \in Proc, NEW b \in Block, NEW v \in Value, Modify(p, b, v)
  PROVE  Abstract!Write(p, b, v)
<1>1. Shape
  BY ShapeHolds
<1>2. /\ boot = "up" /\ boot' = boot /\ UNCHANGED diskVars
      /\ cache' = [cache EXCEPT ![b] = v]
      /\ pc[p] = "bread" /\ pc' = [pc EXCEPT ![p] = "modified"]
  BY DEF Modify, Running, Goto, bootVars
<1>3. p \in Active /\ Active' = Active
  BY <1>1, <1>2 DEF Active, InOpPC, Shape
<1>4. Durable' = Durable
  BY <1>2 DEF Durable, diskVars
<1>5. \A c \in Block : Contents(c)' = IF c = b THEN v ELSE Contents(c)
  BY <1>1, <1>2, ValueAssumption DEF Contents, Shape, diskVars
<1>6. Visible' = [Visible EXCEPT ![b] = v]
  BY <1>2, <1>5 DEF Visible
<1> QED BY <1>3, <1>4, <1>6 DEF Abstract!Write

\* Telling the log, and giving a buffer back.
LEMMA LogWriteImplements ==
  ASSUME IInv, NEW p \in Proc,
         LogWriteCheck(p) \/ \E b \in Block : LogWrite(p, b) \/ Brelse(p, b)
  PROVE  UNCHANGED <<Visible, Durable, Active>>
<1>1. Shape
  BY ShapeHolds
<1>2. UNCHANGED <<diskVars, boot, cache>>
  BY DEF LogWriteCheck, LogWrite, Brelse, bufVars, bootVars
<1>3. pc[p] \in InOpPC /\ (pc' = pc \/ \E l \in InOpPC : pc' = [pc EXCEPT ![p] = l])
  BY DEF LogWriteCheck, LogWrite, Brelse, Goto, InOpPC
<1>4. Active' = Active
  BY <1>1, <1>3 DEF Active, Shape
<1> QED BY <1>2, <1>4, CacheKept

LEMMA EndOpImplements ==
  ASSUME IInv, NEW p \in Proc, EndOp(p)
  PROVE  Abstract!End(p)
<1>1. Shape
  BY ShapeHolds
<1>2. p \in Active
  BY DEF EndOp, Active, InOpPC
<1>3. ~committing
  BY <1>2 DEF IInv, CommitInv
<1>4. UNCHANGED <<Visible, Durable>>
  <2>1. UNCHANGED <<diskVars, boot, cache>>
    BY DEF EndOp, bufVars, bootVars
  <2> QED BY <2>1, CacheKept
<1>5. /\ pc'[p] \in {"commit", "idle"}
      /\ \A q \in Proc \ {p} : pc'[q] = pc[q] \/ (pc[q] = "sleeping" /\ pc'[q] = "awake")
  BY <1>1, <1>3 DEF EndOp, Goto, WakeupLog, Sleepers, Shape
<1>6. Active' = Active \ {p}
  BY <1>5 DEF Active, InOpPC
<1> QED BY <1>2, <1>4, <1>6 DEF Abstract!End

\* The header on disk makes the group durable, all at once.
LEMMA CommitPointImplements ==
  ASSUME IInv, CrashInv, IInv', CrashInv', NEW p \in Proc, CommitPoint(p)
  PROVE  Abstract!Commit
<1>1. Shape /\ Shape'
  BY ShapeHolds, ShapeHoldsNext
<1>2. /\ pc[p] = "write_log" /\ pc' = [pc EXCEPT ![p] = "install"] /\ tail[p] > Len(lh)
      /\ dhead' = lh /\ UNCHANGED <<lh, disk, dlog, cache, dirty, holder, boot>>
  BY DEF CommitPoint, WriteHead, Goto, logVars, bufVars, bootVars
<1>3. /\ boot = "up" /\ Active = {}
      /\ \A q \in Proc : pc[q] \in {"write_log", "install", "clear_head"} => q = p
      /\ \A b \in Block : holder[b] = NoProc
  BY <1>2, Alone DEF CommitPC
<1>4. Active' = Active
  BY <1>1, <1>2 DEF Active, InOpPC, Shape
<1>5. \A b \in Block : Contents(b)' = Contents(b)
  BY <1>2 DEF Contents
<1>6. Visible' = Visible
  BY <1>2, <1>3, <1>5 DEF Visible
<1>7. \A i \in 1..Len(lh) : dlog[i] = Contents(lh[i])
  BY <1>1, <1>2 DEF CrashInv, CopyInv, Shape
<1>8. ASSUME NEW b \in Block, \A i \in 1..Len(lh) : lh[i] # b
      PROVE  Contents(b) = disk[b]
  <2>1. b \notin dirty
    BY <1>3, <1>8 DEF CrashInv, PinInv
  <2> QED BY <1>3, <2>1 DEF CrashInv, CleanInv, Contents
<1>9. ASSUME NEW b \in Block
      PROVE  Durable'[b] = Contents(b)
  <2>1. /\ \A i \in 1..Len(dhead') : Durable'[dhead'[i]] = dlog'[i]
        /\ (\A i \in 1..Len(dhead') : dhead'[i] # b) => Durable'[b] = disk'[b]
    <3>1. dhead' \in Seq(Block) /\ Once(dhead)'
      BY DEF IInv, TypeOK, CrashInv, OnceInv
    <3> QED BY <1>1, <3>1, DurableIsNext
  <2>2. CASE \A i \in 1..Len(lh) : lh[i] # b
    BY <1>2, <1>8, <2>1, <2>2
  <2>3. CASE \E i \in 1..Len(lh) : lh[i] = b
    BY <1>2, <1>7, <2>1, <2>3
  <2> QED BY <2>2, <2>3
<1>10. Durable' = Visible
  BY <1>3, <1>9 DEF Visible, Durable
<1> QED BY <1>3, <1>4, <1>6, <1>10 DEF Abstract!Commit

\* The rest of a commit copies blocks without changing what anybody sees.
LEMMA CommitImplements ==
  ASSUME IInv, CrashInv, IInv', NEW p \in Proc,
         \/ StartCommit(p) \/ WriteLogBlock(p) \/ CommitInstall(p)
         \/ CommitReset(p) \/ CommitClear(p) \/ EndCommit(p)
  PROVE  UNCHANGED <<Visible, Durable, Active>>
<1>1. Shape /\ Shape'
  BY ShapeHolds, ShapeHoldsNext
<1>2. pc[p] \in CommitPC /\ boot = "up" /\ boot' = boot
  <2>1. pc[p] \in CommitPC
    BY DEF StartCommit, WriteLogBlock, CommitInstall, CommitReset, CommitClear, EndCommit,
           CommitPC
  <2>2. boot' = boot
    BY DEF StartCommit, WriteLogBlock, CommitInstall, CommitReset, CommitClear, EndCommit,
           bootVars
  <2> QED BY <2>1, <2>2, Alone
<1>3. /\ Active = {}
      /\ \A q \in Proc : pc[q] \in {"write_log", "install", "clear_head"} => q = p
  BY <1>2, Alone
<1>4. Active' = Active
  <2>1. \A q \in Proc : pc[q] \notin InOpPC
    BY <1>3 DEF Active
  <2>2. \A q \in Proc : pc'[q] = pc[q] \/ pc'[q] \in CommitPC \union {"idle", "awake"}
    BY <1>1 DEF StartCommit, WriteLogBlock, CommitInstall, CommitReset, CommitClear,
                EndCommit, Goto, WakeupLog, CommitPC, Shape
  <2>3. \A q \in Proc : pc'[q] \notin InOpPC
    BY <2>1, <2>2 DEF InOpPC, CommitPC
  <2> QED BY <2>1, <2>3 DEF Active
<1>5. CASE StartCommit(p) \/ CommitReset(p) \/ EndCommit(p)
  <2>1. UNCHANGED <<diskVars, boot, cache>>
    BY <1>5 DEF StartCommit, CommitReset, EndCommit, bufVars, bootVars
  <2> QED BY <1>4, <2>1, CacheKept
<1>6. CASE WriteLogBlock(p)
  <2>1. pc[p] = "write_log" /\ disk' = disk /\ dhead' = dhead
    BY <1>6 DEF WriteLogBlock
  <2>2. cache' = [cache EXCEPT ![lh[tail[p]]] = Contents(lh[tail[p]])]
    BY <1>6 DEF WriteLogBlock
  <2>3. dhead = <<>>
    BY <1>2, <1>3, <2>1 DEF CrashInv, HeadInv
  <2>4. Durable = disk /\ Durable' = disk'
    BY <1>1, <2>1, <2>3, EmptyIsHome, EmptyIsHomeNext
  <2>5. tail[p] \in 1..Len(lh)
    BY <1>1, <1>6 DEF WriteLogBlock, Shape
  <2>6. lh[tail[p]] \in Block
    BY <1>1, <2>5 DEF Shape
  <2>7. Contents(lh[tail[p]]) # NotCached
    BY <1>1, <2>6, ValueAssumption DEF Contents, Shape
  <2>8. \A c \in Block : Contents(c)' = Contents(c)
    BY <1>1, <2>1, <2>2, <2>6, <2>7 DEF Contents, Shape
  <2>9. Visible' = Visible
    BY <1>2, <2>8 DEF Visible
  <2> QED BY <1>4, <2>1, <2>4, <2>9
<1>7. CASE CommitInstall(p)
  <2>1. pc[p] = "install" /\ InstallBlock(tail[p])
    BY <1>7 DEF CommitInstall
  <2>2. tail[p] \in 1..Len(lh)
    BY <1>1, <1>7 DEF CommitInstall, Shape
  <2>3. dhead = lh /\ dlog[tail[p]] = Contents(lh[tail[p]])
    BY <2>1, <2>2 DEF CrashInv, HeadInv, CopyInv
  <2>4. Durable' = Durable
    BY <2>1, <2>2, <2>3, InstallKeepsDurable
  <2>5. lh[tail[p]] \in Block /\ dlog[tail[p]] # NotCached
    <3>1. lh[tail[p]] \in Block /\ tail[p] \in 1..(NLOG - 1)
      BY <1>1, <2>2, SizeAssumption DEF Shape
    <3> QED BY <1>1, <3>1, ValueAssumption DEF Shape
  <2>6. /\ disk' = [disk EXCEPT ![lh[tail[p]]] = dlog[tail[p]]]
        /\ cache' = [cache EXCEPT ![lh[tail[p]]] = dlog[tail[p]]]
    BY <2>1 DEF InstallBlock
  <2>7. \A c \in Block : Contents(c)' = Contents(c)
    BY <1>1, <2>3, <2>5, <2>6 DEF Contents, Shape
  <2>8. Visible' = Visible
    BY <1>2, <2>7 DEF Visible
  <2> QED BY <1>4, <2>4, <2>8
<1>8. CASE CommitClear(p)
  <2>1. pc[p] = "clear_head" /\ dhead' = lh /\ disk' = disk /\ cache' = cache
    BY <1>8 DEF CommitClear, WriteHead, bufVars
  <2>2. dhead' = <<>>
    BY <2>1, Emptied
  <2>3. dhead \in Seq(Block) /\ Once(dhead) /\ \A i \in 1..Len(dhead) : disk[dhead[i]] = dlog[i]
    BY <2>1 DEF IInv, TypeOK, CrashInv, OnceInv, CopyInv
  <2>4. Durable = disk /\ Durable' = disk'
    BY <1>1, <2>2, <2>3, DurableAtHome, EmptyIsHomeNext
  <2>5. \A c \in Block : Contents(c)' = Contents(c)
    BY <2>1 DEF Contents
  <2>6. Visible' = Visible
    BY <1>2, <2>5 DEF Visible
  <2> QED BY <1>4, <2>1, <2>4, <2>6
<1> QED BY <1>5, <1>6, <1>7, <1>8

LEMMA StepImplements ==
  ASSUME IInv, CrashInv, IInv', CrashInv', [Next]_vars
  PROVE  [Abstract!Next]_<<Visible, Durable, Active>>
<1>1. CASE Crash
  BY <1>1, CrashImplements DEF Abstract!Next
<1>2. CASE Recover \/ \E b \in Block : Lookup(b) \/ Evict(b)
  BY <1>2, RecoverImplements, CacheImplements
<1>3. ASSUME NEW p \in Proc, BeginOp(p) \/ Recheck(p)
      PROVE  Abstract!Next \/ UNCHANGED <<Visible, Durable, Active>>
  BY <1>3, AdmitImplements DEF Abstract!Next
<1>4. ASSUME NEW p \in Proc, EndOp(p)
      PROVE  Abstract!Next
  BY <1>4, EndOpImplements DEF Abstract!Next
<1>5. ASSUME NEW p \in Proc, NEW b \in Block, NEW v \in Value, Modify(p, b, v)
      PROVE  Abstract!Next
  BY <1>5, ModifyImplements DEF Abstract!Next
<1>6. ASSUME NEW p \in Proc, NEW b \in Block, Bread(p, b)
      PROVE  UNCHANGED <<Visible, Durable, Active>>
  BY <1>6, CacheImplements
<1>7. ASSUME NEW p \in Proc,
             LogWriteCheck(p) \/ \E b \in Block : LogWrite(p, b) \/ Brelse(p, b)
      PROVE  UNCHANGED <<Visible, Durable, Active>>
  BY <1>7, LogWriteImplements
<1>8. ASSUME NEW p \in Proc, CommitPoint(p)
      PROVE  Abstract!Next
  BY <1>8, CommitPointImplements DEF Abstract!Next
<1>9. ASSUME NEW p \in Proc, Commit(p) \/ EndCommit(p), ~CommitPoint(p)
      PROVE  UNCHANGED <<Visible, Durable, Active>>
  BY <1>9, CommitImplements DEF Commit
<1>10. CASE UNCHANGED vars
  <2>1. UNCHANGED <<diskVars, boot, cache>> /\ Active' = Active
    BY <1>10 DEF vars, bufVars, bootVars, procVars, Active
  <2> QED BY <2>1, CacheKept
<1>11. \/ Crash \/ Recover \/ (\E b \in Block : Lookup(b) \/ Evict(b)) \/ UNCHANGED vars
       \/ \E p \in Proc :
             \/ BeginOp(p) \/ Recheck(p) \/ EndOp(p) \/ LogWriteCheck(p)
             \/ \E b \in Block : \/ Bread(p, b) \/ LogWrite(p, b) \/ Brelse(p, b)
                                \/ \E v \in Value : Modify(p, b, v)
             \/ Commit(p) \/ EndCommit(p)
  BY DEF Next, Step
<1> QED BY <1>1, <1>2, <1>3, <1>4, <1>5, <1>6, <1>7, <1>8, <1>9, <1>10, <1>11

\* Whatever crashes, and however the calls of several processes are grouped,
\* the log is a disk whose writes become durable by whole calls and all at once.
THEOREM LogImplementsAtomicDisk ==
  ASSUME OpFits
  PROVE  Spec => ImplementsAtomicDisk
<1>1. Init => Abstract!Init
  <2> SUFFICES ASSUME Init PROVE Abstract!Init
    OBVIOUS
  <2>1. IInv
    BY InitInv
  <2>2. Shape /\ dhead = <<>> /\ boot # "up"
    BY <2>1, ShapeHolds DEF Init, ColdStart
  <2>3. Durable = disk /\ Visible = Durable /\ disk \in [Block -> Value]
    BY <2>2, EmptyIsHome, BootView DEF Shape
  <2>4. Active = {}
    BY DEF Init, ColdStart, Active, InOpPC
  <2> QED BY <2>3, <2>4 DEF Abstract!Init
<1>2. IInv /\ CrashInv /\ IInv' /\ CrashInv' /\ [Next]_vars =>
          [Abstract!Next]_<<Visible, Durable, Active>>
  BY StepImplements
<1> QED BY <1>1, <1>2, InvariantHolds, CrashInvHolds, PTL
       DEF Spec, ImplementsAtomicDisk, Abstract!Spec, Abstract!vars
=============================================================================
