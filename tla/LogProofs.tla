----------------------------- MODULE LogProofs -----------------------------
(***************************************************************************)
(* Proofs about Log for every number of processes and blocks and for every *)
(* size of the log: type correctness, and that the reservation made by     *)
(* begin_op() keeps every panic of log.c out of reach.                     *)
(***************************************************************************)
EXTENDS Log, FiniteSetTheorems, SequenceTheorems, TLAPS

AllPC == InOpPC \union CommitPC \union {"idle", "sleeping", "awake"}

(***************************************************************************)
(* Sets of processes, and the entries that calls in progress may fill.     *)
(***************************************************************************)

\* The sets that IInv counts are finite, so their cardinalities are numbers.
LEMMA FiniteSets_ ==
  ASSUME WroteInv
  PROVE  /\ IsFiniteSet(Active) /\ Cardinality(Active) \in Nat
         /\ IsFiniteSet(Unused) /\ Cardinality(Unused) \in Nat
         /\ \A p \in Proc : Cardinality(wrote[p]) \in Nat
<1>1. IsFiniteSet(Active)
  <2>1. Active \in SUBSET Proc
    BY DEF Active
  <2> QED BY <2>1, ProcAssumption, FS_Subset
<1>2. IsFiniteSet(1..MAXOPBLOCKS)
  BY SizeAssumption, FS_Interval
<1>3. IsFiniteSet(Active \X (1..MAXOPBLOCKS))
  BY <1>1, <1>2, FS_Product
<1>4. IsFiniteSet(Unused)
  <2>1. Unused \in SUBSET (Active \X (1..MAXOPBLOCKS))
    BY DEF Unused
  <2> QED BY <2>1, <1>3, FS_Subset
<1>5. \A p \in Proc : Cardinality(wrote[p]) \in Nat
  BY FS_CardinalityType DEF WroteInv
<1> QED BY <1>1, <1>4, <1>5, FS_CardinalityType

\* Lengths are numbers.
LEMMA Lengths ==
  ASSUME TypeOK
  PROVE  Len(lh) \in Nat /\ Len(dhead) \in Nat
<1>1. lh \in Seq(Block) /\ dhead \in Seq(Block)
  BY DEF TypeOK
<1> QED BY <1>1

\* The reservation at work: a process inside a call finds the header no longer
\* than what its own unused entries leave of it.
LEMMA Room ==
  ASSUME IInv, NEW p \in Proc, p \in Active
  PROVE  Len(lh) + MAXOPBLOCKS - Cardinality(wrote[p]) <= LOGSIZE
<1> DEFINE c == Cardinality(wrote[p])
           T == {p} \X (c + 1 .. MAXOPBLOCKS)
<1>1. c \in Nat /\ IsFiniteSet(Unused) /\ Cardinality(Unused) \in Nat
  BY FiniteSets_ DEF IInv
<1>2. c + 1 \in Int /\ MAXOPBLOCKS \in Int
  BY <1>1, SizeAssumption
<1>3. /\ IsFiniteSet(c + 1 .. MAXOPBLOCKS)
      /\ Cardinality(c + 1 .. MAXOPBLOCKS) =
            IF c + 1 > MAXOPBLOCKS THEN 0 ELSE MAXOPBLOCKS - (c + 1) + 1
  BY <1>2, FS_Interval
<1>4. IsFiniteSet({p}) /\ Cardinality({p}) = 1
  BY FS_Singleton
<1>5. Cardinality(T) = 1 * Cardinality(c + 1 .. MAXOPBLOCKS)
  BY <1>3, <1>4, FS_Product
<1>6. T \in SUBSET Unused
  <2> SUFFICES ASSUME NEW i \in c + 1 .. MAXOPBLOCKS
               PROVE  <<p, i>> \in Unused
    OBVIOUS
  <2>1. i \in 1..MAXOPBLOCKS /\ i > c
    BY <1>1, SizeAssumption
  <2> QED BY <2>1 DEF Unused
<1>7. Cardinality(T) <= Cardinality(Unused)
  BY <1>1, <1>6, FS_Subset
<1>8. Len(lh) \in Nat /\ Len(lh) + Cardinality(Unused) <= LOGSIZE
  BY Lengths DEF IInv, SpaceInv
<1>9. Cardinality(T) >= MAXOPBLOCKS - c
  BY <1>1, <1>3, <1>5, SizeAssumption
<1> QED BY <1>1, <1>7, <1>8, <1>9, SizeAssumption, FS_CardinalityType, <1>3, <1>5

\* The unlocked test at the head of log_write() never fires.
LEMMA NotTooBig ==
  ASSUME IInv, OpFits, NEW p \in Proc, p \in Active
  PROVE  ~TooBig /\ outstanding >= 1
<1>1. Cardinality(wrote[p]) \in Nat /\ Cardinality(wrote[p]) <= OpMax
  BY FiniteSets_ DEF IInv, WroteInv
<1>2. Len(lh) + MAXOPBLOCKS - Cardinality(wrote[p]) <= LOGSIZE
  BY Room
<1>3. ~TooBig
  <2>1. Len(lh) \in Nat
    BY Lengths DEF IInv
  <2> QED BY <1>1, <1>2, <2>1, SizeAssumption DEF OpFits, TooBig
<1>4. IsFiniteSet(Active) /\ Cardinality(Active) \in Nat
  BY FiniteSets_ DEF IInv
<1>5. Cardinality(Active) # 0
  BY <1>4, FS_EmptySet
<1> QED BY <1>3, <1>4, <1>5 DEF IInv, CountInv

(***************************************************************************)
(* Every step preserves the types.                                         *)
(***************************************************************************)
LEMMA TypeStep ==
  ASSUME IInv, OpFits, [Next]_vars
  PROVE  TypeOK'
<1> USE DEF logVars, bufVars, diskVars, bootVars, procVars
<1>0. TypeOK /\ Len(lh) \in Nat
  BY Lengths DEF IInv
<1>a. lh \in Seq(Block) /\ <<>> \in Seq(Block)
  BY <1>0, EmptySeq DEF TypeOK
<1>b. dlog \in [1..(NLOG - 1) -> Value] /\ Len(lh) <= NLOG - 1
  BY DEF IInv, TypeOK, SpaceInv
<1>c. \A t \in 1..Len(lh) : lh[t] \in Block
  BY <1>a, ElementOfSeq
<1>d. \A t \in 1..Len(lh) : dlog[t] \in Value
  BY <1>0, <1>b, SizeAssumption
<1>e. \A b \in Block : Append(lh, b) \in Seq(Block)
  BY <1>a, AppendProperties
<1>f. /\ tail \in [Proc -> Nat \ {0}] /\ \A p \in Proc : tail[p] \in Nat /\ tail[p] >= 1
      /\ btail \in Nat /\ btail >= 1 /\ btail + 1 \in Nat \ {0}
      /\ outstanding \in Nat /\ outstanding + 1 \in Nat
  <2>1. tail \in [Proc -> Nat \ {0}] /\ btail \in Nat \ {0} /\ outstanding \in Nat
    BY <1>0 DEF TypeOK
  <2> QED BY <2>1
<1>g. \A p \in Proc : /\ [tail EXCEPT ![p] = 1] \in [Proc -> Nat \ {0}]
                      /\ [tail EXCEPT ![p] = @ + 1] \in [Proc -> Nat \ {0}]
  BY <1>f
<1>1. CASE Crash
  <2>1. [p \in Proc |-> 1] \in [Proc -> Nat \ {0}]
    OBVIOUS
  <2>2. [p \in Proc |-> {}] \in [Proc -> SUBSET Block]
    OBVIOUS
  <2>3. [p \in Proc |-> "idle"] \in
            [Proc -> InOpPC \union CommitPC \union {"idle", "sleeping", "awake"}]
    OBVIOUS
  <2>4. 0 \in Nat /\ 1 \in Nat \ {0}
    OBVIOUS
  <2>5. /\ outstanding' \in Nat /\ committing' \in BOOLEAN /\ lh' \in Seq(Block)
        /\ boot' \in {"read_head", "install", "clear_head", "up"} /\ btail' \in Nat \ {0}
        /\ panic' \in {"none", "too big a transaction", "log_write outside of trans",
                       "log.committing"}
    BY <1>a, <1>1, <2>4 DEF Crash
  <2>6. /\ cache' \in [Block -> Value \union {NotCached}]
        /\ holder' \in [Block -> Proc \union {NoProc}]
        /\ dirty' \subseteq Block
    BY <1>1 DEF Crash
  <2>7. disk' \in [Block -> Value] /\ dlog' \in [1..(NLOG - 1) -> Value] /\ dhead' \in Seq(Block)
    BY <1>0, <1>1 DEF TypeOK, Crash
  <2>8. /\ pc' \in [Proc -> InOpPC \union CommitPC \union {"idle", "sleeping", "awake"}]
        /\ wrote' \in [Proc -> SUBSET Block] /\ tail' \in [Proc -> Nat \ {0}]
    BY <1>1, <2>1, <2>2, <2>3 DEF Crash
  <2> QED BY <2>5, <2>6, <2>7, <2>8 DEF TypeOK
<1>2. CASE ReadHead
  BY <1>0, <1>2 DEF TypeOK, ReadHead
<1>3. ASSUME NEW t \in 1..Len(lh), InstallBlock(t)
      PROVE  /\ cache' \in [Block -> Value \union {NotCached}]
             /\ dirty' \subseteq Block
             /\ disk' \in [Block -> Value]
             /\ dlog' = dlog /\ dhead' = dhead
  BY <1>0, <1>c, <1>d, <1>3 DEF TypeOK, InstallBlock
<1>4. CASE RecoverInstall
  <2>1. btail \in 1..Len(lh)
    BY <1>0, <1>f, <1>4 DEF RecoverInstall
  <2> QED BY <1>0, <1>3, <1>f, <1>4, <2>1 DEF TypeOK, RecoverInstall
<1>5. CASE RecoverReset
  BY <1>0, <1>a, <1>5 DEF TypeOK, RecoverReset
<1>6. CASE RecoverClear
  BY <1>0, <1>6 DEF TypeOK, RecoverClear, WriteHead
<1>7. \A b \in Block : Contents(b) \in Value
  BY <1>0 DEF TypeOK, Contents
<1>8. ASSUME NEW b \in Block, Lookup(b)
      PROVE  TypeOK'
  BY <1>0, <1>7, <1>8 DEF TypeOK, Lookup
<1>9. ASSUME NEW b \in Block, Evict(b)
      PROVE  TypeOK'
  BY <1>0, <1>9 DEF TypeOK, Evict
<1>10. ASSUME NEW p \in Proc, Admit(p)
       PROVE  TypeOK'
  BY <1>0, <1>f, <1>10 DEF TypeOK, Admit, Goto, InOpPC
<1>11. ASSUME NEW p \in Proc, Wait(p)
       PROVE  TypeOK'
  BY <1>0, <1>11 DEF TypeOK, Wait, Goto
<1>12. ASSUME NEW p \in Proc, NEW b \in Block, Bread(p, b)
       PROVE  TypeOK'
  BY <1>0, <1>7, <1>12 DEF TypeOK, Bread, Goto, InOpPC
<1>13. ASSUME NEW p \in Proc, NEW b \in Block, NEW v \in Value, Modify(p, b, v)
       PROVE  TypeOK'
  BY <1>0, <1>13 DEF TypeOK, Modify, Goto, InOpPC
<1>14. ASSUME NEW p \in Proc, LogWriteCheck(p)
       PROVE  TypeOK'
  BY <1>0, <1>14 DEF TypeOK, LogWriteCheck, Goto, InOpPC
<1>15. ASSUME NEW p \in Proc, NEW b \in Block, LogWrite(p, b)
       PROVE  TypeOK'
  BY <1>0, <1>e, <1>15 DEF TypeOK, LogWrite, Goto, InOpPC
<1>16. ASSUME NEW p \in Proc, NEW b \in Block, Brelse(p, b)
       PROVE  TypeOK'
  BY <1>0, <1>16 DEF TypeOK, Brelse, Goto, InOpPC
<1>17. ASSUME NEW p \in Proc, EndOp(p)
       PROVE  TypeOK'
  <2>1. p \in Active
    BY <1>17 DEF EndOp, Active, InOpPC
  <2>2. outstanding - 1 \in Nat
    BY <1>f, <2>1, NotTooBig
  <2>3. pc' \in [Proc -> InOpPC \union CommitPC \union {"idle", "sleeping", "awake"}]
    BY <1>0, <1>17 DEF TypeOK, EndOp, WakeupLog, Goto, CommitPC
  <2>4. wrote' \in [Proc -> SUBSET Block]
    BY <1>0, <1>17 DEF TypeOK, EndOp
  <2> QED BY <1>0, <1>17, <2>2, <2>3, <2>4 DEF TypeOK, EndOp
<1>18. ASSUME NEW p \in Proc, StartCommit(p)
       PROVE  TypeOK'
  BY <1>0, <1>g, <1>18 DEF TypeOK, StartCommit, Goto, CommitPC
<1>19. ASSUME NEW p \in Proc, WriteLogBlock(p)
       PROVE  TypeOK'
  <2>1. tail[p] \in 1..Len(lh)
    BY <1>0, <1>f, <1>19 DEF WriteLogBlock
  <2>2. lh[tail[p]] \in Block
    BY <1>c, <2>1
  <2> QED BY <1>0, <1>7, <1>g, <1>19, <2>1, <2>2 DEF TypeOK, WriteLogBlock
<1>20. ASSUME NEW p \in Proc, CommitPoint(p)
       PROVE  TypeOK'
  BY <1>0, <1>g, <1>20 DEF TypeOK, CommitPoint, WriteHead, Goto, CommitPC
<1>21. ASSUME NEW p \in Proc, CommitInstall(p)
       PROVE  TypeOK'
  <2>1. tail[p] \in 1..Len(lh)
    BY <1>0, <1>f, <1>21 DEF CommitInstall
  <2> QED BY <1>0, <1>3, <1>g, <1>21, <2>1 DEF TypeOK, CommitInstall
<1>22. ASSUME NEW p \in Proc, CommitReset(p)
       PROVE  TypeOK'
  BY <1>0, <1>a, <1>22 DEF TypeOK, CommitReset, Goto, CommitPC
<1>23. ASSUME NEW p \in Proc, CommitClear(p)
       PROVE  TypeOK'
  BY <1>0, <1>23 DEF TypeOK, CommitClear, WriteHead, Goto, CommitPC
<1>24. ASSUME NEW p \in Proc, EndCommit(p)
       PROVE  TypeOK'
  BY <1>0, <1>g, <1>24 DEF TypeOK, EndCommit, WakeupLog
<1>25. CASE UNCHANGED vars
  BY <1>0, <1>25 DEF TypeOK, vars
<1> QED BY <1>1, <1>2, <1>4, <1>5, <1>6, <1>8, <1>9, <1>10, <1>11, <1>12, <1>13, <1>14,
           <1>15, <1>16, <1>17, <1>18, <1>19, <1>20, <1>21, <1>22, <1>23, <1>24, <1>25
        DEF Next, Recover, BeginOp, Recheck, Step, Commit

(***************************************************************************)
(* Every step preserves the rest of the invariant.                         *)
(***************************************************************************)
PhaseInv == NoPanic /\ NoForgottenSleeper /\ CountInv /\ BootInv /\ CommitInv /\ SpaceInv
DataInv == HoldInv /\ WroteInv /\ EmptyInv

\* A step that changes only cached data, home or log blocks, or a tail.
LEMMA Frame ==
  ASSUME IInv, UNCHANGED <<logVars, holder, dhead, boot, pc, wrote, panic>>
  PROVE  PhaseInv' /\ DataInv'
<1> USE DEF logVars
<1>1. Active' = Active /\ Committers' = Committers /\ Sleepers' = Sleepers
  BY DEF Active, Committers, Sleepers
<1>2. Unused' = Unused /\ Logged' = Logged
  BY <1>1 DEF Unused, Logged
<1>3. PhaseInv'
  BY <1>1, <1>2 DEF IInv, PhaseInv, NoPanic, NoForgottenSleeper, CountInv, BootInv,
                    CommitInv, SpaceInv
<1>4. HoldInv'
  BY DEF IInv, HoldInv
<1>5. WroteInv'
  BY <1>1, <1>2 DEF IInv, WroteInv
<1>6. EmptyInv'
  BY DEF IInv, EmptyInv
<1> QED BY <1>3, <1>4, <1>5, <1>6 DEF DataInv

\* A step that moves a process on inside its call, or inside its commit.
LEMMA Move ==
  ASSUME IInv, NEW p \in Proc, NEW l,
         pc' = [pc EXCEPT ![p] = l],
         (p \in Active /\ l \in InOpPC) \/ (p \in Committers /\ l \in CommitPC),
         lh' \in {lh, <<>>}, dhead' \in {dhead, lh, <<>>},
         UNCHANGED <<outstanding, committing, boot, wrote, panic>>
  PROVE  PhaseInv' /\ Active' = Active /\ Committers' = Committers
<1>0. pc \in [Proc -> AllPC]
  BY DEF IInv, TypeOK, AllPC
<1>1. Active' = Active /\ Committers' = Committers /\ Sleepers' = Sleepers
  BY <1>0 DEF Active, Committers, Sleepers, InOpPC, CommitPC
<1>2. Unused' = Unused
  BY <1>1 DEF Unused
<1>3. NoPanic' /\ NoForgottenSleeper' /\ CountInv' /\ CommitInv'
  BY <1>1 DEF IInv, NoPanic, NoForgottenSleeper, CountInv, CommitInv
<1>4. BootInv'
  BY DEF IInv, BootInv, Active, Committers, InOpPC, CommitPC
<1>5. SpaceInv'
  <2>1. Len(<<>>) = 0
    OBVIOUS
  <2>2. Len(lh) \in Nat /\ Len(dhead) \in Nat /\ Cardinality(Unused) \in Nat
    BY Lengths, FiniteSets_ DEF IInv
  <2>3. Len(lh') <= Len(lh)
    BY <2>1, <2>2
  <2>4. Len(dhead') \in {Len(dhead), Len(lh), 0}
    BY <2>1
  <2>5. SpaceInv /\ Len(lh') \in Nat
    BY <2>1, <2>2 DEF IInv
  <2> QED BY <1>2, <2>2, <2>3, <2>4, <2>5, SizeAssumption DEF SpaceInv
<1> QED BY <1>1, <1>3, <1>4, <1>5 DEF PhaseInv

\* A step of the machine: a crash, recovery, or the buffer cache.
LEMMA MachineStep ==
  ASSUME IInv, Crash \/ Recover \/ \E b \in Block : Lookup(b) \/ Evict(b)
  PROVE  PhaseInv' /\ DataInv'
<1> USE DEF logVars, bufVars, diskVars, bootVars, procVars
<1>0. /\ Len(lh) \in Nat /\ Len(dhead) \in Nat /\ Len(<<>>) = 0
      /\ Len(lh) <= NLOG - 1 /\ Len(dhead) <= LOGSIZE /\ Len(dhead) <= NLOG - 1
      /\ Len(lh) <= LOGSIZE
  <2>1. Len(lh) \in Nat /\ Len(dhead) \in Nat /\ Cardinality(Unused) \in Nat
    BY Lengths, FiniteSets_ DEF IInv
  <2>2. SpaceInv
    BY DEF IInv
  <2> QED BY <2>1, <2>2, SizeAssumption DEF SpaceInv
\* While nobody runs, no entry is reserved and nobody holds a buffer.
<1>1. ASSUME outstanding' = 0, committing' = FALSE, pc' = [p \in Proc |-> "idle"],
             wrote' = [p \in Proc |-> {}], holder' = [b \in Block |-> NoProc],
             panic' = "none", boot' # "up",
             Len(lh') <= LOGSIZE, Len(lh') <= NLOG - 1, Len(lh') \in Nat,
             Len(dhead') <= LOGSIZE, Len(dhead') <= NLOG - 1,
             boot' = "clear_head" => lh' = <<>>
      PROVE  PhaseInv' /\ DataInv'
  <2>1. Active' = {} /\ Committers' = {} /\ Sleepers' = {}
    BY <1>1 DEF Active, Committers, Sleepers, InOpPC, CommitPC
  <2>2. Unused' = {}
    BY <2>1 DEF Unused
  <2>3. Cardinality({}) = 0 /\ IsFiniteSet({})
    BY FS_EmptySet
  <2>4. NoPanic' /\ NoForgottenSleeper' /\ CountInv' /\ BootInv' /\ CommitInv'
    BY <1>1, <2>1, <2>3 DEF NoPanic, NoForgottenSleeper, CountInv, BootInv, CommitInv
  <2>5. SpaceInv'
    BY <1>1, <2>2, <2>3, SizeAssumption DEF SpaceInv
  <2>6. HoldInv'
    BY <1>1 DEF HoldInv
  <2>7. WroteInv'
    BY <1>1, <2>3, SizeAssumption DEF WroteInv
  <2>8. EmptyInv'
    BY <1>1 DEF EmptyInv
  <2> QED BY <2>4, <2>5, <2>6, <2>7, <2>8 DEF PhaseInv, DataInv
<1>2. CASE Crash
  <2>1. /\ outstanding' = 0 /\ committing' = FALSE /\ pc' = [p \in Proc |-> "idle"]
        /\ wrote' = [p \in Proc |-> {}] /\ holder' = [b \in Block |-> NoProc]
        /\ panic' = "none" /\ boot' = "read_head" /\ lh' = <<>> /\ dhead' = dhead
    BY <1>2 DEF Crash
  <2>2. Len(lh') <= LOGSIZE /\ Len(lh') <= NLOG - 1 /\ Len(lh') \in Nat
    BY <1>0, <2>1, SizeAssumption
  <2> QED BY <1>0, <1>1, <2>1, <2>2
<1>3. ASSUME boot # "up"
      PROVE  /\ outstanding = 0 /\ committing = FALSE /\ pc = [p \in Proc |-> "idle"]
             /\ wrote = [p \in Proc |-> {}] /\ holder = [b \in Block |-> NoProc]
             /\ panic = "none"
  <2>1. committing = FALSE /\ \A p \in Proc : pc[p] = "idle"
    BY <1>3 DEF IInv, BootInv, TypeOK
  <2>2. Active = {}
    BY <2>1 DEF Active, InOpPC
  <2>3. outstanding = 0
    BY <2>2, FS_EmptySet DEF IInv, CountInv
  <2>4. \A b \in Block : holder[b] = NoProc
    BY <2>1 DEF IInv, HoldInv, TypeOK
  <2>5. \A p \in Proc : wrote[p] = {}
    BY <2>2 DEF IInv, WroteInv
  <2>6. /\ pc = [p \in Proc |-> pc[p]] /\ wrote = [p \in Proc |-> wrote[p]]
        /\ holder = [b \in Block |-> holder[b]]
    BY DEF IInv, TypeOK
  <2> QED BY <2>1, <2>3, <2>4, <2>5, <2>6 DEF IInv, NoPanic
<1>4. CASE ReadHead
  BY <1>0, <1>1, <1>3, <1>4 DEF ReadHead
<1>5. CASE RecoverInstall
  BY <1>5, Frame DEF RecoverInstall, InstallBlock
<1>6. CASE RecoverReset
  BY <1>0, <1>1, <1>3, <1>6, SizeAssumption DEF RecoverReset
<1>7. CASE RecoverClear
  <2>1. outstanding = 0 /\ ~committing /\ lh = <<>> /\ boot = "clear_head"
    BY <1>3, <1>7 DEF RecoverClear, IInv, EmptyInv
  <2>2. Active' = Active /\ Committers' = Committers /\ Sleepers' = Sleepers
    BY <1>7 DEF RecoverClear, Active, Committers, Sleepers
  <2>3. Unused' = Unused /\ Logged' = Logged
    BY <1>7, <2>2 DEF RecoverClear, Unused, Logged
  <2>4. NoPanic' /\ NoForgottenSleeper' /\ CountInv' /\ CommitInv' /\ BootInv'
    BY <1>7, <2>2 DEF RecoverClear, IInv, NoPanic, NoForgottenSleeper, CountInv, CommitInv,
                      BootInv
  <2>5. SpaceInv'
    BY <1>0, <1>7, <2>3 DEF RecoverClear, WriteHead, IInv, SpaceInv
  <2>6. HoldInv' /\ WroteInv'
    BY <1>7, <2>2, <2>3 DEF RecoverClear, IInv, HoldInv, WroteInv
  <2>7. EmptyInv'
    BY <1>7, <2>1 DEF RecoverClear, IInv, EmptyInv
  <2> QED BY <2>4, <2>5, <2>6, <2>7 DEF PhaseInv, DataInv
<1>8. ASSUME NEW b \in Block, Lookup(b) \/ Evict(b)
      PROVE  PhaseInv' /\ DataInv'
  BY <1>8, Frame DEF Lookup, Evict
<1> QED BY <1>2, <1>4, <1>5, <1>6, <1>7, <1>8 DEF Recover

\* begin_op(): a process is admitted or goes to sleep.
LEMMA BeginStep ==
  ASSUME IInv, OpFits, NEW p \in Proc, BeginOp(p) \/ Recheck(p)
  PROVE  PhaseInv' /\ DataInv'
<1> USE DEF logVars, bufVars, diskVars, bootVars, procVars
<1>0. /\ pc \in [Proc -> AllPC] /\ p \notin Active /\ p \notin Committers
      /\ pc[p] \in {"idle", "awake"} /\ boot = "up" /\ wrote[p] = {}
  BY DEF IInv, TypeOK, AllPC, BeginOp, Recheck, Running, Active, Committers, InOpPC,
         CommitPC, WroteInv
<1>1. /\ Len(lh) \in Nat /\ outstanding \in Nat /\ IsFiniteSet(Active)
      /\ outstanding = Cardinality(Active)
  BY Lengths, FiniteSets_ DEF IInv, TypeOK, CountInv
<1>2. CASE Admit(p)
  <2>1. /\ Active' = Active \union {p} /\ Committers' = Committers /\ Sleepers' = Sleepers
    BY <1>0, <1>2 DEF Admit, Goto, Active, Committers, Sleepers, InOpPC, CommitPC
  <2>2. ~committing /\ Len(lh) + (outstanding + 1) * MAXOPBLOCKS <= LOGSIZE
    BY <1>1, <1>2, SizeAssumption DEF Admit, MustWait
  <2>3. IsFiniteSet(Active') /\ Cardinality(Active') = outstanding + 1
    BY <1>0, <1>1, <2>1, FS_AddElement
  <2>4. CountInv'
    BY <1>2, <2>3 DEF Admit, CountInv
  <2>5. NoPanic' /\ NoForgottenSleeper' /\ CommitInv' /\ BootInv'
    BY <1>0, <1>1, <1>2, <2>1, <2>2 DEF Admit, Goto, IInv, NoPanic, NoForgottenSleeper,
                                        CommitInv, BootInv
  <2>6. SpaceInv'
    <3>1. Unused' \in SUBSET (Active' \X (1..MAXOPBLOCKS))
      BY DEF Unused
    <3>2. /\ IsFiniteSet(1..MAXOPBLOCKS)
          /\ Cardinality(1..MAXOPBLOCKS) = MAXOPBLOCKS
      BY FS_Interval, SizeAssumption
    <3>3. /\ IsFiniteSet(Active' \X (1..MAXOPBLOCKS))
          /\ Cardinality(Active' \X (1..MAXOPBLOCKS)) = (outstanding + 1) * MAXOPBLOCKS
      BY <2>3, <3>2, FS_Product
    <3>4. /\ Cardinality(Unused') <= (outstanding + 1) * MAXOPBLOCKS
          /\ Cardinality(Unused') \in Nat
      BY <3>1, <3>3, FS_Subset, FS_CardinalityType
    <3>5. lh' = lh /\ dhead' = dhead /\ SpaceInv
      BY <1>2 DEF Admit, IInv
    <3>6. (outstanding + 1) * MAXOPBLOCKS \in Nat
      BY <1>1, SizeAssumption
    <3>7. Len(lh) + Cardinality(Unused') <= LOGSIZE
      BY <1>1, <2>2, <3>4, <3>6, SizeAssumption
    <3> QED BY <3>5, <3>7 DEF SpaceInv
  <2>7. HoldInv'
    BY <1>0, <1>2 DEF Admit, Goto, IInv, HoldInv, TypeOK
  <2>8. WroteInv'
    <3>1. Logged' = Logged
      BY <1>2 DEF Admit, Logged
    <3> QED BY <1>0, <1>2, <2>1, <3>1 DEF Admit, Goto, IInv, WroteInv
  <2>9. EmptyInv'
    BY <1>0, <1>1, <1>2 DEF Admit, Goto, IInv, EmptyInv
  <2> QED BY <2>4, <2>5, <2>6, <2>7, <2>8, <2>9 DEF PhaseInv, DataInv
<1>3. CASE Wait(p)
  <2>1. /\ Active' = Active /\ Committers' = Committers
    BY <1>0, <1>3 DEF Wait, Goto, Active, Committers, InOpPC, CommitPC
  <2>2. Unused' = Unused /\ Logged' = Logged
    BY <1>3, <2>1 DEF Wait, Unused, Logged
  <2>3. outstanding > 0 \/ committing
    <3> SUFFICES ASSUME outstanding = 0, ~committing PROVE FALSE
      BY <1>1
    <3>1. lh = <<>>
      BY <1>0 DEF IInv, EmptyInv
    <3>2. Len(lh) = 0
      BY <3>1
    <3> QED BY <1>3, <3>2, SizeAssumption DEF Wait, MustWait
  <2>4. NoPanic' /\ NoForgottenSleeper' /\ CountInv' /\ CommitInv' /\ BootInv'
    BY <1>0, <1>3, <2>1, <2>3 DEF Wait, Goto, IInv, NoPanic, NoForgottenSleeper, CountInv,
                                  CommitInv, BootInv
  <2>5. SpaceInv'
    BY <1>3, <2>2 DEF Wait, IInv, SpaceInv
  <2>6. HoldInv'
    BY <1>0, <1>3 DEF Wait, Goto, IInv, HoldInv, TypeOK
  <2>7. WroteInv'
    BY <1>0, <1>3, <2>1, <2>2 DEF Wait, Goto, IInv, WroteInv
  <2>8. EmptyInv'
    BY <1>0, <1>3 DEF Wait, Goto, IInv, EmptyInv
  <2> QED BY <2>4, <2>5, <2>6, <2>7, <2>8 DEF PhaseInv, DataInv
<1> QED BY <1>2, <1>3 DEF BeginOp, Recheck

\* The steps of a call between begin_op() and end_op().
LEMMA CallStep ==
  ASSUME IInv, OpFits, NEW p \in Proc,
         \/ LogWriteCheck(p)
         \/ \E b \in Block : \/ Bread(p, b) \/ LogWrite(p, b) \/ Brelse(p, b)
                             \/ \E v \in Value : Modify(p, b, v)
  PROVE  PhaseInv' /\ DataInv'
<1> USE DEF logVars, bufVars, diskVars, bootVars, procVars
<1>0. /\ pc \in [Proc -> AllPC] /\ holder \in [Block -> Proc \union {NoProc}]
      /\ wrote \in [Proc -> SUBSET Block]
      /\ pc[p] \in InOpPC /\ p \in Active /\ p \notin Committers /\ boot = "up"
  BY DEF IInv, TypeOK, AllPC, LogWriteCheck, Bread, LogWrite, Brelse, Modify, Running,
         Active, Committers, InOpPC, CommitPC
<1>1. ~TooBig /\ outstanding >= 1 /\ outstanding # 0 /\ ~(outstanding < 1)
  <2>1. outstanding \in Nat
    BY DEF IInv, TypeOK
  <2>2. ~TooBig /\ outstanding >= 1
    BY <1>0, NotTooBig
  <2> QED BY <2>1, <2>2
<1>2. NoProc \notin Proc
  BY ProcAssumption
<1>3. CASE LogWriteCheck(p)
  <2>1. pc[p] = "modified" /\ pc' = [pc EXCEPT ![p] = "append"] /\ panic' = panic
    BY <1>1, <1>3 DEF LogWriteCheck, Goto
  <2>2. PhaseInv' /\ Active' = Active
    BY <1>0, <1>3, <2>1, Move DEF LogWriteCheck, InOpPC
  <2>3. HoldInv'
    BY <1>0, <1>3, <2>1 DEF LogWriteCheck, IInv, HoldInv
  <2>4. Logged' = Logged
    BY <1>3 DEF LogWriteCheck, Logged
  <2>5. WroteInv'
    BY <1>0, <1>3, <2>1, <2>2, <2>4 DEF LogWriteCheck, IInv, WroteInv
  <2>6. EmptyInv'
    BY <1>0, <1>1, <1>3, <2>1 DEF LogWriteCheck, IInv, EmptyInv
  <2> QED BY <2>2, <2>3, <2>5, <2>6 DEF DataInv
<1>4. ASSUME NEW b \in Block, Bread(p, b)
      PROVE  PhaseInv' /\ DataInv'
  <2>1. PhaseInv' /\ Active' = Active
    BY <1>0, <1>4, Move DEF Bread, Goto, InOpPC
  <2>2. HoldInv'
    <3>1. \A c \in Block : holder[c] # p
      BY <1>2, <1>4 DEF Bread, IInv, HoldInv
    <3> QED BY <1>0, <1>2, <1>4, <3>1 DEF Bread, Goto, IInv, HoldInv
  <2>3. Logged' = Logged
    BY <1>4 DEF Bread, Logged
  <2>4. WroteInv'
    <3> SUFFICES ASSUME NEW q \in Proc
                 PROVE  /\ q \notin Active' => wrote'[q] = {}
                        /\ wrote'[q] \subseteq Logged'
                        /\ IsFiniteSet(wrote'[q]) /\ Cardinality(wrote'[q]) <= OpMax
                        /\ \A c \in Block : holder'[c] = q /\ pc'[q] \in {"modified", "append"} =>
                               Cardinality(wrote'[q] \union {c}) <= OpMax
      BY DEF WroteInv
    <3>1. wrote' = wrote
      BY <1>4 DEF Bread
    <3>2. ASSUME NEW c \in Block, holder'[c] = q, pc'[q] \in {"modified", "append"}
          PROVE  holder[c] = q /\ pc[q] \in {"modified", "append"}
      BY <1>0, <1>2, <1>4, <3>2 DEF Bread, Goto
    <3> QED BY <2>1, <2>3, <3>1, <3>2 DEF IInv, WroteInv
  <2>5. EmptyInv'
    BY <1>0, <1>1, <1>4 DEF Bread, Goto, IInv, EmptyInv
  <2> QED BY <2>1, <2>2, <2>4, <2>5 DEF DataInv
<1>5. ASSUME NEW b \in Block, NEW v \in Value, Modify(p, b, v)
      PROVE  PhaseInv' /\ DataInv'
  <2>1. PhaseInv' /\ Active' = Active
    BY <1>0, <1>5, Move DEF Modify, Goto, InOpPC
  <2>2. HoldInv'
    BY <1>0, <1>5 DEF Modify, Goto, IInv, HoldInv
  <2>3. Logged' = Logged
    BY <1>5 DEF Modify, Logged
  <2>4. \A c \in Block : holder[c] = p => c = b
    BY <1>2, <1>5 DEF Modify, IInv, HoldInv
  <2>5. WroteInv'
    BY <1>0, <1>5, <2>1, <2>3, <2>4 DEF Modify, Goto, IInv, WroteInv
  <2>6. EmptyInv'
    BY <1>0, <1>1, <1>5 DEF Modify, Goto, IInv, EmptyInv
  <2> QED BY <2>1, <2>2, <2>5, <2>6 DEF DataInv
<1>6. ASSUME NEW b \in Block, Brelse(p, b)
      PROVE  PhaseInv' /\ DataInv'
  <2>1. PhaseInv' /\ Active' = Active
    BY <1>0, <1>6, Move DEF Brelse, Goto, InOpPC
  <2>2. \A c \in Block : holder[c] = p => c = b
    BY <1>2, <1>6 DEF Brelse, IInv, HoldInv
  <2>3. HoldInv'
    BY <1>0, <1>2, <1>6, <2>2 DEF Brelse, Goto, IInv, HoldInv
  <2>4. Logged' = Logged
    BY <1>6 DEF Brelse, Logged
  <2>5. WroteInv'
    <3>1. ASSUME NEW q \in Proc, NEW c \in Block,
                 holder'[c] = q, pc'[q] \in {"modified", "append"}
          PROVE  holder[c] = q /\ pc[q] \in {"modified", "append"}
      BY <1>0, <1>2, <1>6, <3>1 DEF Brelse, Goto
    <3> QED BY <1>6, <2>1, <2>4, <3>1 DEF Brelse, IInv, WroteInv
  <2>6. EmptyInv'
    BY <1>0, <1>1, <1>6 DEF Brelse, Goto, IInv, EmptyInv
  <2> QED BY <2>1, <2>3, <2>5, <2>6 DEF DataInv
<1>7. ASSUME NEW b \in Block, LogWrite(p, b)
      PROVE  PhaseInv' /\ DataInv'
  <2>1. /\ pc[p] = "append" /\ pc' = [pc EXCEPT ![p] = "release"] /\ holder[b] = p
        /\ wrote' = [wrote EXCEPT ![p] = wrote[p] \union {b}]
        /\ lh' = IF b \in Logged THEN lh ELSE Append(lh, b)
        /\ UNCHANGED <<outstanding, committing, dhead, boot, holder, panic>>
    BY <1>0, <1>7 DEF LogWrite, Goto
  <2>2. /\ Active' = Active /\ Committers' = Committers /\ Sleepers' = Sleepers
    BY <1>0, <2>1 DEF Active, Committers, Sleepers, InOpPC, CommitPC
  <2>3. NoPanic' /\ NoForgottenSleeper' /\ CountInv' /\ CommitInv' /\ BootInv'
    BY <1>0, <2>1, <2>2 DEF IInv, NoPanic, NoForgottenSleeper, CountInv, CommitInv, BootInv
  <2>4. /\ IsFiniteSet(wrote[p]) /\ Cardinality(wrote[p]) \in Nat
        /\ Cardinality(wrote[p]) <= OpMax
        /\ Cardinality(wrote[p] \union {b}) <= OpMax
        /\ IsFiniteSet(wrote[p] \union {b})
        /\ Cardinality(wrote[p] \union {b}) =
              IF b \in wrote[p] THEN Cardinality(wrote[p]) ELSE Cardinality(wrote[p]) + 1
    <3>1. IsFiniteSet(wrote[p]) /\ Cardinality(wrote[p]) <= OpMax
          /\ Cardinality(wrote[p] \union {b}) <= OpMax
      BY <2>1 DEF IInv, WroteInv
    <3> QED BY <3>1, FS_CardinalityType, FS_AddElement
  <2>5. lh \in Seq(Block) /\ Len(lh) \in Nat
    BY Lengths DEF IInv, TypeOK
  <2>6. Logged' = Logged \union {b}
    <3>1. CASE b \in Logged
      BY <2>1, <3>1 DEF Logged
    <3>2. CASE b \notin Logged
      <4>1. lh' = Append(lh, b)
        BY <2>1, <3>2
      <4>2. /\ DOMAIN lh = 1..Len(lh) /\ DOMAIN lh' = 1..(Len(lh) + 1)
            /\ \A i \in 1..Len(lh) : lh'[i] = lh[i]
            /\ lh'[Len(lh) + 1] = b
        BY <2>5, <4>1
      <4> QED BY <2>5, <4>2 DEF Logged
    <3> QED BY <3>1, <3>2
  <2>7. wrote[p] \subseteq Logged
    BY DEF IInv, WroteInv
  <2>8. SpaceInv'
    <3>1. /\ IsFiniteSet(Unused) /\ Cardinality(Unused) \in Nat
          /\ Len(lh) + Cardinality(Unused) <= LOGSIZE /\ Len(lh) <= NLOG - 1
          /\ Len(dhead') <= LOGSIZE /\ Len(dhead') <= NLOG - 1
      BY <2>1, FiniteSets_ DEF IInv, SpaceInv
    <3>2. \A q \in Proc : wrote'[q] = IF q = p THEN wrote[p] \union {b} ELSE wrote[q]
      BY <1>0, <2>1
    <3>3. CASE b \in Logged
      <4>1. Unused' \in SUBSET Unused
        <5> SUFFICES ASSUME NEW u \in Unused' PROVE u \in Unused
          OBVIOUS
        <5>1. u \in Active \X (1..MAXOPBLOCKS) /\ u[2] > Cardinality(wrote'[u[1]])
          BY <2>2 DEF Unused
        <5>2. u[1] \in Proc /\ u[2] \in Nat
          BY <5>1, SizeAssumption DEF Active
        <5>3. Cardinality(wrote'[u[1]]) \in Nat /\ Cardinality(wrote[u[1]]) \in Nat
              /\ Cardinality(wrote'[u[1]]) >= Cardinality(wrote[u[1]])
          <6>1. Cardinality(wrote[u[1]]) \in Nat
            BY <5>2, FiniteSets_ DEF IInv
          <6>2. CASE u[1] = p
            <7>1. wrote'[u[1]] = wrote[p] \union {b} /\ wrote[u[1]] = wrote[p]
              BY <3>2, <5>2, <6>2
            <7> QED BY <2>4, <7>1
          <6>3. CASE u[1] # p
            <7>1. wrote'[u[1]] = wrote[u[1]]
              BY <3>2, <5>2, <6>3
            <7> QED BY <6>1, <7>1
          <6> QED BY <6>2, <6>3
        <5> QED BY <5>1, <5>2, <5>3 DEF Unused
      <4>2. Cardinality(Unused') <= Cardinality(Unused) /\ Cardinality(Unused') \in Nat
        BY <3>1, <4>1, FS_Subset, FS_CardinalityType
      <4> QED BY <2>1, <2>5, <3>1, <3>3, <4>2, SizeAssumption DEF SpaceInv
    <3>4. CASE b \notin Logged
      <4> DEFINE c == Cardinality(wrote[p])
                 u0 == <<p, c + 1>>
      <4>1. b \notin wrote[p] /\ Cardinality(wrote[p] \union {b}) = c + 1 /\ c \in Nat
            /\ c + 1 <= OpMax
        BY <2>4, <2>7, <3>4
      <4>2. u0 \in Unused
        BY <1>0, <4>1, SizeAssumption DEF Unused, OpFits
      <4>3. Unused' \in SUBSET (Unused \ {u0})
        <5> SUFFICES ASSUME NEW u \in Unused' PROVE u \in Unused /\ u # u0
          OBVIOUS
        <5>1. u \in Active \X (1..MAXOPBLOCKS) /\ u[2] > Cardinality(wrote'[u[1]])
          BY <2>2 DEF Unused
        <5>2. u[1] \in Proc /\ u[2] \in Nat
          BY <5>1, SizeAssumption DEF Active
        <5>3. Cardinality(wrote[u[1]]) \in Nat
          BY <5>2, FiniteSets_ DEF IInv
        <5>4. CASE u[1] = p
          <6>1. u[2] > c + 1
            BY <3>2, <4>1, <5>1, <5>4
          <6>2. u[2] > c /\ u # u0
            BY <4>1, <5>2, <6>1
          <6> QED BY <5>1, <5>4, <6>2 DEF Unused
        <5>5. CASE u[1] # p
          BY <3>2, <5>1, <5>2, <5>5 DEF Unused
        <5> QED BY <5>4, <5>5
      <4>4. /\ IsFiniteSet(Unused \ {u0})
            /\ Cardinality(Unused \ {u0}) = Cardinality(Unused) - 1
        BY <3>1, <4>2, FS_RemoveElement
      <4>5. /\ Cardinality(Unused') <= Cardinality(Unused) - 1
            /\ Cardinality(Unused') \in Nat
        BY <4>3, <4>4, FS_Subset, FS_CardinalityType
      <4>6. Len(lh') = Len(lh) + 1
        BY <2>1, <2>5, <3>4
      <4>7. Len(lh) + 1 <= NLOG - 1
        <5>1. Len(lh) + MAXOPBLOCKS - c <= LOGSIZE
          BY <1>0, Room
        <5> QED BY <2>5, <4>1, <5>1, SizeAssumption DEF OpFits
      <4> QED BY <2>5, <3>1, <4>5, <4>6, <4>7, SizeAssumption DEF SpaceInv
    <3> QED BY <3>3, <3>4
  <2>9. HoldInv'
    BY <1>0, <2>1 DEF IInv, HoldInv
  <2>10. WroteInv'
    <3> SUFFICES ASSUME NEW q \in Proc
                 PROVE  /\ q \notin Active' => wrote'[q] = {}
                        /\ wrote'[q] \subseteq Logged'
                        /\ IsFiniteSet(wrote'[q]) /\ Cardinality(wrote'[q]) <= OpMax
                        /\ \A c \in Block : holder'[c] = q /\ pc'[q] \in {"modified", "append"} =>
                               Cardinality(wrote'[q] \union {c}) <= OpMax
      BY DEF WroteInv
    <3>1. CASE q = p
      BY <1>0, <2>1, <2>2, <2>4, <2>6, <2>7, <3>1
    <3>2. CASE q # p
      <4>1. wrote'[q] = wrote[q] /\ pc'[q] = pc[q] /\ holder' = holder
        BY <1>0, <2>1, <3>2
      <4> QED BY <2>2, <2>6, <4>1 DEF IInv, WroteInv
    <3> QED BY <3>1, <3>2
  <2>11. EmptyInv'
    <3>1. \A q \in Proc : pc'[q] \notin {"clear_head", "done"}
      <4>1. ~committing
        BY <1>0 DEF IInv, CommitInv
      <4>2. Committers' = {}
        BY <2>2, <4>1 DEF IInv, CommitInv
      <4> QED BY <4>2 DEF Committers, CommitPC
    <3> QED BY <1>0, <1>1, <2>1, <3>1 DEF EmptyInv
  <2> QED BY <2>3, <2>8, <2>9, <2>10, <2>11 DEF PhaseInv, DataInv
<1> QED BY <1>3, <1>4, <1>5, <1>6, <1>7

\* end_op(): the call leaves, and the last one closes the log.
LEMMA EndOpStep ==
  ASSUME IInv, OpFits, NEW p \in Proc, EndOp(p)
  PROVE  PhaseInv' /\ DataInv'
<1> USE DEF logVars, bufVars, diskVars, bootVars, procVars
<1>0. /\ pc \in [Proc -> AllPC] /\ holder \in [Block -> Proc \union {NoProc}]
      /\ wrote \in [Proc -> SUBSET Block]
      /\ pc[p] = "op" /\ p \in Active /\ boot = "up"
      /\ ~committing /\ Committers = {} /\ panic = "none"
  BY DEF IInv, TypeOK, AllPC, EndOp, Running, Active, InOpPC, CommitInv
<1>1. /\ IsFiniteSet(Active) /\ outstanding = Cardinality(Active)
      /\ outstanding \in Nat /\ outstanding >= 1
  BY <1>0, FiniteSets_, NotTooBig DEF IInv, CountInv
<1>2. /\ outstanding' = outstanding - 1 /\ panic' = "none"
      /\ wrote' = [wrote EXCEPT ![p] = {}]
      /\ UNCHANGED <<lh, holder, dhead, boot>>
  BY <1>0 DEF EndOp
<1>3. /\ outstanding = 1 => committing' = TRUE /\ pc' = [pc EXCEPT ![p] = "commit"]
      /\ outstanding # 1 => /\ committing' = committing
                            /\ pc' = [q \in Proc |-> IF q = p THEN "idle"
                                                     ELSE IF q \in Sleepers THEN "awake" ELSE pc[q]]
  BY <1>0 DEF EndOp, Goto, WakeupLog
<1>4. /\ Active' = Active \ {p}
      /\ outstanding = 1 => Committers' = {p}
      /\ outstanding # 1 => Committers' = {} /\ Sleepers' = {}
  <2>1. CASE outstanding = 1
    BY <1>0, <1>3, <2>1 DEF Active, Committers, InOpPC, CommitPC
  <2>2. CASE outstanding # 1
    <3>1. \A q \in Proc : pc'[q] = IF q = p THEN "idle"
                                   ELSE IF pc[q] = "sleeping" THEN "awake" ELSE pc[q]
      BY <1>3, <2>2 DEF Sleepers
    <3>2. Active' = Active \ {p}
      BY <1>0, <3>1 DEF Active, InOpPC
    <3>3. Committers' = {}
      BY <1>0, <3>1 DEF Committers, CommitPC
    <3>4. Sleepers' = {}
      BY <3>1 DEF Sleepers
    <3> QED BY <2>2, <3>2, <3>3, <3>4
  <2> QED BY <2>1, <2>2
<1>5. IsFiniteSet(Active') /\ Cardinality(Active') = outstanding - 1
  BY <1>0, <1>1, <1>4, FS_RemoveElement
<1>6. CountInv'
  BY <1>2, <1>5 DEF CountInv
<1>7. outstanding = 1 => Active' = {}
  BY <1>5, FS_EmptySet
<1>8. NoPanic' /\ NoForgottenSleeper' /\ CommitInv' /\ BootInv'
  <2>1. NoPanic' /\ BootInv'
    BY <1>0, <1>2 DEF NoPanic, BootInv
  <2>2. NoForgottenSleeper'
    BY <1>3, <1>4 DEF NoForgottenSleeper
  <2>3. CommitInv'
    BY <1>0, <1>3, <1>4, <1>7 DEF CommitInv
  <2> QED BY <2>1, <2>2, <2>3
<1>9. SpaceInv'
  <2>1. /\ IsFiniteSet(Unused) /\ Cardinality(Unused) \in Nat /\ SpaceInv /\ Len(lh) \in Nat
    BY FiniteSets_, Lengths DEF IInv
  <2>2. Unused' \in SUBSET Unused
    <3> SUFFICES ASSUME NEW u \in Unused' PROVE u \in Unused
      OBVIOUS
    <3>1. u \in Active' \X (1..MAXOPBLOCKS) /\ u[2] > Cardinality(wrote'[u[1]])
      BY DEF Unused
    <3>2. u[1] \in Active /\ u[1] # p /\ u[1] \in Proc
      BY <1>4, <3>1 DEF Active
    <3>3. wrote'[u[1]] = wrote[u[1]]
      BY <1>0, <1>2, <3>2
    <3> QED BY <3>1, <3>2, <3>3 DEF Unused
  <2>3. Cardinality(Unused') <= Cardinality(Unused) /\ Cardinality(Unused') \in Nat
    BY <2>1, <2>2, FS_Subset, FS_CardinalityType
  <2> QED BY <1>2, <2>1, <2>3, SizeAssumption DEF SpaceInv
<1>10. HoldInv'
  <2>1. \A b \in Block : holder[b] # NoProc =>
            pc'[holder[b]] = pc[holder[b]] /\ pc[holder[b]] \in {"bread", "modified", "append", "release"}
    <3> SUFFICES ASSUME NEW b \in Block, holder[b] # NoProc
                 PROVE  pc'[holder[b]] = pc[holder[b]] /\ pc[holder[b]] \in {"bread", "modified", "append", "release"}
      OBVIOUS
    <3>1. pc[holder[b]] \in {"bread", "modified", "append", "release"} /\ holder[b] \in Proc
      BY <1>0 DEF IInv, HoldInv
    <3> QED BY <1>0, <1>3, <3>1 DEF Sleepers
  <2> QED BY <1>2, <2>1 DEF IInv, HoldInv
<1>11. WroteInv'
  <2> SUFFICES ASSUME NEW q \in Proc
               PROVE  /\ q \notin Active' => wrote'[q] = {}
                      /\ wrote'[q] \subseteq Logged'
                      /\ IsFiniteSet(wrote'[q]) /\ Cardinality(wrote'[q]) <= OpMax
                      /\ \A c \in Block : holder'[c] = q /\ pc'[q] \in {"modified", "append"} =>
                             Cardinality(wrote'[q] \union {c}) <= OpMax
    BY DEF WroteInv
  <2>1. Logged' = Logged
    BY <1>2 DEF Logged
  <2>2. CASE q = p
    BY <1>0, <1>2, <1>3, <2>2, FS_EmptySet, SizeAssumption
  <2>3. CASE q # p
    <3>1. wrote'[q] = wrote[q] /\ holder' = holder
      BY <1>0, <1>2, <2>3
    <3>2. pc'[q] \in {"modified", "append"} => pc[q] \in {"modified", "append"}
      BY <1>0, <1>3, <2>3
    <3> QED BY <1>4, <2>1, <2>3, <3>1, <3>2 DEF IInv, WroteInv
  <2> QED BY <2>2, <2>3
<1>12. EmptyInv'
  <2>1. \A q \in Proc : pc'[q] \notin {"clear_head", "done"}
    BY <1>0, <1>3 DEF Committers, CommitPC
  <2>2. outstanding' = 0 => committing'
    BY <1>1, <1>2, <1>3
  <2> QED BY <1>0, <1>2, <2>1, <2>2 DEF EmptyInv
<1> QED BY <1>6, <1>8, <1>9, <1>10, <1>11, <1>12 DEF PhaseInv, DataInv

\* commit() and the end of end_op().
LEMMA CommitStep ==
  ASSUME IInv, NEW p \in Proc, Commit(p) \/ EndCommit(p)
  PROVE  PhaseInv' /\ DataInv'
<1> USE DEF logVars, bufVars, diskVars, bootVars, procVars
<1>0. /\ pc \in [Proc -> AllPC] /\ holder \in [Block -> Proc \union {NoProc}]
      /\ wrote \in [Proc -> SUBSET Block] /\ committing \in BOOLEAN
      /\ pc[p] \in CommitPC /\ p \in Committers /\ p \notin Active /\ boot = "up"
      /\ panic = "none"
  BY DEF IInv, TypeOK, AllPC, Commit, StartCommit, WriteLogBlock, CommitPoint,
         CommitInstall, CommitReset, CommitClear, EndCommit, Running, Active, Committers,
         InOpPC, CommitPC
<1>1. committing /\ Active = {} /\ \A q \in Proc : q \in Committers => q = p
  BY <1>0 DEF IInv, CommitInv, Committers
<1>2. /\ \A q \in Proc : wrote[q] = {}
      /\ \A b \in Block : holder[b] = NoProc
  <2>1. \A q \in Proc : wrote[q] = {}
    BY <1>1 DEF IInv, WroteInv
  <2>2. \A b \in Block : holder[b] = NoProc
    BY <1>0, <1>1 DEF IInv, HoldInv, Active, InOpPC
  <2> QED BY <2>1, <2>2
<1>3. ASSUME NEW l \in CommitPC, pc' = [pc EXCEPT ![p] = l],
             lh' \in {lh, <<>>}, dhead' \in {dhead, lh, <<>>},
             UNCHANGED <<outstanding, committing, boot, wrote, panic, holder>>,
             l \in {"clear_head", "done"} => lh' = <<>>
      PROVE  PhaseInv' /\ DataInv'
  <2>1. PhaseInv' /\ Active' = Active
    BY <1>0, <1>3, Move
  <2>2. HoldInv'
    BY <1>2, <1>3 DEF HoldInv
  <2>3. WroteInv'
    BY <1>2, <1>3, ProcAssumption DEF IInv, WroteInv
  <2>4. EmptyInv'
    BY <1>0, <1>1, <1>3 DEF IInv, EmptyInv
  <2> QED BY <2>1, <2>2, <2>3, <2>4 DEF DataInv
<1>4. CASE StartCommit(p)
  BY <1>3, <1>4 DEF StartCommit, Goto, CommitPC
<1>5. CASE WriteLogBlock(p)
  BY <1>5, Frame DEF WriteLogBlock
<1>6. CASE CommitPoint(p)
  BY <1>3, <1>6 DEF CommitPoint, WriteHead, Goto, CommitPC
<1>7. CASE CommitInstall(p)
  BY <1>7, Frame DEF CommitInstall, InstallBlock
<1>8. CASE CommitReset(p)
  BY <1>3, <1>8 DEF CommitReset, Goto, CommitPC
<1>9. CASE CommitClear(p)
  <2>1. lh = <<>>
    BY <1>9 DEF CommitClear, IInv, EmptyInv
  <2> QED BY <1>3, <1>9, <2>1 DEF CommitClear, WriteHead, Goto, CommitPC
<1>10. CASE EndCommit(p)
  <2>1. /\ committing' = FALSE /\ lh' = lh /\ lh = <<>>
        /\ pc' = [q \in Proc |-> IF q = p THEN "idle"
                                 ELSE IF q \in Sleepers THEN "awake" ELSE pc[q]]
        /\ UNCHANGED <<outstanding, boot, wrote, panic, holder, dhead>>
    BY <1>10 DEF EndCommit, WakeupLog, IInv, EmptyInv
  <2>2. \A q \in Proc : pc'[q] = IF q = p THEN "idle"
                                 ELSE IF pc[q] = "sleeping" THEN "awake" ELSE pc[q]
    BY <2>1 DEF Sleepers
  <2>3. Active' = {} /\ Sleepers' = {} /\ Committers' = {}
    <3>1. Active' = {}
      BY <1>1, <2>2 DEF Active, InOpPC
    <3>2. Sleepers' = {}
      BY <2>2 DEF Sleepers
    <3>3. Committers' = {}
      BY <1>1, <2>2 DEF Committers, CommitPC
    <3> QED BY <3>1, <3>2, <3>3
  <2>4. NoPanic' /\ NoForgottenSleeper' /\ BootInv' /\ CommitInv'
    BY <1>0, <2>1, <2>3 DEF NoPanic, NoForgottenSleeper, BootInv, CommitInv
  <2>5. CountInv'
    BY <1>1, <2>1, <2>3 DEF IInv, CountInv
  <2>6. SpaceInv'
    <3>1. Unused' = Unused
      BY <1>1, <2>3 DEF Unused
    <3> QED BY <2>1, <3>1 DEF IInv, SpaceInv
  <2>7. HoldInv'
    BY <1>2, <2>1 DEF HoldInv
  <2>8. WroteInv'
    BY <1>2, <2>1 DEF IInv, WroteInv, Logged
  <2>9. EmptyInv'
    BY <1>0, <2>1 DEF EmptyInv
  <2> QED BY <2>4, <2>5, <2>6, <2>7, <2>8, <2>9 DEF PhaseInv, DataInv
<1> QED BY <1>4, <1>5, <1>6, <1>7, <1>8, <1>9, <1>10 DEF Commit

(***************************************************************************)
(* The theorems.                                                           *)
(***************************************************************************)

\* A disk made by mkfs satisfies the invariant.
LEMMA InitInv ==
  ASSUME Init, OpFits
  PROVE  IInv
<1>1. Active = {} /\ Committers = {} /\ Sleepers = {} /\ Unused = {}
  BY DEF Init, ColdStart, Active, Committers, Sleepers, InOpPC, CommitPC, Unused
<1>2. Cardinality({}) = 0 /\ IsFiniteSet({})
  BY FS_EmptySet
<1>3. <<>> \in Seq(Block) /\ Len(<<>>) = 0
  BY EmptySeq
<1>4. TypeOK
  <2>1. /\ lh \in Seq(Block) /\ dhead \in Seq(Block) /\ outstanding \in Nat
        /\ committing \in BOOLEAN /\ btail \in Nat \ {0} /\ boot = "read_head"
        /\ panic = "none"
    <3>1. 0 \in Nat /\ 1 \in Nat \ {0}
      OBVIOUS
    <3>2. outstanding \in Nat /\ btail \in Nat \ {0} /\ boot = "read_head" /\ panic = "none"
      BY <3>1 DEF Init, ColdStart
    <3>3. lh = <<>> /\ dhead = <<>> /\ committing = FALSE
      BY DEF Init, ColdStart
    <3> QED BY <1>3, <3>2, <3>3
  <2>2. /\ cache \in [Block -> Value \union {NotCached}] /\ dirty \subseteq Block
        /\ holder \in [Block -> Proc \union {NoProc}]
    BY DEF Init, ColdStart
  <2>3. disk \in [Block -> Value] /\ dlog \in [1..(NLOG - 1) -> Value]
    BY ValueAssumption DEF Init
  <2>4. pc \in [Proc -> InOpPC \union CommitPC \union {"idle", "sleeping", "awake"}]
    BY DEF Init, ColdStart
  <2>5. wrote \in [Proc -> SUBSET Block]
    BY DEF Init, ColdStart
  <2>6. tail \in [Proc -> Nat \ {0}]
    BY DEF Init, ColdStart
  <2> QED BY <2>1, <2>2, <2>3, <2>4, <2>5, <2>6 DEF TypeOK
<1>5. NoPanic /\ NoForgottenSleeper /\ CountInv /\ BootInv /\ CommitInv
  BY <1>1, <1>2 DEF Init, ColdStart, NoPanic, NoForgottenSleeper, CountInv, BootInv, CommitInv
<1>6. HoldInv
  BY DEF Init, ColdStart, HoldInv
<1>7. WroteInv
  BY <1>2, SizeAssumption DEF Init, ColdStart, WroteInv
<1>8. SpaceInv
  <2>1. lh = <<>> /\ dhead = <<>>
    BY DEF Init, ColdStart
  <2>2. 0 <= NLOG - 1
    BY SizeAssumption DEF OpFits
  <2> QED BY <1>1, <1>2, <1>3, <2>1, <2>2, SizeAssumption DEF SpaceInv
<1>9. EmptyInv
  BY DEF Init, ColdStart, EmptyInv
<1> QED BY <1>4, <1>5, <1>6, <1>7, <1>8, <1>9 DEF IInv

\* IInv is inductive.
LEMMA NextInv ==
  ASSUME IInv, OpFits, [Next]_vars
  PROVE  IInv'
<1>1. TypeOK'
  BY TypeStep
<1>2. PhaseInv' /\ DataInv'
  <2>1. CASE UNCHANGED vars
    BY <2>1, Frame DEF vars, logVars, bufVars, diskVars, bootVars, procVars
  <2>2. CASE Crash \/ Recover \/ \E b \in Block : Lookup(b) \/ Evict(b)
    BY <2>2, MachineStep
  <2>3. ASSUME NEW p \in Proc, BeginOp(p) \/ EndOp(p) \/ Step(p) \/ \E b \in Block : Bread(p, b)
        PROVE  PhaseInv' /\ DataInv'
    BY <2>3, BeginStep, CallStep, EndOpStep, CommitStep DEF Step
  <2> QED BY <2>1, <2>2, <2>3 DEF Next
<1> QED BY <1>1, <1>2 DEF IInv, PhaseInv, DataInv

\* Whatever calls run and wherever the machine crashes, log.c stays within the
\* types of its variables, reaches none of its panics, forgets no sleeper, and
\* commits alone, provided calls keep to OpFits.
THEOREM InvariantHolds ==
  ASSUME OpFits
  PROVE  Spec => []IInv
<1>1. Init => IInv
  BY InitInv
<1>2. IInv /\ [Next]_vars => IInv'
  BY NextInv
<1> QED BY <1>1, <1>2, PTL DEF Spec

\* The variables of log.c keep their types.
THEOREM TypeCorrect ==
  ASSUME OpFits
  PROVE  Spec => []TypeOK
<1>1. IInv => TypeOK
  BY DEF IInv
<1> QED BY <1>1, InvariantHolds, PTL

\* begin_op()'s reservation is enough (log.c:132): no panic of log.c is reached.
THEOREM ReservationSuffices ==
  ASSUME OpFits
  PROVE  Spec => []NoPanic
<1>1. IInv => NoPanic
  BY DEF IInv
<1> QED BY <1>1, InvariantHolds, PTL

\* Nobody sleeps in begin_op() unless a call or a commit will wake it.
THEOREM NoSleeperForgotten ==
  ASSUME OpFits
  PROVE  Spec => []NoForgottenSleeper
<1>1. IInv => NoForgottenSleeper
  BY DEF IInv
<1> QED BY <1>1, InvariantHolds, PTL

\* A commit runs alone, with no call in progress.
THEOREM CommitsAlone ==
  ASSUME OpFits
  PROVE  Spec => []CommitAlone
<1>1. IInv => CommitAlone
  <2> SUFFICES ASSUME IInv, Committers # {}
               PROVE  committing /\ Active = {} /\ Cardinality(Committers) = 1
    BY DEF CommitAlone
  <2>1. committing /\ Active = {}
    BY DEF IInv, CommitInv
  <2>2. PICK p \in Committers : TRUE
    OBVIOUS
  <2>3. Committers = {p}
    BY <2>2 DEF IInv, CommitInv
  <2>4. Cardinality(Committers) = 1
    BY <2>3, FS_Singleton
  <2> QED BY <2>1, <2>4
<1> QED BY <1>1, InvariantHolds, PTL
=============================================================================
