----------------------------- MODULE FileSystem -----------------------------
(***************************************************************************)
(* Inodes, directories and the calls that work on them: fs.c, the layer of *)
(* the inode cache and of paths, and sysfile.c of p7/p7a with its symbolic *)
(* links.                                                                  *)
(*                                                                         *)
(* What one process does between two points at which it can wait for an    *)
(* inode's lock is one action.  iput() is three: it looks at the inode     *)
(* under the inode's lock, frees it, and drops the reference after it has  *)
(* released the lock.                                                      *)
(***************************************************************************)
EXTENDS Fscheck, FiniteSets

CONSTANTS Proc,    \* processes
          NoProc,  \* nobody
          Path,    \* bound: absolute paths; <<>> is "/"
          Menu,    \* bound: the calls that are made
          MaxCall  \* bound: calls made

ASSUME ProcAssumption == IsFiniteSet(Proc) /\ NoProc \notin Proc /\ MaxCall \in Nat
ASSUME PathAssumption == Path \subseteq Seq(Name)
ASSUME MenuAssumption ==
    \A c \in Menu : /\ c.op \in {"open", "creat", "mkdir", "symlink", "unlink", "link"}
                    /\ c.path \in Path
                    /\ c.op \in {"symlink", "link"} => c.arg \in Path

VARIABLES dinode,  \* the inodes on disk, through the log
          core,    \* the copies in the inode cache
          valid,   \* the inodes whose copy has ip->valid
          ref,     \* inode -> ip->ref
          holder,  \* inode -> who holds ip->lock
          bitmap,  \* the blocks marked in use
          block,   \* block -> contents
          ofile,   \* process -> the inode of its open file, or 0
          pc,      \* process -> where it is
          loc,     \* process -> locals of its call
          calls,   \* bound: calls made so far
          panic    \* the message of the panic that stopped the kernel

disk  == <<dinode, bitmap, block>>
cache == <<core, valid, ref, holder>>
vars  == <<disk, cache, ofile, pc, loc, calls, panic>>

\* op: the call or its phase; path: what namex() has still to resolve; arg: the
\* call's other argument; ip, dp, old: inodes of the call; put: what iput()
\* drops and after: where it returns.
Idle == [op |-> "none", path |-> <<>>, arg |-> <<>>, ip |-> 0, dp |-> 0, old |-> 0,
         put |-> 0, after |-> "user"]

Runs(p, label) == panic = "none" /\ pc[p] = label
Goto(p, label) == pc' = [pc EXCEPT ![p] = label]
Return(p) == Goto(p, "user") /\ loc' = [loc EXCEPT ![p] = Idle]
Put(p, l, i, label) == /\ Goto(p, "put")
                       /\ loc' = [loc EXCEPT ![p] = [l EXCEPT !.put = i, !.after = label]]
Panic(message) == panic' = message /\ UNCHANGED <<disk, cache, ofile, pc, loc>>

----------------------------------------------------------------------------
(* Inodes: ilock(), iupdate(), iget() *)

Free(i) == holder[i] = NoProc

\* The copy that ilock() leaves in the cache.
Loaded(i) == IF i \in valid THEN core[i] ELSE dinode[i]
Typed(i)  == Loaded(i).type # "free"

\* The inodes S are locked; iupdate() follows every change of their fields.
Load(S) == /\ core' = [i \in Inum |-> IF i \in S THEN Loaded(i) ELSE core[i]]
           /\ valid' = valid \union S
Update(new) == LET latest(old) == [i \in Inum |-> IF i \in DOMAIN new THEN new[i] ELSE old[i]]
               IN  /\ core' = latest(core)
                   /\ dinode' = latest(dinode)
                   /\ valid' = valid \union DOMAIN new

\* ilock(): wait for the lock, load the copy, then do A.
Ilock(i, A) == Free(i) /\ IF Typed(i) THEN A ELSE Panic("ilock: no type")

\* Mutant: iget() finds the inode in the cache and does not count.
GetCached(x) == ref' = [ref EXCEPT ![x] = IF @ = 0 THEN 1 ELSE @]

\* iget() of x, or idup().
Get(x) == ref' = [ref EXCEPT ![x] = @ + 1]

\* balloc() and ialloc() take the first block and the first inode that is free.
NoBlock == bitmap = Block
Balloc  == Min(Block \ bitmap)
NoInode == \A i \in Inum : dinode[i].type # "free"
Ialloc  == Min({i \in Inum : dinode[i].type = "free"})

\* dirlookup(): the inode of the entry, or 0.
Slots(i) == block[Loaded(i).addr].slot
Lookup(i, name) == LET s == {k \in Slot : Slots(i)[k].inum # 0 /\ Slots(i)[k].name = name}
                   IN  IF s = {} THEN 0 ELSE Slots(i)[Min(s)].inum
Written(i, k, entry) == [block EXCEPT ![Loaded(i).addr].slot[k] = entry]

\* dirlink(): the first empty slot takes the entry.
Linked(i, name, x) == Written(i, Min({k \in Slot : Slots(i)[k].inum = 0}),
                              [name |-> name, inum |-> x])

----------------------------------------------------------------------------
(* iput() *)

\* Mutant: open files are not counted as references.
LastRefAny(i) == i \in valid /\ core[i].nlink = 0

LastRef(i) == i \in valid /\ core[i].nlink = 0 /\ ref[i] = 1

IputCheck(p) ==
    LET i == loc[p].put
    IN  /\ Runs(p, "put") /\ Free(i)
        /\ IF LastRef(i)
           THEN Goto(p, "put_free") /\ holder' = [holder EXCEPT ![i] = p]
           ELSE Goto(p, "put_drop") /\ UNCHANGED holder
        /\ UNCHANGED <<disk, core, valid, ref, ofile, loc, panic>>

\* itrunc(), and the inode is free on disk.
IputFree(p) ==
    LET i == loc[p].put
    IN  /\ Runs(p, "put_free")
        /\ IF core[i].addr # 0 /\ core[i].addr \notin bitmap
           THEN Panic("freeing free block")
           ELSE /\ bitmap' = bitmap \ {core[i].addr}
                /\ dinode' = [dinode EXCEPT ![i] = FreeInode]
                /\ core' = [core EXCEPT ![i] = FreeInode]
                /\ valid' = valid \ {i}
                /\ holder' = [holder EXCEPT ![i] = NoProc]
                /\ Goto(p, "put_drop")
                /\ UNCHANGED <<block, ref, ofile, loc, panic>>

\* The entry of the last reference can be recycled: its copy is gone.
IputDrop(p) ==
    LET l == loc[p]  i == l.put
    IN  /\ Runs(p, "put_drop")
        /\ ref' = [ref EXCEPT ![i] = @ - 1]
        /\ valid' = IF ref[i] = 1 THEN valid \ {i} ELSE valid
        /\ core' = IF ref[i] = 1 THEN [core EXCEPT ![i] = FreeInode] ELSE core
        /\ IF l.after = "user" THEN Return(p)
           ELSE /\ Goto(p, l.after)
                /\ loc' = [loc EXCEPT ![p].put = 0, ![p].after = "user"]
        /\ UNCHANGED <<disk, holder, ofile, panic>>

----------------------------------------------------------------------------
(* namex() *)

Parent(op) == op \in {"creat", "mkdir", "symlink", "unlink", "link2"}
Found(op)  == CASE op \in {"open", "opensym"} -> "open"
                [] op \in {"creat", "mkdir", "symlink"} -> "create"
                [] op \in {"unlink", "link"} -> op
                [] op = "link2" -> "link_dir"
Failed(op) == IF op = "link2" THEN "link_bad" ELSE "user"

\* namei() or nameiparent() begins at the root.
Walk(p, l) == /\ Get(RootInum)
              /\ IF l.path = <<>> /\ Parent(l.op)
                 THEN Put(p, [l EXCEPT !.ip = 0], RootInum, Failed(l.op))
                 ELSE /\ Goto(p, IF l.path = <<>> THEN Found(l.op) ELSE "walk")
                      /\ loc' = [loc EXCEPT ![p] = [l EXCEPT !.ip = RootInum]]

\* One element of the path, under the lock of its directory.
Step(p) ==
    LET l == loc[p]  i == l.ip
        last == Len(l.path) = 1
        stop == last /\ Parent(l.op)
        next == Lookup(i, Head(l.path))
        fail == Put(p, [l EXCEPT !.ip = 0], i, Failed(l.op)) /\ UNCHANGED ref
    IN  /\ Runs(p, "walk")
        /\ Ilock(i, /\ Load({i})
                    /\ IF Loaded(i).type # "dir" THEN fail
                       ELSE IF stop
                       THEN /\ Goto(p, Found(l.op)) /\ UNCHANGED ref
                            /\ loc' = [loc EXCEPT ![p].dp = i, ![p].ip = 0]
                       ELSE IF next = 0 THEN fail
                       ELSE /\ Get(next)
                            /\ Put(p, [l EXCEPT !.ip = next, !.path = Tail(@)], i,
                                   IF last THEN Found(l.op) ELSE "walk")
                    /\ UNCHANGED <<disk, holder, ofile, panic>>)

----------------------------------------------------------------------------
(* open() *)

Call(p, op, path, arg) == /\ Runs(p, "user")
                          /\ Walk(p, [Idle EXCEPT !.op = op, !.path = path, !.arg = arg])
                          /\ UNCHANGED <<disk, core, valid, holder, ofile, panic>>

\* What readi() finds in a symbolic link.  Nothing is read of an empty one, and
\* name is then what was on the stack.
Targets(i) == IF Loaded(i).size = 0 THEN Path ELSE {block[Loaded(i).addr].target}

\* filealloc() and fdalloc() for the inode i, unlocked here; or iunlockput().
Opened(p, i) == IF ofile[p] = 0
                THEN ofile' = [ofile EXCEPT ![p] = i] /\ Return(p)
                ELSE Put(p, Idle, i, "user") /\ UNCHANGED ofile

\* A link is followed once, and its own reference is kept.  If it leads to a
\* directory, open() returns with the directory locked.
OpenLock(p) ==
    LET l == loc[p]  i == l.ip  type == Loaded(i).type
    IN  /\ Runs(p, "open")
        /\ Ilock(i, /\ Load({i})
                    /\ IF type = "sym" /\ l.op = "open"
                       THEN /\ \E t \in Targets(i) :
                                   Walk(p, [l EXCEPT !.op = "opensym", !.path = t])
                            /\ UNCHANGED <<holder, ofile>>
                       ELSE IF type = "dir" /\ l.op = "opensym"
                       THEN /\ holder' = [holder EXCEPT ![i] = p]
                            /\ Return(p) /\ UNCHANGED <<ref, ofile>>
                       ELSE IF type = "dir" /\ l.arg = "w"
                       THEN Put(p, Idle, i, "user") /\ UNCHANGED <<ref, holder, ofile>>
                       ELSE Opened(p, i) /\ UNCHANGED <<ref, holder>>
                    /\ UNCHANGED <<disk, panic>>)

Close(p) == /\ Runs(p, "user") /\ ofile[p] # 0
            /\ Put(p, Idle, ofile[p], "user")
            /\ ofile' = [ofile EXCEPT ![p] = 0]
            /\ UNCHANGED <<disk, cache, panic>>

----------------------------------------------------------------------------
(* create(), for open(), mkdir() and symlink() *)

Type(op) == CASE op = "creat" -> "file" [] op = "mkdir" -> "dir" [] op = "symlink" -> "sym"

\* A new inode, named in dp while both are locked.
CreateNew(p, dp) ==
    LET l == loc[p]
        i == Ialloc
        b == IF l.op = "mkdir" THEN Balloc ELSE 0
        n == IF b = 0 THEN 0 ELSE 1
    IN  /\ Free(i)
        /\ Update([x \in {i, dp} |->
                      IF x = i THEN [type |-> Type(l.op), nlink |-> 1, addr |-> b, size |-> n]
                      ELSE [Loaded(dp) EXCEPT !.nlink = @ + n]])
        /\ bitmap' = bitmap \union ({b} \ {0})
        /\ block' = [c \in Block |-> IF c = b THEN [Zeroed EXCEPT !.self = i, !.up = dp]
                                     ELSE Linked(dp, Head(l.path), i)[c]]
        /\ Get(i)
        /\ holder' = [holder EXCEPT ![i] = p]
        /\ Put(p, [l EXCEPT !.dp = 0, !.ip = i], dp, "created")
        /\ UNCHANGED <<ofile, panic>>

Create(p) ==
    LET l == loc[p]  dp == l.dp  x == Lookup(dp, Head(l.path))
    IN  /\ Runs(p, "create")
        /\ Ilock(dp, IF x # 0
                     THEN /\ Load({dp}) /\ Get(x)
                          /\ Put(p, [l EXCEPT !.dp = 0, !.ip = x], dp, "exists")
                          /\ UNCHANGED <<disk, holder, ofile, panic>>
                     ELSE IF NoInode
                     THEN Panic("ialloc: no inodes")
                     ELSE IF l.op = "mkdir" /\ NoBlock
                     THEN Panic("balloc: out of blocks")
                     ELSE CreateNew(p, dp))

\* The name was there: open() takes a file, everybody else gives it back.
Exists(p) ==
    LET l == loc[p]  i == l.ip
    IN  /\ Runs(p, "exists")
        /\ Ilock(i, /\ Load({i})
                    /\ IF l.op = "creat" /\ Loaded(i).type = "file"
                       THEN Opened(p, i)
                       ELSE Put(p, Idle, i, "user") /\ UNCHANGED ofile
                    /\ UNCHANGED <<disk, ref, holder, panic>>)

\* The new inode is still locked.  symlink() opens the link, too.
Created(p) ==
    LET l == loc[p]  i == l.ip
    IN  /\ Runs(p, "created")
        /\ holder' = [holder EXCEPT ![i] = NoProc]
        /\ IF l.op = "symlink" /\ ofile[p] = 0
           THEN /\ ofile' = [ofile EXCEPT ![p] = i]
                /\ Goto(p, "write_link")
                /\ loc' = [loc EXCEPT ![p] = [Idle EXCEPT !.op = "write", !.arg = l.arg]]
           ELSE IF l.op = "mkdir"
           THEN Put(p, Idle, i, "user") /\ UNCHANGED ofile
           ELSE Opened(p, i)
        /\ UNCHANGED <<disk, core, valid, ref, panic>>

\* Mutant: balloc() does not mark the block.
WriteLinkUnmarked(p) ==
    LET i == ofile[p]  b == Balloc
    IN  /\ Runs(p, "write_link")
        /\ Ilock(i, /\ Update([x \in {i} |-> [Loaded(i) EXCEPT !.addr = b, !.size = 1]])
                    /\ block' = [block EXCEPT ![b] = [Zeroed EXCEPT !.target = loc[p].arg]]
                    /\ Return(p)
                    /\ UNCHANGED <<bitmap, ref, holder, ofile, panic>>)

\* filewrite() of the target, in a transaction of its own.
WriteLink(p) ==
    LET i == ofile[p]  b == Balloc
    IN  /\ Runs(p, "write_link")
        /\ Ilock(i, IF NoBlock THEN Panic("balloc: out of blocks") ELSE
                    /\ Update([x \in {i} |-> [Loaded(i) EXCEPT !.addr = b, !.size = 1]])
                    /\ bitmap' = bitmap \union {b}
                    /\ block' = [block EXCEPT ![b] = [Zeroed EXCEPT !.target = loc[p].arg]]
                    /\ Return(p)
                    /\ UNCHANGED <<ref, holder, ofile, panic>>)

----------------------------------------------------------------------------
(* unlink() *)

\* The directory stays locked while its entry is looked at.
Unlink(p) ==
    LET l == loc[p]  dp == l.dp  x == Lookup(dp, Head(l.path))
    IN  /\ Runs(p, "unlink")
        /\ Ilock(dp, /\ Load({dp})
                     /\ IF x = 0
                        THEN Put(p, Idle, dp, "user") /\ UNCHANGED <<ref, holder>>
                        ELSE /\ Get(x)
                             /\ holder' = [holder EXCEPT ![dp] = p]
                             /\ Goto(p, "unlink_ip")
                             /\ loc' = [loc EXCEPT ![p].ip = x]
                     /\ UNCHANGED <<disk, ofile, panic>>)

IsEmpty(i) == \A k \in Slot : Slots(i)[k].inum = 0

\* The entry is zeroed, and dp given back with ip locked.
UnlinkEntry(p) ==
    LET l == loc[p]  dp == l.dp  i == l.ip  isdir == Loaded(i).type = "dir"
        at == Min({k \in Slot : Slots(dp)[k].inum = i /\ Slots(dp)[k].name = Head(l.path)})
    IN  /\ Runs(p, "unlink_ip")
        /\ Ilock(i, IF Loaded(i).nlink < 1 THEN Panic("unlink: nlink < 1")
                    ELSE IF isdir /\ ~IsEmpty(i)
                    THEN /\ Load({i})
                         /\ Put(p, [l EXCEPT !.ip = 0], i, "unlink_bad")
                         /\ UNCHANGED <<disk, ref, holder, ofile, panic>>
                    ELSE /\ Update([x \in {i, dp} |-> IF x = i THEN Loaded(i)
                                    ELSE [core[dp] EXCEPT !.nlink = IF isdir THEN @ - 1 ELSE @]])
                         /\ block' = Written(dp, at, Hole)
                         /\ holder' = [holder EXCEPT ![dp] = NoProc, ![i] = p]
                         /\ Put(p, [l EXCEPT !.dp = 0], dp, "unlink_drop")
                         /\ UNCHANGED <<bitmap, ref, ofile, panic>>)

\* Mutant: the way out of a failed unlink() forgets dp's lock.
UnlinkBadLocked(p) == /\ Runs(p, "unlink_bad")
                      /\ Put(p, Idle, loc[p].dp, "user")
                      /\ UNCHANGED <<disk, cache, ofile, panic>>

UnlinkBad(p) == /\ Runs(p, "unlink_bad")
                /\ holder' = [holder EXCEPT ![loc[p].dp] = NoProc]
                /\ Put(p, Idle, loc[p].dp, "user")
                /\ UNCHANGED <<disk, core, valid, ref, ofile, panic>>

UnlinkDrop(p) == LET i == loc[p].ip
                 IN  /\ Runs(p, "unlink_drop")
                     /\ Update([x \in {i} |-> [core[i] EXCEPT !.nlink = @ - 1]])
                     /\ holder' = [holder EXCEPT ![i] = NoProc]
                     /\ Put(p, Idle, i, "user")
                     /\ UNCHANGED <<bitmap, block, ref, ofile, panic>>

----------------------------------------------------------------------------
(* link() *)

\* Mutant: the link is not counted.
LinkUncounted(p) ==
    LET l == loc[p]  i == l.ip
    IN  /\ Runs(p, "link")
        /\ Ilock(i, IF Loaded(i).type = "dir"
                    THEN /\ Load({i}) /\ Put(p, Idle, i, "user")
                         /\ UNCHANGED <<disk, ref, holder, ofile, panic>>
                    ELSE /\ Load({i})
                         /\ Walk(p, [l EXCEPT !.op = "link2", !.path = l.arg, !.old = i])
                         /\ UNCHANGED <<disk, holder, ofile, panic>>)

\* The link is counted before its entry is written.
Link(p) ==
    LET l == loc[p]  i == l.ip
    IN  /\ Runs(p, "link")
        /\ Ilock(i, IF Loaded(i).type = "dir"
                    THEN /\ Load({i}) /\ Put(p, Idle, i, "user")
                         /\ UNCHANGED <<disk, ref, holder, ofile, panic>>
                    ELSE /\ Update([x \in {i} |-> [Loaded(i) EXCEPT !.nlink = @ + 1]])
                         /\ Walk(p, [l EXCEPT !.op = "link2", !.path = l.arg, !.old = i])
                         /\ UNCHANGED <<bitmap, block, holder, ofile, panic>>)

LinkDir(p) ==
    LET l == loc[p]  dp == l.dp  x == Lookup(dp, Head(l.path))
    IN  /\ Runs(p, "link_dir")
        /\ Ilock(dp, /\ Load({dp})
                     /\ IF x # 0
                        THEN /\ Get(x) /\ holder' = [holder EXCEPT ![dp] = p]
                             /\ Put(p, l, x, "link_dup") /\ UNCHANGED block
                        ELSE /\ block' = Linked(dp, Head(l.path), l.old)
                             /\ Put(p, [l EXCEPT !.dp = 0], dp, "link_done")
                             /\ UNCHANGED <<ref, holder>>
                     /\ UNCHANGED <<dinode, bitmap, ofile, panic>>)

LinkDup(p) == LET l == loc[p]
              IN  /\ Runs(p, "link_dup")
                  /\ holder' = [holder EXCEPT ![l.dp] = NoProc]
                  /\ Put(p, [l EXCEPT !.dp = 0], l.dp, "link_bad")
                  /\ UNCHANGED <<disk, core, valid, ref, ofile, panic>>

LinkDone(p) == /\ Runs(p, "link_done")
               /\ Put(p, Idle, loc[p].old, "user")
               /\ UNCHANGED <<disk, cache, ofile, panic>>

LinkBad(p) == LET i == loc[p].old
              IN  /\ Runs(p, "link_bad")
                  /\ Ilock(i, /\ Update([x \in {i} |-> [Loaded(i) EXCEPT !.nlink = @ - 1]])
                              /\ Put(p, Idle, i, "user")
                              /\ UNCHANGED <<bitmap, block, ref, holder, ofile, panic>>)

----------------------------------------------------------------------------
\* No call is in a transaction.
AtRest == \A p \in Proc : pc[p] \in {"user", "write_link"}

\* The machine stops; the log brings back a state at rest.
Crash == /\ panic = "none" /\ AtRest
         /\ core' = [i \in Inum |-> FreeInode] /\ valid' = {}
         /\ ref' = [i \in Inum |-> 0] /\ holder' = [i \in Inum |-> NoProc]
         /\ ofile' = [p \in Proc |-> 0]
         /\ pc' = [p \in Proc |-> "user"] /\ loc' = [p \in Proc |-> Idle]
         /\ UNCHANGED <<disk, calls, panic>>

Init == /\ dinode = [i \in Inum |-> IF i = RootInum THEN RootInode ELSE FreeInode]
        /\ bitmap = {RootInode.addr}
        /\ block = [b \in Block |-> IF b = RootInode.addr THEN RootBlock ELSE Zeroed]
        /\ core = [i \in Inum |-> FreeInode] /\ valid = {}
        /\ ref = [i \in Inum |-> 0] /\ holder = [i \in Inum |-> NoProc]
        /\ ofile = [p \in Proc |-> 0]
        /\ pc = [p \in Proc |-> "user"] /\ loc = [p \in Proc |-> Idle]
        /\ calls = 0 /\ panic = "none"

Calls(p) == /\ calls < MaxCall /\ calls' = calls + 1
            /\ \E c \in Menu : Call(p, c.op, c.path, c.arg)
Steps(p) == \/ Close(p) \/ IputCheck(p) \/ IputFree(p) \/ IputDrop(p) \/ Step(p) \/ OpenLock(p)
            \/ Create(p) \/ Exists(p) \/ Created(p) \/ WriteLink(p)
            \/ Unlink(p) \/ UnlinkEntry(p) \/ UnlinkBad(p) \/ UnlinkDrop(p)
            \/ Link(p) \/ LinkDir(p) \/ LinkDup(p) \/ LinkDone(p) \/ LinkBad(p)

Next == \E p \in Proc : Calls(p) \/ (Steps(p) /\ UNCHANGED calls)
Spec == Init /\ [][Next]_vars

\* The machine may stop and start again.
CrashSpec == Init /\ [][Next \/ Crash]_vars

----------------------------------------------------------------------------
(* Properties *)

TypeOK ==
    LET inode == [type : {"free", "dir", "file", "sym"}, nlink : Nat, size : {0, 1},
                  addr : Block \union {0}]
        maybe == Inum \union {0}
    IN  /\ dinode \in [Inum -> inode] /\ core \in [Inum -> inode] /\ valid \subseteq Inum
        /\ ref \in [Inum -> Nat] /\ holder \in [Inum -> Proc \union {NoProc}]
        /\ bitmap \subseteq Block /\ DOMAIN block = Block
        /\ \A b \in Block, k \in Slot : block[b].slot[k] \in
               [name : Name \union {NoName}, inum : maybe]
        /\ ofile \in [Proc -> maybe]
        /\ \A p \in Proc : {loc[p].ip, loc[p].dp, loc[p].old, loc[p].put} \subseteq maybe

\* Whatever calls run together, and after any crash, no panic but those of a
\* full disk is reached: no file that is in use loses its inode or its block
\* (fs.c:310 "ilock: no type", fs.c:92 "freeing free block", sysfile.c:211).
NoPanic == panic \in {"none", "ialloc: no inodes", "balloc: out of blocks"}

Allocated == {i \in Inum : dinode[i].type # "free"}
Dirs == {i \in Allocated : dinode[i].type = "dir"}

\* The entries of directories that name i, and those of i that name directories.
Names(i)   == {e \in Dirs \X Slot : block[dinode[e[1]].addr].slot[e[2]].inum = i}
Subdirs(i) == {d \in Dirs : \E k \in Slot : block[dinode[i].addr].slot[k].inum = d}

\* An inode counts at least the entries that name it, so that it is not freed
\* under one of them.  A directory counts its subdirectories, too; it has one
\* name, in the directory that its ".." leads to (sysfile.c:117-238, 270-275).
LinksCounted ==
    \A i \in Inum :
        /\ Cardinality(Names(i)) <= dinode[i].nlink
        /\ i \in Dirs =>
               /\ Cardinality(Names(i)) + Cardinality(Subdirs(i)) <= dinode[i].nlink
               /\ \A e \in Names(i) : /\ Names(i) = {e}
                                      /\ block[dinode[i].addr].up = e[1]

\* Where p is, or goes on after iput().
At(p) == IF pc[p] \in {"put", "put_free", "put_drop"} THEN loc[p].after ELSE pc[p]

\* The inodes that the call of p keeps locked from one of its steps to the next.
Locked(p) == {i \in Inum : \/ pc[p] = "put_free" /\ i = loc[p].put
                           \/ At(p) \in {"created", "unlink_drop"} /\ i = loc[p].ip
                           \/ At(p) \in {"unlink_ip", "unlink_bad", "link_dup"} /\ i = loc[p].dp}

\* The references to i that descriptors and the calls in progress hold.
Refers(p, by) == IF by = "file" THEN ofile[p] ELSE loc[p][by]
Holds(i) == {r \in Proc \X {"file", "ip", "dp", "old", "put"} : Refers(r[1], r[2]) = i}

\* A directory that open() reached through a link: locked and referred to for good.
Lost(i, p) == i \in Dirs /\ holder[i] = p /\ i \notin Locked(p)
              /\ ref[i] > Cardinality(Holds(i))

\* A lock is held by the call that needs it and by no other, on every path out
\* of a call; the exception is an inode that open() lost (sysfile.c:324-327).
LocksMatch == \A p \in Proc, i \in Inum : /\ i \in Locked(p) => holder[i] = p
                                          /\ holder[i] = p => i \in Locked(p) \/ Lost(i, p)

\* ip->ref counts the descriptors and the calls that use an inode.  It counts
\* too many only of a symbolic link that open() followed, and of a directory
\* that it lost (sysfile.c:312-327).
RefsCounted ==
    \A i \in Inum : /\ ref[i] >= Cardinality(Holds(i))
                    /\ ref[i] > Cardinality(Holds(i)) =>
                           dinode[i].type = "sym" \/ \E p \in Proc : Lost(i, p)

\* Every way out of every call, the error paths included, gives back just the
\* locks and references that the call took (sysfile.c:112-345).
HoldingsMatch == LocksMatch /\ RefsCounted

\* At rest, and so on the disk after a crash, no block belongs to two inodes,
\* and four checks of fscheck.c are silent.  The other four speak up only where
\* the kernel does what they do not expect: symbolic links (type 4), a file
\* that lost its last name while open, a hole in a directory, and an inode
\* created in a directory that was being removed (fscheck.c:83-252).
ImageSound ==
    AtRest /\ panic = "none" =>
        /\ \A i, j \in Allocated : dinode[i].addr = dinode[j].addr /\ dinode[i].addr # 0 => i = j
        /\ ~DataMarkedFree(dinode, bitmap) /\ ~BadSize(dinode)
        /\ ~NoRoot(dinode, block) /\ ~BadCurrent(dinode, block)
        /\ FreeReferred(dinode, block) =>
               \E d \in Dirs \ {RootInum} : dinode[d].nlink > 0 /\ Names(d) = {}
        /\ BadInode(dinode) => \E i \in Allocated : dinode[i].type = "sym"
        /\ MarkedUnused(dinode, bitmap) =>
               \E i \in Allocated : dinode[i].nlink = 0 /\ dinode[i].addr # 0
        /\ UsedNotFound(dinode, block) =>
               \/ \E i \in Allocated \ {RootInum} :
                      dinode[i].nlink > 0 /\ \A e \in Names(i) : dinode[e[1]].nlink = 0
               \/ \E d \in Dirs, j, k \in Slot :
                      LET slot == block[dinode[d].addr].slot
                      IN  j < k /\ slot[j].inum = 0 /\ slot[k].inum # 0

\* "The separation also helps avoid deadlock and races during pathname lookup"
\* (fs.c:150): processes never wait for each other's inodes in a circle.
Wants(p) == CASE pc[p] = "put" -> {loc[p].put}
              [] pc[p] \in {"walk", "open", "exists", "unlink_ip", "link"} -> {loc[p].ip}
              [] pc[p] \in {"create", "unlink", "link_dir"} -> {loc[p].dp}
              [] pc[p] = "link_bad" -> {loc[p].old}
              [] pc[p] = "write_link" -> {ofile[p]}
              [] OTHER -> {}
Waits(p, q) == p # q /\ \E i \in Wants(p) : holder[i] = q /\ pc[q] # "user"
NoDeadlock == ~\E p, q \in Proc : Waits(p, q) /\ Waits(q, p)
=============================================================================
