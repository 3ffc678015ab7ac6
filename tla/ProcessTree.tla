---------------------------- MODULE ProcessTree ----------------------------
(***************************************************************************)
(* What fork(), exit() and wait() promise their callers: a tree of         *)
(* processes.  Every process but init has a parent that has not exited;    *)
(* when a process exits its children go to init; an exited process is      *)
(* reported to its parent once; no two processes have the same pid.        *)
(***************************************************************************)
EXTENDS Naturals

CONSTANTS Pid,   \* process identifiers
          InitPid

VARIABLES live,    \* processes that run
          exited,  \* processes that have exited and were not waited for
          parent   \* of each of them, its parent

vars == <<live, exited, parent>>

\* init is its own parent here.
Init == live = {InitPid} /\ exited = {} /\ parent = [p \in {InitPid} |-> InitPid]

Fork(p, child) ==
    /\ p \in live
    /\ child \notin live \union exited
    /\ live' = live \union {child}
    /\ parent' = [q \in DOMAIN parent \union {child} |-> IF q = child THEN p ELSE parent[q]]
    /\ UNCHANGED exited

Exit(p) ==
    /\ p \in live \ {InitPid}
    /\ live' = live \ {p} /\ exited' = exited \union {p}
    /\ parent' = [q \in DOMAIN parent |-> IF parent[q] = p THEN InitPid ELSE parent[q]]

Reap(p, child) ==
    /\ p \in live /\ child \in exited /\ parent[child] = p
    /\ exited' = exited \ {child}
    /\ parent' = [q \in DOMAIN parent \ {child} |-> parent[q]]
    /\ UNCHANGED live

Next == \E p, q \in Pid : Fork(p, q) \/ Exit(p) \/ Reap(p, q)

Spec == Init /\ [][Next]_vars
=============================================================================
