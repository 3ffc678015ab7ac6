----------------------------- MODULE GroupByKey -----------------------------
(***************************************************************************)
(* What MR_Run() promises.  While the mappers run, keys are emitted; then  *)
(* every key that was emitted is reduced once, with all that was emitted   *)
(* for it, and no key is emitted any more.                                 *)
(***************************************************************************)
EXTENDS Naturals, Sequences

CONSTANT Key

VARIABLES emitted,  \* key -> how many times it was emitted
          out       \* the reductions: a sequence of [key, count]

Init == emitted = [k \in Key |-> 0] /\ out = <<>>

Emit(k) == /\ out = <<>>
           /\ emitted' = [emitted EXCEPT ![k] = @ + 1]
           /\ UNCHANGED out

Reduce(k) == /\ emitted[k] > 0
             /\ \A j \in DOMAIN out : out[j].key # k
             /\ out' = Append(out, [key |-> k, count |-> emitted[k]])
             /\ UNCHANGED emitted

Next == \E k \in Key : Emit(k) \/ Reduce(k)

Spec == Init /\ [][Next]_<<emitted, out>>
=============================================================================
