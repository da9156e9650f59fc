--------------------------- MODULE EffectPromise ---------------------------
(***************************************************************************)
(* What the idempotency store promises, without claims, tokens, leases or  *)
(* consumers: while the effect of a key is remembered it is not performed  *)
(* again, and it is forgotten only after its retention lapsed.  An effect  *)
(* whose commit throws afterwards is performed and not remembered: the     *)
(* store promises nothing of how often that happens.                       *)
(***************************************************************************)
EXTENDS Naturals

CONSTANTS Keys

VARIABLES
  performed,  \* how often the effect of each key was performed
  memory      \* what is remembered of each key

vars == <<performed, memory>>

Init ==
  /\ performed = [k \in Keys |-> 0]
  /\ memory = [k \in Keys |-> "unknown"]

Perform(k) ==
  /\ memory[k] = "unknown"
  /\ performed' = [performed EXCEPT ![k] = @ + 1]
  /\ memory' = [memory EXCEPT ![k] = "done"]

\* The commit throws after the effect.
PerformUnremembered(k) ==
  /\ memory[k] = "unknown"
  /\ performed' = [performed EXCEPT ![k] = @ + 1]
  /\ UNCHANGED memory

Lapse(k) ==
  /\ memory[k] = "done"
  /\ memory' = [memory EXCEPT ![k] = "lapsed"]
  /\ UNCHANGED performed

Forget(k) ==
  /\ memory[k] = "lapsed"
  /\ memory' = [memory EXCEPT ![k] = "unknown"]
  /\ UNCHANGED performed

Next == \E k \in Keys : Perform(k) \/ PerformUnremembered(k) \/ Lapse(k) \/ Forget(k)

Spec == Init /\ [][Next]_vars
=============================================================================
