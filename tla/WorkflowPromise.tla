-------------------------- MODULE WorkflowPromise --------------------------
(***************************************************************************)
(* What the durable workflow ledger promises, without leases, revisions,   *)
(* workers or time: a run is attempted some number of times, and settles   *)
(* at most once, with the result of its latest attempt.                    *)
(***************************************************************************)
EXTENDS Naturals

CONSTANTS Runs

VARIABLES
  attempts,  \* how many times each run was attempted
  result     \* Unsettled, or the outcome and the attempt it is the result of

vars == <<attempts, result>>

Unsettled == [outcome |-> "none", of |-> 0]
Outcomes == {"succeeded", "failed", "stale_ignored"}

Init ==
  /\ attempts = [r \in Runs |-> 0]
  /\ result = [r \in Runs |-> Unsettled]

Attempt(r) ==
  /\ result[r] = Unsettled
  /\ attempts' = [attempts EXCEPT ![r] = @ + 1]
  /\ UNCHANGED result

Settle(r) ==
  /\ result[r] = Unsettled
  /\ attempts[r] > 0
  /\ \E o \in Outcomes : result' = [result EXCEPT ![r] = [outcome |-> o, of |-> attempts[r]]]
  /\ UNCHANGED attempts

Next == \E r \in Runs : Attempt(r) \/ Settle(r)

Spec == Init /\ [][Next]_vars
=============================================================================
