------------------------- MODULE PublicationPromise -------------------------
(***************************************************************************)
(* What the local publication plane promises its readers and operators,    *)
(* without records, manifests or a cache: one live version, a token that   *)
(* counts the moves of it, the routes withdrawn, and the routes a reader   *)
(* gets an answer for.  A reader only ever sees routes of the live version *)
(* that are not withdrawn.                                                 *)
(***************************************************************************)
EXTENDS Integers

CONSTANTS Versions, Locales

VARIABLES
  live,     \* the version published, 0 when there is none
  token,    \* the token an operator has to present to move it
  gone,     \* the withdrawn routes
  visible   \* the routes a reader is answered

vars == <<live, token, gone, visible>>

RoutesOf(v) == {v} \X Locales

Init == live = 0 /\ token = 0 /\ gone = {} /\ visible = {}

Coherent == visible' \subseteq RoutesOf(live') \ gone'

\* A version goes live; whatever was withdrawn of it before is forgotten.
Publish(v) ==
  /\ live' = v
  /\ token' = token + 1
  /\ gone' = gone \ RoutesOf(v)
  /\ Coherent

\* A version goes live and is taken back in one go: two moves for nothing.
PublishUndone(v) ==
  /\ live' = live
  /\ token' = token + 2
  /\ gone' = gone \ RoutesOf(v)
  /\ Coherent

\* Back to another version; what is withdrawn stays withdrawn.
Return(v) ==
  /\ v # live
  /\ live' = v
  /\ token' = token + 1
  /\ gone' = gone
  /\ Coherent

\* Nothing is published or withdrawn; withdrawals of v may be forgotten.
Prepare(v) ==
  /\ UNCHANGED <<live, token>>
  /\ gone' = gone \ RoutesOf(v)
  /\ Coherent

\* Routes of v are withdrawn while the live version stays.
WithdrawRoutes(v) ==
  /\ UNCHANGED <<live, token>>
  /\ gone \subseteq gone' /\ gone' \subseteq gone \cup RoutesOf(v)
  /\ Coherent

Next == \E v \in Versions :
  Publish(v) \/ PublishUndone(v) \/ Return(v) \/ Prepare(v) \/ WithdrawRoutes(v)

Spec == Init /\ [][Next]_vars
=============================================================================
