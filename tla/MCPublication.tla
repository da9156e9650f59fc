--------------------------- MODULE MCPublication ---------------------------
(* Publication on a small instance: the first version has no routes, like *)
(* P2L-B0, and the others have a route in every locale; the manifest of    *)
(* the third was built from a caller's snapshot, which names the first as  *)
(* its predecessor.                                                        *)
EXTENDS Publication

RoutesOfP2L == [v \in Versions |-> IF v = 1 THEN {} ELSE Locales]
PreviousOfP2L == [v \in Versions |-> IF v = 1 THEN 0 ELSE 1]
=============================================================================
