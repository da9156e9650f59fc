-------------------------- MODULE DeletionPromise --------------------------
(***************************************************************************)
(* What the object store promises of an object, without journal, claims,   *)
(* transactions or faults: bytes that are kept can be read; a deletion is  *)
(* closed only after the bytes are gone and a receiver was told; nothing   *)
(* deleted ever comes back.                                                *)
(***************************************************************************)
CONSTANTS Objects

VARIABLES standing  \* where each object stands

Init == standing = [o \in Objects |-> "absent"]

Move(o, from, to) == standing[o] = from /\ standing' = [standing EXCEPT ![o] = to]

Keep(o) == Move(o, "absent", "kept")
Withhold(o) == Move(o, "kept", "withheld")
Condemn(o) == Move(o, "kept", "condemned")
Erase(o) == Move(o, "condemned", "erased")
Report(o) == Move(o, "erased", "reported")
Close(o) == Move(o, "reported", "closed")

Next ==
  \E o \in Objects :
    Keep(o) \/ Withhold(o) \/ Condemn(o) \/ Erase(o) \/ Report(o) \/ Close(o)

Spec == Init /\ [][Next]_standing
=============================================================================
