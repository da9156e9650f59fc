------------------------- MODULE ObjectStoreProofs -------------------------
(***************************************************************************)
(* Theorems about ObjectStore, for any objects, any bytes put in place     *)
(* past the store, and any number of faults.                               *)
(***************************************************************************)
EXTENDS ObjectStore, TLAPS

\* Bytes that are active are in place; an object is removed with its intent.
Registered ==
  \A o \in Objects :
    /\ refs[o] = "active" => o \in files
    /\ refs[o] = "removed" <=> intents[o].phase # "none"

\* What the state file says is gone is gone, and only that is told.
BytesGone ==
  \A o \in Objects :
    /\ intents[o].phase \in Gone => o \notin files
    /\ o \in told => intents[o].phase \in Gone

\* How far the transaction is, the disk agrees: the journal holds its operation
\* and no other.
TxSound ==
  /\ tx.pc \in {"copy", "prepare", "link", "unlink", "save", "complete"} =>
       /\ journal \subseteq {Op("put", tx.object)}
       /\ refs[tx.object] \in {"absent", "active"}
       /\ tx.pc \in {"copy", "prepare"} => journal = {}
       /\ tx.pc \notin {"copy", "prepare"} => Op("put", tx.object) \in journal
       /\ tx.pc \in {"unlink", "save", "complete"} => tx.object \in files
       /\ tx.pc = "complete" => refs[tx.object] = "active"
  /\ tx.pc = "progress" =>
       /\ journal \subseteq {Op("delete", tx.object)}
       /\ intents[tx.object].phase # "none"

\* A delivery is of a deletion whose bytes are gone, current or not.
DeliverySound ==
  \A d \in deliveries :
    /\ intents[d.object].phase \in {"delivery_pending", "delivery_claimed", "delivered"}
    /\ d.pc = "told" => d.object \in told

\* A write removes a copy only when it has one.
CopySound == \A o \in Objects : HoldsCopy(o) => copies[o] # 0

Safe ==
  CopySound /\ Registered /\ BytesGone /\ TxSound /\ DeliverySound /\ NoUntrackedBytes /\ RecoveryCanReconcile

IInv == TypeOK /\ Safe

-----------------------------------------------------------------------------
LEMMA InitIInv == Init => IInv
<1> SUFFICES ASSUME Init PROVE TypeOK /\ Safe
  BY DEF IInv
<1>1. TypeOK
  <2>1. intents \in [Objects -> DeletionIntent]
    BY DEF Init, DeletionIntent, Phase, At
  <2>2. tx \in Transaction
    BY DEF Init, Transaction
  <2>3. \A o \in Objects : intents[o] = At(intents[o].phase)
    BY DEF Init, At
  <2>4. faults \in 0 .. MaxFaults
    BY ObjectStoreAssumption DEF Init
  <2> QED BY <2>1, <2>2, <2>3, <2>4 DEF Init, TypeOK, Lifecycle
<1>2. Safe
  BY DEF Init, Safe, Registered, BytesGone, TxSound, DeliverySound, NoUntrackedBytes,
         RecoveryCanReconcile, Gone, At, NoTx, CopySound, HoldsCopy
<1> QED BY <1>1, <1>2

-----------------------------------------------------------------------------

(* Every step keeps the types. *)
LEMMA TypeStep ==
  ASSUME TypeOK, CopySound, [Next]_vars
  PROVE  TypeOK'
<1> USE DEF TypeOK, Lifecycle, DeletionIntent, Phase, Doomed, Gone, At,
            PreparedOperation, Op, Transaction, NoTx, Tx, Delivery
<1>1. ASSUME NEW o \in Objects, BeginWrite(o) PROVE TypeOK'
  BY <1>1, ObjectStoreAssumption DEF BeginWrite, Free, Writable
<1>2. ASSUME NEW o \in Objects, Withhold(o) PROVE TypeOK'
  BY <1>2, ObjectStoreAssumption DEF Withhold, Free
<1>3. ASSUME NEW o \in Objects, Mark(o) PROVE TypeOK'
  BY <1>3, ObjectStoreAssumption DEF Mark, Free, Marked
<1>4. ASSUME NEW o \in Objects, BeginProgress(o) PROVE TypeOK'
  BY <1>4, ObjectStoreAssumption DEF BeginProgress, Free, RunOut
<1>5. ASSUME NEW o \in Objects, PrepareWrite(o) PROVE TypeOK'
  BY <1>5, ObjectStoreAssumption DEF PrepareWrite, Prepared
<1>6. ASSUME NEW o \in Objects, Link(o) PROVE TypeOK'
  BY <1>6, ObjectStoreAssumption DEF Link
<1>32. ASSUME NEW o \in Objects, WriteCopy(o) PROVE TypeOK'
  BY <1>32, ObjectStoreAssumption DEF WriteCopy
<1>33. ASSUME NEW o \in Objects, HoldsCopy(o), copies' = CopyRemoved(o) PROVE copies' \in [Objects -> Nat]
  <2>1. copies[o] \in Nat /\ copies[o] # 0
    BY <1>33 DEF CopySound
  <2>2. copies[o] - 1 \in Nat
    BY <2>1
  <2> QED BY <1>33, <2>2 DEF CopyRemoved
<1>34. ASSUME NEW o \in Objects, Unlink(o) PROVE TypeOK'
  <2>1. copies' \in [Objects -> Nat]
    BY <1>33, <1>34 DEF Unlink, HoldsCopy
  <2> QED BY <1>34, <2>1, ObjectStoreAssumption DEF Unlink
<1>35. ASSUME NEW o \in Objects, LinkExisting(o) PROVE TypeOK'
  <2>1. copies' \in [Objects -> Nat]
    BY <1>33, <1>35 DEF LinkExisting, HoldsCopy
  <2> QED BY <1>35, <2>1, ObjectStoreAssumption DEF LinkExisting
<1>7. ASSUME NEW o \in Objects, LinkUntracked(o) PROVE TypeOK'
  <2>1. copies' \in [Objects -> Nat]
    BY <1>7, <1>33 DEF LinkUntracked, HoldsCopy
  <2> QED BY <1>7, <2>1, ObjectStoreAssumption DEF LinkUntracked
<1>8. ASSUME NEW o \in Objects, SaveWrite(o) PROVE TypeOK'
  BY <1>8, ObjectStoreAssumption DEF SaveWrite
<1>9. ASSUME NEW o \in Objects, CompleteWrite(o) PROVE TypeOK'
  BY <1>9, ObjectStoreAssumption DEF CompleteWrite
<1>10. ASSUME NEW o \in Objects, RecoverWrite(o) PROVE TypeOK'
  BY <1>10, ObjectStoreAssumption DEF RecoverWrite
<1>11. ASSUME NEW o \in Objects, RecoverWriteDone(o) PROVE TypeOK'
  BY <1>11, ObjectStoreAssumption DEF RecoverWriteDone
<1>12. ASSUME NEW o \in Objects, SavePending(o) PROVE TypeOK'
  BY <1>12, ObjectStoreAssumption DEF SavePending, Marked
<1>13. ASSUME NEW o \in Objects, PrepareErase(o) PROVE TypeOK'
  BY <1>13, ObjectStoreAssumption DEF PrepareErase, Prepared, Erasable
<1>14. ASSUME NEW o \in Objects, Erase(o) PROVE TypeOK'
  BY <1>14, ObjectStoreAssumption DEF Erase, Erasable, Erasing
<1>15. ASSUME NEW o \in Objects, SaveErased(o) PROVE TypeOK'
  BY <1>15, ObjectStoreAssumption DEF SaveErased, Erasable, Erasing, Marked
<1>16. ASSUME NEW o \in Objects, CompleteErase(o) PROVE TypeOK'
  BY <1>16, ObjectStoreAssumption DEF CompleteErase, Erasing
<1>17. ASSUME NEW o \in Objects, AwaitDelivery(o) PROVE TypeOK'
  BY <1>17, ObjectStoreAssumption DEF AwaitDelivery, RunOut, Marked
<1>18. ASSUME NEW o \in Objects, Claim(o) PROVE TypeOK'
  <2>1. issued' \in Nat /\ intents' \in [Objects -> DeletionIntent]
    BY <1>18 DEF Claim
  <2>2. deliveries' \subseteq Delivery
    BY <1>18, <2>1 DEF Claim
  <2> QED BY <1>18, <2>1, <2>2 DEF Claim
<1>19. ASSUME NEW o \in Objects, LeaseEnds(o) PROVE TypeOK'
  BY <1>19, ObjectStoreAssumption DEF LeaseEnds, Current, Held, Expired
<1>20. ASSUME NEW o \in Objects, HeartbeatsLate(o) PROVE TypeOK'
  <2>1. intents' \in [Objects -> DeletionIntent]
    BY <1>20 DEF HeartbeatsLate, Expired
  <2>2. faults' \in 0 .. MaxFaults
    BY <1>20, ObjectStoreAssumption DEF HeartbeatsLate, Fault
  <2> QED BY <1>20, <2>1, <2>2 DEF HeartbeatsLate, Expired
<1>21. ASSUME NEW o \in Objects, PutForeign(o) PROVE TypeOK'
  BY <1>21, ObjectStoreAssumption DEF PutForeign
<1>22. ASSUME NEW d \in deliveries, CallbackReturns(d) PROVE TypeOK'
  BY <1>22, ObjectStoreAssumption DEF CallbackReturns, Moved
<1>23. ASSUME NEW d \in deliveries, CallbackThrows(d) PROVE TypeOK'
  BY <1>23, ObjectStoreAssumption DEF CallbackThrows, Fault, Moved
<1>24. ASSUME NEW d \in deliveries, AcknowledgeThrows(d) PROVE TypeOK'
  BY <1>24, ObjectStoreAssumption DEF AcknowledgeThrows, Fault, Moved
<1>25. ASSUME NEW d \in deliveries, Acknowledge(d) PROVE TypeOK'
  BY <1>25, ObjectStoreAssumption DEF Acknowledge, Free, Current, Marked, Finish
<1>26. ASSUME NEW d \in deliveries, GiveBack(d) PROVE TypeOK'
  BY <1>26, ObjectStoreAssumption DEF GiveBack, Free, Current, Marked, Finish
<1>27. ASSUME NEW d \in deliveries, Heartbeat(d) PROVE TypeOK'
  BY <1>27, ObjectStoreAssumption DEF Heartbeat, Free, RunOut, Current
<1>28. ASSUME NEW d \in deliveries, Die(d) PROVE TypeOK'
  BY <1>28, ObjectStoreAssumption DEF Die, Fault
<1>29. CASE RefuseFirstWrite
  BY <1>29, ObjectStoreAssumption DEF RefuseFirstWrite, Free
<1>30. CASE Interrupt
  <2>1. copies' \in [Objects -> Nat]
    <3>1. CASE UNCHANGED copies
      BY <3>1
    <3>2. CASE tx.pc \in {"link", "unlink"} /\ copies' = CopyRemoved(tx.object)
      <4>1. tx.object \in Objects /\ HoldsCopy(tx.object)
        BY <3>2 DEF HoldsCopy
      <4> QED BY <1>33, <3>2, <4>1
    <3> QED BY <1>30, <3>1, <3>2 DEF Interrupt
  <2> QED BY <1>30, <2>1, ObjectStoreAssumption DEF Interrupt, Fault
<1>31. CASE UNCHANGED vars
  BY <1>31 DEF vars
<1> QED
  BY <1>1, <1>2, <1>3, <1>4, <1>5, <1>6, <1>7, <1>8, <1>9, <1>10, <1>11, <1>12, <1>13, <1>14, <1>15,
     <1>16, <1>17, <1>18, <1>19, <1>20, <1>21, <1>22, <1>23, <1>24, <1>25, <1>26, <1>27, <1>28,
     <1>29, <1>30, <1>31, <1>32, <1>34, <1>35
     DEF Next, WriteStep, DeleteStep, DeliveryStep

(* Every step keeps what the disk, the transaction and the deliveries owe each *)
(* other.                                                                      *)
LEMMA SafeStep ==
  ASSUME TypeOK, TypeOK', Safe, [Next]_vars
  PROVE  Safe'
<1> USE DEF Safe, Registered, BytesGone, TxSound, DeliverySound, NoUntrackedBytes, RecoveryCanReconcile,
            CopySound, HoldsCopy, CopyRemoved, TypeOK, Lifecycle, DeletionIntent, Phase, Doomed, Gone, At,
            PreparedOperation, Op, Transaction, NoTx, Tx, Delivery
<1>1. ASSUME NEW o \in Objects, BeginWrite(o) PROVE Safe'
  BY <1>1 DEF BeginWrite, Free, Writable
<1>2. ASSUME NEW o \in Objects, Withhold(o) PROVE Safe'
  BY <1>2 DEF Withhold, Free
<1>3. ASSUME NEW o \in Objects, Mark(o) PROVE Safe'
  BY <1>3 DEF Mark, Free, Marked
<1>4. ASSUME NEW o \in Objects, BeginProgress(o) PROVE Safe'
  BY <1>4 DEF BeginProgress, Free, RunOut
<1>5. ASSUME NEW o \in Objects, PrepareWrite(o) PROVE Safe'
  BY <1>5 DEF PrepareWrite, Prepared
<1>6. ASSUME NEW o \in Objects, Link(o) PROVE Safe'
  BY <1>6 DEF Link
<1>32. ASSUME NEW o \in Objects, WriteCopy(o) PROVE Safe'
  BY <1>32 DEF WriteCopy
<1>34. ASSUME NEW o \in Objects, Unlink(o) PROVE Safe'
  BY <1>34 DEF Unlink
<1>35. ASSUME NEW o \in Objects, LinkExisting(o) PROVE Safe'
  BY <1>35 DEF LinkExisting
<1>7. ASSUME NEW o \in Objects, LinkUntracked(o) PROVE Safe'
  BY <1>7 DEF LinkUntracked
<1>8. ASSUME NEW o \in Objects, SaveWrite(o) PROVE Safe'
  BY <1>8 DEF SaveWrite
<1>9. ASSUME NEW o \in Objects, CompleteWrite(o) PROVE Safe'
  BY <1>9 DEF CompleteWrite
<1>10. ASSUME NEW o \in Objects, RecoverWrite(o) PROVE Safe'
  BY <1>10 DEF RecoverWrite
<1>11. ASSUME NEW o \in Objects, RecoverWriteDone(o) PROVE Safe'
  BY <1>11 DEF RecoverWriteDone
<1>12. ASSUME NEW o \in Objects, SavePending(o) PROVE Safe'
  BY <1>12 DEF SavePending, Marked
<1>13. ASSUME NEW o \in Objects, PrepareErase(o) PROVE Safe'
  BY <1>13 DEF PrepareErase, Prepared, Erasable
<1>14. ASSUME NEW o \in Objects, Erase(o) PROVE Safe'
  BY <1>14 DEF Erase, Erasable, Erasing
<1>15. ASSUME NEW o \in Objects, SaveErased(o) PROVE Safe'
  BY <1>15 DEF SaveErased, Erasable, Erasing, Marked
<1>16. ASSUME NEW o \in Objects, CompleteErase(o) PROVE Safe'
  BY <1>16 DEF CompleteErase, Erasing
<1>17. ASSUME NEW o \in Objects, AwaitDelivery(o) PROVE Safe'
  BY <1>17 DEF AwaitDelivery, RunOut, Marked
<1>18. ASSUME NEW o \in Objects, Claim(o) PROVE Safe'
  BY <1>18 DEF Claim
<1>19. ASSUME NEW o \in Objects, LeaseEnds(o) PROVE Safe'
  BY <1>19 DEF LeaseEnds, Current, Held, Expired
<1>20. ASSUME NEW o \in Objects, HeartbeatsLate(o) PROVE Safe'
  BY <1>20 DEF HeartbeatsLate, Fault, Current, Held, Expired
<1>21. ASSUME NEW o \in Objects, PutForeign(o) PROVE Safe'
  BY <1>21 DEF PutForeign
<1>22. ASSUME NEW d \in deliveries, CallbackReturns(d) PROVE Safe'
  BY <1>22 DEF CallbackReturns, Moved
<1>23. ASSUME NEW d \in deliveries, CallbackThrows(d) PROVE Safe'
  BY <1>23 DEF CallbackThrows, Fault, Moved
<1>24. ASSUME NEW d \in deliveries, AcknowledgeThrows(d) PROVE Safe'
  BY <1>24 DEF AcknowledgeThrows, Fault, Moved
<1>25. ASSUME NEW d \in deliveries, Acknowledge(d) PROVE Safe'
  BY <1>25 DEF Acknowledge, Free, Current, Marked, Finish
<1>26. ASSUME NEW d \in deliveries, GiveBack(d) PROVE Safe'
  BY <1>26 DEF GiveBack, Free, Current, Marked, Finish
<1>27. ASSUME NEW d \in deliveries, Heartbeat(d) PROVE Safe'
  BY <1>27 DEF Heartbeat, Free, RunOut, Current
<1>28. ASSUME NEW d \in deliveries, Die(d) PROVE Safe'
  BY <1>28 DEF Die, Fault
<1>29. CASE RefuseFirstWrite
  BY <1>29 DEF RefuseFirstWrite, Free
<1>30. CASE Interrupt
  BY <1>30 DEF Interrupt, Fault
<1>31. CASE UNCHANGED vars
  BY <1>31 DEF vars
<1> QED
  BY <1>1, <1>2, <1>3, <1>4, <1>5, <1>6, <1>7, <1>8, <1>9, <1>10, <1>11, <1>12, <1>13, <1>14, <1>15,
     <1>16, <1>17, <1>18, <1>19, <1>20, <1>21, <1>22, <1>23, <1>24, <1>25, <1>26, <1>27, <1>28,
     <1>29, <1>30, <1>31, <1>32, <1>34, <1>35
     DEF Next, WriteStep, DeleteStep, DeliveryStep

(* The invariant of the proofs holds throughout: wherever a step is cut short,  *)
(* disk, journal, transaction and deliveries still agree.                       *)
THEOREM Invariance == Spec => []IInv
<1>1. Init => IInv
  BY InitIInv
<1>2. IInv /\ [Next]_vars => IInv'
  BY TypeStep, SafeStep DEF IInv, Safe
<1> QED BY <1>1, <1>2, PTL DEF Spec

(* State file, journal, transaction and claims keep their shape; only an intent *)
(* that is claimed names a claim.                                               *)
THEOREM TypeCorrect == Spec => []TypeOK
<1>1. IInv => TypeOK
  BY DEF IInv
<1> QED BY <1>1, Invariance, PTL

(* Bytes under the name of an object are known to the state or to the journal, and *)
(* the temporary copies, which are known to neither, are the work of faults: no    *)
(* more of them outlive their writes than faults there were.                       *)
THEOREM NoUntrackedBytesAlways == Spec => []NoUntrackedBytes
<1>1. IInv => NoUntrackedBytes
  BY DEF IInv, Safe
<1> QED BY <1>1, Invariance, PTL

(* Recovery can reconcile whatever a transaction cut short left in the journal. *)
THEOREM RecoveryCanReconcileAlways == Spec => []RecoveryCanReconcile
<1>1. IInv => RecoveryCanReconcile
  BY DEF IInv, Safe
<1> QED BY <1>1, Invariance, PTL

-----------------------------------------------------------------------------
LEMMA HonouredStep ==
  ASSUME IInv, [Next]_vars, NEW o \in Objects
  PROVE  Honoured(o)
<1> SUFFICES ASSUME intents[o].phase = "delivery_claimed", ~intents[o].lapsed,
                    intents'[o].claim # intents[o].claim
             PROVE  \E d \in deliveries : d.object = o /\ Current(d) /\ d \notin deliveries'
  BY DEF Honoured
<1>1. intents \in [Objects -> DeletionIntent] /\ Registered
  BY DEF IInv, TypeOK, Safe
<1>2. CASE \E d \in deliveries : Acknowledge(d) \/ GiveBack(d)
  <2>1. PICK d \in deliveries : Acknowledge(d) \/ GiveBack(d)
    BY <1>2
  <2>2. Current(d) /\ d.object = o
    BY <1>1, <2>1 DEF Acknowledge, GiveBack, Finish, Marked, DeletionIntent
  <2>3. d \notin deliveries'
    BY <2>1 DEF Acknowledge, GiveBack, Finish
  <2> QED BY <2>2, <2>3
<1>3. CASE \E d \in deliveries : Heartbeat(d)
  BY <1>1, <1>3 DEF Heartbeat, RunOut, Current, DeletionIntent
<1>4. CASE \E p \in Objects : Mark(p)
  BY <1>1, <1>4 DEF Mark, Marked, Registered, DeletionIntent
<1>5. CASE \E p \in Objects : SavePending(p) \/ SaveErased(p) \/ AwaitDelivery(p) \/ Claim(p)
  BY <1>1, <1>5 DEF SavePending, SaveErased, AwaitDelivery, Claim, Erasable, RunOut, Marked, DeletionIntent
<1>6. CASE \E p \in Objects : LeaseEnds(p) \/ HeartbeatsLate(p)
  BY <1>1, <1>6 DEF LeaseEnds, HeartbeatsLate, Expired, DeletionIntent
<1>7. CASE UNCHANGED intents
  BY <1>7
<1> QED
  BY <1>2, <1>3, <1>4, <1>5, <1>6, <1>7
     DEF Next, WriteStep, DeleteStep, DeliveryStep, vars, BeginWrite, Withhold, BeginProgress,
         WriteCopy, PrepareWrite, Link, Unlink, LinkExisting, LinkUntracked, SaveWrite, CompleteWrite, RecoverWrite, RecoverWriteDone,
         PrepareErase, Erase, CompleteErase, PutForeign, CallbackReturns, CallbackThrows,
         AcknowledgeThrows, Die, RefuseFirstWrite, Interrupt

(* A claim within its lease is ended by its own delivery and by nobody else,    *)
(* whatever else is retried, lapses or dies meanwhile.                          *)
THEOREM ClaimRespectedAlways == Spec => ClaimRespected
<1>1. IInv /\ [Next]_vars => \A o \in Objects : Honoured(o)
  BY HonouredStep
<1> QED BY <1>1, Invariance, PTL DEF Spec, ClaimRespected

-----------------------------------------------------------------------------
(* The implementation of DeletionPromise. *)

Standings == [o \in Objects |-> Standing(o)]

LEMMA InitPromise == Init => Promise!Init
BY DEF Init, Promise!Init, Standing

\* The store moves an object when nothing else about any object changes.
LEMMA OneMoves ==
  ASSUME NEW o \in Objects, \A p \in Objects \ {o} : Standing(p)' = Standing(p)
  PROVE  /\ Standings' = [Standings EXCEPT ![o] = Standing(o)']
         /\ Standing(o)' = Standing(o) => Standings' = Standings
BY Zenon DEF Standings

\* What an action does to one object is a move of the promise, or no move.
LEMMA MoveMaps ==
  ASSUME NEW o \in Objects, \A p \in Objects \ {o} : Standing(p)' = Standing(p),
         \/ Standing(o)' = Standing(o)
         \/ Standing(o) = "absent" /\ Standing(o)' = "kept"
         \/ Standing(o) = "kept" /\ Standing(o)' \in {"withheld", "condemned"}
         \/ Standing(o) = "condemned" /\ Standing(o)' = "erased"
         \/ Standing(o) = "erased" /\ Standing(o)' = "reported"
         \/ Standing(o) = "reported" /\ Standing(o)' = "closed"
  PROVE  [Promise!Next]_Standings
<1>1. Standings' = [Standings EXCEPT ![o] = Standing(o)'] /\ Standings[o] = Standing(o)
  BY OneMoves DEF Standings
<1>2. CASE Standing(o)' = Standing(o)
  BY <1>2, OneMoves
<1>3. CASE Standing(o) = "absent" /\ Standing(o)' = "kept"
  BY <1>1, <1>3, Zenon DEF Promise!Next, Promise!Keep, Promise!Move, Standings
<1>4. CASE Standing(o) = "kept" /\ Standing(o)' = "withheld"
  BY <1>1, <1>4, Zenon DEF Promise!Next, Promise!Withhold, Promise!Move, Standings
<1>5. CASE Standing(o) = "kept" /\ Standing(o)' = "condemned"
  BY <1>1, <1>5, Zenon DEF Promise!Next, Promise!Condemn, Promise!Move, Standings
<1>6. CASE Standing(o) = "condemned" /\ Standing(o)' = "erased"
  BY <1>1, <1>6, Zenon DEF Promise!Next, Promise!Erase, Promise!Move, Standings
<1>7. CASE Standing(o) = "erased" /\ Standing(o)' = "reported"
  BY <1>1, <1>7, Zenon DEF Promise!Next, Promise!Report, Promise!Move, Standings
<1>8. CASE Standing(o) = "reported" /\ Standing(o)' = "closed"
  BY <1>1, <1>8, Zenon DEF Promise!Next, Promise!Close, Promise!Move, Standings
<1> QED BY <1>2, <1>3, <1>4, <1>5, <1>6, <1>7, <1>8

\* Nothing moves when state file, files and reports stay as they are.
LEMMA NothingMoves ==
  ASSUME UNCHANGED <<refs, intents, files, told>>
  PROVE  Standings' = Standings
BY DEF Standings, Standing

LEMMA NextPromise ==
  ASSUME IInv, IInv', [Next]_vars
  PROVE  [Promise!Next]_Standings
<1> USE DEF IInv, Safe, Registered, BytesGone, TxSound, DeliverySound, RecoveryCanReconcile,
            TypeOK, Lifecycle, DeletionIntent, Phase, Doomed, Gone, Op, Standing
<1>1. ASSUME NEW o \in Objects, Link(o) PROVE [Promise!Next]_Standings
  <2>1. \A p \in Objects \ {o} : Standing(p)' = Standing(p)
    BY <1>1 DEF Link, Tx
  <2>2. \/ Standing(o)' = Standing(o)
        \/ Standing(o) = "absent" /\ Standing(o)' = "kept"
        \/ Standing(o) = "kept" /\ Standing(o)' \in {"withheld", "condemned"}
        \/ Standing(o) = "condemned" /\ Standing(o)' = "erased"
        \/ Standing(o) = "erased" /\ Standing(o)' = "reported"
        \/ Standing(o) = "reported" /\ Standing(o)' = "closed"
    BY <1>1 DEF Link, Tx
  <2> QED BY <2>1, <2>2, MoveMaps
<1>2. ASSUME NEW o \in Objects, SaveWrite(o) PROVE [Promise!Next]_Standings
  <2>1. \A p \in Objects \ {o} : Standing(p)' = Standing(p)
    BY <1>2 DEF SaveWrite, Tx
  <2>2. \/ Standing(o)' = Standing(o)
        \/ Standing(o) = "absent" /\ Standing(o)' = "kept"
        \/ Standing(o) = "kept" /\ Standing(o)' \in {"withheld", "condemned"}
        \/ Standing(o) = "condemned" /\ Standing(o)' = "erased"
        \/ Standing(o) = "erased" /\ Standing(o)' = "reported"
        \/ Standing(o) = "reported" /\ Standing(o)' = "closed"
    BY <1>2 DEF SaveWrite, Tx
  <2> QED BY <2>1, <2>2, MoveMaps
<1>3. ASSUME NEW o \in Objects, RecoverWrite(o) PROVE [Promise!Next]_Standings
  <2>1. \A p \in Objects \ {o} : Standing(p)' = Standing(p)
    BY <1>3 DEF RecoverWrite
  <2>2. \/ Standing(o)' = Standing(o)
        \/ Standing(o) = "absent" /\ Standing(o)' = "kept"
        \/ Standing(o) = "kept" /\ Standing(o)' \in {"withheld", "condemned"}
        \/ Standing(o) = "condemned" /\ Standing(o)' = "erased"
        \/ Standing(o) = "erased" /\ Standing(o)' = "reported"
        \/ Standing(o) = "reported" /\ Standing(o)' = "closed"
    BY <1>3 DEF RecoverWrite
  <2> QED BY <2>1, <2>2, MoveMaps
<1>4. ASSUME NEW o \in Objects, Withhold(o) PROVE [Promise!Next]_Standings
  <2>1. \A p \in Objects \ {o} : Standing(p)' = Standing(p)
    BY <1>4 DEF Withhold
  <2>2. \/ Standing(o)' = Standing(o)
        \/ Standing(o) = "absent" /\ Standing(o)' = "kept"
        \/ Standing(o) = "kept" /\ Standing(o)' \in {"withheld", "condemned"}
        \/ Standing(o) = "condemned" /\ Standing(o)' = "erased"
        \/ Standing(o) = "erased" /\ Standing(o)' = "reported"
        \/ Standing(o) = "reported" /\ Standing(o)' = "closed"
    BY <1>4 DEF Withhold
  <2> QED BY <2>1, <2>2, MoveMaps
<1>5. ASSUME NEW o \in Objects, Mark(o) PROVE [Promise!Next]_Standings
  <2>1. \A p \in Objects \ {o} : Standing(p)' = Standing(p)
    BY <1>5 DEF Mark, Marked, At
  <2>2. \/ Standing(o)' = Standing(o)
        \/ Standing(o) = "absent" /\ Standing(o)' = "kept"
        \/ Standing(o) = "kept" /\ Standing(o)' \in {"withheld", "condemned"}
        \/ Standing(o) = "condemned" /\ Standing(o)' = "erased"
        \/ Standing(o) = "erased" /\ Standing(o)' = "reported"
        \/ Standing(o) = "reported" /\ Standing(o)' = "closed"
    BY <1>5 DEF Mark, Marked, At
  <2> QED BY <2>1, <2>2, MoveMaps
<1>6. ASSUME NEW o \in Objects, SavePending(o) PROVE [Promise!Next]_Standings
  <2>1. \A p \in Objects \ {o} : Standing(p)' = Standing(p)
    BY <1>6 DEF SavePending, Marked, At
  <2>2. \/ Standing(o)' = Standing(o)
        \/ Standing(o) = "absent" /\ Standing(o)' = "kept"
        \/ Standing(o) = "kept" /\ Standing(o)' \in {"withheld", "condemned"}
        \/ Standing(o) = "condemned" /\ Standing(o)' = "erased"
        \/ Standing(o) = "erased" /\ Standing(o)' = "reported"
        \/ Standing(o) = "reported" /\ Standing(o)' = "closed"
    BY <1>6 DEF SavePending, Marked, At
  <2> QED BY <2>1, <2>2, MoveMaps
<1>7. ASSUME NEW o \in Objects, Erase(o) PROVE [Promise!Next]_Standings
  <2>1. \A p \in Objects \ {o} : Standing(p)' = Standing(p)
    BY <1>7 DEF Erase, Erasable
  <2>2. \/ Standing(o)' = Standing(o)
        \/ Standing(o) = "absent" /\ Standing(o)' = "kept"
        \/ Standing(o) = "kept" /\ Standing(o)' \in {"withheld", "condemned"}
        \/ Standing(o) = "condemned" /\ Standing(o)' = "erased"
        \/ Standing(o) = "erased" /\ Standing(o)' = "reported"
        \/ Standing(o) = "reported" /\ Standing(o)' = "closed"
    BY <1>7 DEF Erase, Erasable
  <2> QED BY <2>1, <2>2, MoveMaps
<1>8. ASSUME NEW o \in Objects, SaveErased(o) PROVE [Promise!Next]_Standings
  <2>1. \A p \in Objects \ {o} : Standing(p)' = Standing(p)
    BY <1>8 DEF SaveErased, Erasable, Marked, At
  <2>2. \/ Standing(o)' = Standing(o)
        \/ Standing(o) = "absent" /\ Standing(o)' = "kept"
        \/ Standing(o) = "kept" /\ Standing(o)' \in {"withheld", "condemned"}
        \/ Standing(o) = "condemned" /\ Standing(o)' = "erased"
        \/ Standing(o) = "erased" /\ Standing(o)' = "reported"
        \/ Standing(o) = "reported" /\ Standing(o)' = "closed"
    BY <1>8 DEF SaveErased, Erasable, Marked, At
  <2> QED BY <2>1, <2>2, MoveMaps
<1>9. ASSUME NEW o \in Objects, AwaitDelivery(o) PROVE [Promise!Next]_Standings
  <2>1. \A p \in Objects \ {o} : Standing(p)' = Standing(p)
    BY <1>9 DEF AwaitDelivery, RunOut, Marked, At
  <2>2. \/ Standing(o)' = Standing(o)
        \/ Standing(o) = "absent" /\ Standing(o)' = "kept"
        \/ Standing(o) = "kept" /\ Standing(o)' \in {"withheld", "condemned"}
        \/ Standing(o) = "condemned" /\ Standing(o)' = "erased"
        \/ Standing(o) = "erased" /\ Standing(o)' = "reported"
        \/ Standing(o) = "reported" /\ Standing(o)' = "closed"
    BY <1>9 DEF AwaitDelivery, RunOut, Marked, At
  <2> QED BY <2>1, <2>2, MoveMaps
<1>10. ASSUME NEW o \in Objects, Claim(o) PROVE [Promise!Next]_Standings
  <2>1. \A p \in Objects \ {o} : Standing(p)' = Standing(p)
    BY <1>10 DEF Claim
  <2>2. \/ Standing(o)' = Standing(o)
        \/ Standing(o) = "absent" /\ Standing(o)' = "kept"
        \/ Standing(o) = "kept" /\ Standing(o)' \in {"withheld", "condemned"}
        \/ Standing(o) = "condemned" /\ Standing(o)' = "erased"
        \/ Standing(o) = "erased" /\ Standing(o)' = "reported"
        \/ Standing(o) = "reported" /\ Standing(o)' = "closed"
    BY <1>10 DEF Claim
  <2> QED BY <2>1, <2>2, MoveMaps
<1>11. ASSUME NEW o \in Objects, LeaseEnds(o) PROVE [Promise!Next]_Standings
  <2>1. \A p \in Objects \ {o} : Standing(p)' = Standing(p)
    BY <1>11 DEF LeaseEnds, Expired
  <2>2. \/ Standing(o)' = Standing(o)
        \/ Standing(o) = "absent" /\ Standing(o)' = "kept"
        \/ Standing(o) = "kept" /\ Standing(o)' \in {"withheld", "condemned"}
        \/ Standing(o) = "condemned" /\ Standing(o)' = "erased"
        \/ Standing(o) = "erased" /\ Standing(o)' = "reported"
        \/ Standing(o) = "reported" /\ Standing(o)' = "closed"
    BY <1>11 DEF LeaseEnds, Expired
  <2> QED BY <2>1, <2>2, MoveMaps
<1>12. ASSUME NEW o \in Objects, HeartbeatsLate(o) PROVE [Promise!Next]_Standings
  <2>1. \A p \in Objects \ {o} : Standing(p)' = Standing(p)
    BY <1>12 DEF HeartbeatsLate, Expired
  <2>2. \/ Standing(o)' = Standing(o)
        \/ Standing(o) = "absent" /\ Standing(o)' = "kept"
        \/ Standing(o) = "kept" /\ Standing(o)' \in {"withheld", "condemned"}
        \/ Standing(o) = "condemned" /\ Standing(o)' = "erased"
        \/ Standing(o) = "erased" /\ Standing(o)' = "reported"
        \/ Standing(o) = "reported" /\ Standing(o)' = "closed"
    BY <1>12 DEF HeartbeatsLate, Expired
  <2> QED BY <2>1, <2>2, MoveMaps
<1>13. ASSUME NEW o \in Objects, PutForeign(o) PROVE [Promise!Next]_Standings
  <2>1. \A p \in Objects \ {o} : Standing(p)' = Standing(p)
    BY <1>13 DEF PutForeign
  <2>2. \/ Standing(o)' = Standing(o)
        \/ Standing(o) = "absent" /\ Standing(o)' = "kept"
        \/ Standing(o) = "kept" /\ Standing(o)' \in {"withheld", "condemned"}
        \/ Standing(o) = "condemned" /\ Standing(o)' = "erased"
        \/ Standing(o) = "erased" /\ Standing(o)' = "reported"
        \/ Standing(o) = "reported" /\ Standing(o)' = "closed"
    BY <1>13 DEF PutForeign
  <2> QED BY <2>1, <2>2, MoveMaps
<1>14. ASSUME NEW d \in deliveries, CallbackReturns(d) PROVE [Promise!Next]_Standings
  <2>0. d.object \in Objects
    BY DEF Delivery
  <2>1. \A p \in Objects \ {d.object} : Standing(p)' = Standing(p)
    BY <1>14 DEF CallbackReturns, Delivery
  <2>2. \/ Standing(d.object)' = Standing(d.object)
        \/ Standing(d.object) = "absent" /\ Standing(d.object)' = "kept"
        \/ Standing(d.object) = "kept" /\ Standing(d.object)' \in {"withheld", "condemned"}
        \/ Standing(d.object) = "condemned" /\ Standing(d.object)' = "erased"
        \/ Standing(d.object) = "erased" /\ Standing(d.object)' = "reported"
        \/ Standing(d.object) = "reported" /\ Standing(d.object)' = "closed"
    BY <1>14 DEF CallbackReturns, Delivery
  <2> QED BY <2>0, <2>1, <2>2, MoveMaps
<1>15. ASSUME NEW d \in deliveries, CallbackThrows(d) PROVE [Promise!Next]_Standings
  <2>0. d.object \in Objects
    BY DEF Delivery
  <2>1. \A p \in Objects \ {d.object} : Standing(p)' = Standing(p)
    BY <1>15 DEF CallbackThrows, Delivery
  <2>2. \/ Standing(d.object)' = Standing(d.object)
        \/ Standing(d.object) = "absent" /\ Standing(d.object)' = "kept"
        \/ Standing(d.object) = "kept" /\ Standing(d.object)' \in {"withheld", "condemned"}
        \/ Standing(d.object) = "condemned" /\ Standing(d.object)' = "erased"
        \/ Standing(d.object) = "erased" /\ Standing(d.object)' = "reported"
        \/ Standing(d.object) = "reported" /\ Standing(d.object)' = "closed"
    BY <1>15 DEF CallbackThrows, Delivery
  <2> QED BY <2>0, <2>1, <2>2, MoveMaps
<1>16. ASSUME NEW d \in deliveries, Acknowledge(d) PROVE [Promise!Next]_Standings
  <2>0. d.object \in Objects
    BY DEF Delivery
  <2>1. \A p \in Objects \ {d.object} : Standing(p)' = Standing(p)
    BY <1>16 DEF Acknowledge, Finish, Current, Marked, At, Delivery
  <2>2. \/ Standing(d.object)' = Standing(d.object)
        \/ Standing(d.object) = "absent" /\ Standing(d.object)' = "kept"
        \/ Standing(d.object) = "kept" /\ Standing(d.object)' \in {"withheld", "condemned"}
        \/ Standing(d.object) = "condemned" /\ Standing(d.object)' = "erased"
        \/ Standing(d.object) = "erased" /\ Standing(d.object)' = "reported"
        \/ Standing(d.object) = "reported" /\ Standing(d.object)' = "closed"
    BY <1>16 DEF Acknowledge, Finish, Current, Marked, At, Delivery
  <2> QED BY <2>0, <2>1, <2>2, MoveMaps
<1>17. ASSUME NEW d \in deliveries, GiveBack(d) PROVE [Promise!Next]_Standings
  <2>0. d.object \in Objects
    BY DEF Delivery
  <2>1. \A p \in Objects \ {d.object} : Standing(p)' = Standing(p)
    BY <1>17 DEF GiveBack, Finish, Current, Marked, At, Delivery
  <2>2. \/ Standing(d.object)' = Standing(d.object)
        \/ Standing(d.object) = "absent" /\ Standing(d.object)' = "kept"
        \/ Standing(d.object) = "kept" /\ Standing(d.object)' \in {"withheld", "condemned"}
        \/ Standing(d.object) = "condemned" /\ Standing(d.object)' = "erased"
        \/ Standing(d.object) = "erased" /\ Standing(d.object)' = "reported"
        \/ Standing(d.object) = "reported" /\ Standing(d.object)' = "closed"
    BY <1>17 DEF GiveBack, Finish, Current, Marked, At, Delivery
  <2> QED BY <2>0, <2>1, <2>2, MoveMaps
<1>18. ASSUME NEW d \in deliveries, Heartbeat(d) PROVE [Promise!Next]_Standings
  <2>0. d.object \in Objects
    BY DEF Delivery
  <2>1. \A p \in Objects \ {d.object} : Standing(p)' = Standing(p)
    BY <1>18 DEF Heartbeat, RunOut, Current, Delivery
  <2>2. \/ Standing(d.object)' = Standing(d.object)
        \/ Standing(d.object) = "absent" /\ Standing(d.object)' = "kept"
        \/ Standing(d.object) = "kept" /\ Standing(d.object)' \in {"withheld", "condemned"}
        \/ Standing(d.object) = "condemned" /\ Standing(d.object)' = "erased"
        \/ Standing(d.object) = "erased" /\ Standing(d.object)' = "reported"
        \/ Standing(d.object) = "reported" /\ Standing(d.object)' = "closed"
    BY <1>18 DEF Heartbeat, RunOut, Current, Delivery
  <2> QED BY <2>0, <2>1, <2>2, MoveMaps
<1>19. ASSUME NEW o \in Objects,
                 \/ BeginWrite(o) \/ WriteCopy(o) \/ PrepareWrite(o) \/ Unlink(o)
                 \/ LinkExisting(o) \/ LinkUntracked(o) \/ CompleteWrite(o)
                 \/ RecoverWriteDone(o) \/ BeginProgress(o) \/ PrepareErase(o) \/ CompleteErase(o)
          PROVE  UNCHANGED <<refs, intents, files, told>>
  BY <1>19
     DEF BeginWrite, WriteCopy, PrepareWrite, Unlink, LinkExisting, LinkUntracked, CompleteWrite,
         RecoverWriteDone,
         BeginProgress, PrepareErase, CompleteErase
<1>20. ASSUME NEW d \in deliveries, AcknowledgeThrows(d) \/ Die(d)
          PROVE  UNCHANGED <<refs, intents, files, told>>
  BY <1>20 DEF AcknowledgeThrows, Die
<1>21. CASE RefuseFirstWrite \/ Interrupt \/ UNCHANGED vars
  BY <1>21, NothingMoves DEF RefuseFirstWrite, Interrupt, vars
<1> HIDE DEF IInv, Standing
<1> QED
  BY <1>1, <1>2, <1>3, <1>4, <1>5, <1>6, <1>7, <1>8, <1>9, <1>10, <1>11, <1>12,
     <1>13, <1>14, <1>15, <1>16, <1>17, <1>18, <1>19, <1>20, <1>21, NothingMoves
     DEF Next, WriteStep, DeleteStep, DeliveryStep

(* Journal, recovery, claims and retries implement the promise: whatever is cut *)
(* short, active objects have their bytes, a deletion is closed only once the   *)
(* bytes are gone and a receiver was told, and nothing deleted comes back.      *)
THEOREM ImplementsPromise == Spec => KeepsPromise
BY InitPromise, NextPromise, Invariance, PTL DEF Spec, KeepsPromise, Promise!Spec, Standings
=============================================================================
