---------------------------- MODULE ObjectStore ----------------------------
(***************************************************************************)
(* The durable object store (src/storage/local-object-store.ts): its state *)
(* file, its control journal and the files of its objects, written one     *)
(* durable step at a time by transactions that may be cut short anywhere,  *)
(* and the deliveries of deletion events, which run outside the root lock. *)
(*                                                                         *)
(* One transaction at a time holds the root lock, and starts by reconciling*)
(* what the journal holds of one that was cut short.  A transaction that   *)
(* writes the disk once is one action, enabled when the lock is free and   *)
(* the journal empty; writing an object and progressing a deletion take    *)
(* several steps, and tx says where their transaction is.  Recovery needs  *)
(* no memory: each of its steps follows from what is on disk.              *)
(***************************************************************************)
EXTENDS Integers

CONSTANTS
  Objects,    \* namespace and key of an object, and so the path of its bytes
  Foreign,    \* objects whose bytes something other than the store may put in place
  MaxFaults   \* bound on crashes, errors, failing callbacks and late heartbeats

ASSUME ObjectStoreAssumption ==
  /\ Foreign \subseteq Objects
  /\ MaxFaults \in Nat

VARIABLES
  marker,      \* whether the initialization marker exists
  stored,      \* whether the state file exists
  refs,        \* the lifecycle of each object, as the state file has it
  intents,     \* the deletion intent of each object, as the state file has it
  files,       \* the objects whose bytes are in place, under their own name
  copies,      \* how many temporary copies of the bytes of each object there are
  journal,     \* the operations prepared and not completed
  tx,          \* the transaction that holds the root lock
  deliveries,  \* the callbacks under way
  told,        \* the objects whose deletion a receiver was told of
  issued,      \* how many delivery claims were issued
  faults       \* how many faults there were

vars == <<marker, stored, refs, intents, files, copies, journal, tx, deliveries, told, issued, faults>>

-----------------------------------------------------------------------------
\* active: readable.  withheld: rights taken back, or another deletion state,
\* without an intent.  removed: with a deletion intent.
Lifecycle == {"absent", "active", "withheld", "removed"}

\* Before the bytes are known to be gone, and after.
Doomed == {"pending_delete", "physical_delete_pending"}
Gone == {"physically_deleted", "delivery_pending", "delivery_claimed", "delivered"}
Phase == {"none"} \cup Doomed \cup Gone

DeletionIntent == [phase: Phase, claim: Nat, lapsed: BOOLEAN]
At(phase) == [phase |-> phase, claim |-> 0, lapsed |-> FALSE]

PreparedOperation == [kind: {"put", "delete"}, object: Objects]
Op(kind, o) == [kind |-> kind, object |-> o]

NoTx == [pc |-> "none"]
Tx(pc, o) == [pc |-> pc, object |-> o]
Transaction == {NoTx} \cup [pc: {"copy", "prepare", "link", "unlink", "save", "complete", "progress"}, object: Objects]

\* A delivery and what became of its callback.
Delivery == [object: Objects, claim: Nat, pc: {"calling", "told", "failed"}]

Init ==
  /\ marker = FALSE /\ stored = FALSE
  /\ refs = [o \in Objects |-> "absent"]
  /\ intents = [o \in Objects |-> At("none")]
  /\ files = {} /\ journal = {} /\ tx = NoTx
  /\ copies = [o \in Objects |-> 0]
  /\ deliveries = {} /\ told = {}
  /\ issued = 0 /\ faults = 0

-----------------------------------------------------------------------------
\* Nobody holds the root lock, and nothing is left to reconcile.
Free == tx = NoTx /\ journal = {}

Fault == faults < MaxFaults /\ faults' = faults + 1

\* Slip: an operation goes to the disk before the journal knows of it.
SlipUnjournalled(op) == journal \ {op}

Prepared(op) == journal \cup {op}

\* Slip: any object the store knows may be written, removed ones too.
SlipAnyWritable(o) == refs[o] \in Lifecycle

\* The policy denies an object that is not readable.
Writable(o) == refs[o] \in {"absent", "active"}

\* Slip: the operation is prepared before the state says that bytes may go.
SlipErasableAtOnce(o) == intents[o].phase \in Doomed

Erasable(o) == intents[o].phase = "physical_delete_pending"

\* Slip: a claim is taken from whoever holds it.
SlipTakenAtOnce(o) == intents[o].phase = "delivery_claimed"

\* Slip: a claim is never taken back.
SlipNeverTaken(o) == o \notin Objects

\* The claim of a delivery outlived its lease.
RunOut(o) == intents[o].phase = "delivery_claimed" /\ intents[o].lapsed

\* The claim of delivery d is the one in the state file.
Current(d) == intents[d.object].phase = "delivery_claimed" /\ intents[d.object].claim = d.claim

Held(o) == \E d \in deliveries : d.object = o /\ Current(d)

\* Slip: an intent keeps the claim of its last delivery.
SlipClaimKept(o, phase) == [intents EXCEPT ![o].phase = phase]

\* The intents once that of o is in another phase, without a claim.
Marked(o, phase) == [intents EXCEPT ![o] = At(phase)]

-----------------------------------------------------------------------------
(* write. *)

\* loadState initializes a root without state: the marker comes first.
BeginWrite(o) ==
  /\ Free
  /\ stored \/ (~marker /\ files = {})
  /\ Writable(o)
  /\ marker' = TRUE
  /\ tx' = Tx("copy", o)
  /\ UNCHANGED <<stored, refs, intents, files, copies, journal, deliveries, told, issued, faults>>

\* The principal or the bytes of a first write are refused: the marker stays.
RefuseFirstWrite ==
  /\ Free
  /\ ~stored /\ ~marker /\ files = {}
  /\ marker' = TRUE
  /\ UNCHANGED <<stored, refs, intents, files, copies, journal, tx, deliveries, told, issued, faults>>

\* The bytes are written and synced under a temporary name of their own, before
\* the journal knows of the write.
WriteCopy(o) ==
  /\ tx = Tx("copy", o)
  /\ copies' = [copies EXCEPT ![o] = @ + 1]
  /\ tx' = Tx("prepare", o)
  /\ UNCHANGED <<marker, stored, refs, intents, files, journal, deliveries, told, issued, faults>>

PrepareWrite(o) ==
  /\ tx = Tx("prepare", o)
  /\ journal' = Prepared(Op("put", o))
  /\ tx' = Tx("link", o)
  /\ UNCHANGED <<marker, stored, refs, intents, files, copies, deliveries, told, issued, faults>>

CopyRemoved(o) == [copies EXCEPT ![o] = @ - 1]

\* The copy is linked to the object's own name.
Link(o) ==
  /\ tx = Tx("link", o)
  /\ o \notin files
  /\ files' = files \cup {o}
  /\ tx' = Tx("unlink", o)
  /\ UNCHANGED <<marker, stored, refs, intents, copies, journal, deliveries, told, issued, faults>>

Unlink(o) ==
  /\ tx = Tx("unlink", o)
  /\ copies' = CopyRemoved(o)
  /\ tx' = Tx("save", o)
  /\ UNCHANGED <<marker, stored, refs, intents, files, journal, deliveries, told, issued, faults>>

\* The bytes are in place already: the copy is removed and the two are compared.
LinkExisting(o) ==
  /\ tx = Tx("link", o)
  /\ o \in files /\ refs[o] # "absent"
  /\ copies' = CopyRemoved(o)
  /\ tx' = Tx("save", o)
  /\ UNCHANGED <<marker, stored, refs, intents, files, journal, deliveries, told, issued, faults>>

\* Bytes nobody registered are in place: the write fails, and stays prepared.
LinkUntracked(o) ==
  /\ tx = Tx("link", o)
  /\ o \in files /\ refs[o] = "absent"
  /\ copies' = CopyRemoved(o)
  /\ tx' = NoTx
  /\ UNCHANGED <<marker, stored, refs, intents, files, journal, deliveries, told, issued, faults>>

SaveWrite(o) ==
  /\ tx = Tx("save", o)
  /\ refs' = [refs EXCEPT ![o] = "active"]
  /\ stored' = TRUE
  /\ tx' = Tx("complete", o)
  /\ UNCHANGED <<marker, intents, files, copies, journal, deliveries, told, issued, faults>>

CompleteWrite(o) ==
  /\ tx = Tx("complete", o)
  /\ journal' = journal \ {Op("put", o)}
  /\ tx' = NoTx
  /\ UNCHANGED <<marker, stored, refs, intents, files, copies, deliveries, told, issued, faults>>

\* Recovery registers the bytes of a prepared put that are in place.
RecoverWrite(o) ==
  /\ tx = NoTx /\ Op("put", o) \in journal
  /\ o \in files /\ refs[o] = "absent"
  /\ refs' = [refs EXCEPT ![o] = "active"]
  /\ stored' = TRUE
  /\ UNCHANGED <<marker, intents, files, copies, journal, tx, deliveries, told, issued, faults>>

RecoverWriteDone(o) ==
  /\ tx = NoTx /\ Op("put", o) \in journal
  /\ o \in files => refs[o] = "active"
  /\ journal' = journal \ {Op("put", o)}
  /\ UNCHANGED <<marker, stored, refs, intents, files, copies, tx, deliveries, told, issued, faults>>

-----------------------------------------------------------------------------
(* setLifecycle and delete. *)

\* Rights are revoked, or the deletion state is set without an intent.
Withhold(o) ==
  /\ Free
  /\ refs[o] = "active"
  /\ refs' = [refs EXCEPT ![o] = "withheld"]
  /\ UNCHANGED <<marker, stored, intents, files, copies, journal, tx, deliveries, told, issued, faults>>

\* delete marks the object; the rest of its work is that of progressDeletion,
\* which retryPendingDeletions calls as well.
Mark(o) ==
  /\ Free
  /\ refs[o] = "active"
  /\ refs' = [refs EXCEPT ![o] = "removed"]
  /\ intents' = Marked(o, "pending_delete")
  /\ UNCHANGED <<marker, stored, files, copies, journal, tx, deliveries, told, issued, faults>>

\* progressDeletion finds work to do.
BeginProgress(o) ==
  /\ Free
  /\ intents[o].phase \notin {"none", "delivered"}
  /\ intents[o].phase = "delivery_claimed" => RunOut(o)
  /\ tx' = Tx("progress", o)
  /\ UNCHANGED <<marker, stored, refs, intents, files, copies, journal, deliveries, told, issued, faults>>

SavePending(o) ==
  /\ tx = Tx("progress", o)
  /\ intents[o].phase = "pending_delete" /\ journal = {}
  /\ intents' = Marked(o, "physical_delete_pending")
  /\ UNCHANGED <<marker, stored, refs, files, copies, journal, tx, deliveries, told, issued, faults>>

PrepareErase(o) ==
  /\ tx = Tx("progress", o)
  /\ Erasable(o) /\ journal = {}
  /\ journal' = Prepared(Op("delete", o))
  /\ UNCHANGED <<marker, stored, refs, intents, files, copies, tx, deliveries, told, issued, faults>>

\* The three steps that follow are those of the transaction and of recovery alike.
Erasing(o) == tx \in {NoTx, Tx("progress", o)} /\ Op("delete", o) \in journal

Erase(o) ==
  /\ Erasing(o)
  /\ Erasable(o) /\ o \in files
  /\ files' = files \ {o}
  /\ UNCHANGED <<marker, stored, refs, intents, copies, journal, tx, deliveries, told, issued, faults>>

SaveErased(o) ==
  /\ Erasing(o)
  /\ Erasable(o) /\ o \notin files
  /\ intents' = Marked(o, "physically_deleted")
  /\ UNCHANGED <<marker, stored, refs, files, copies, journal, tx, deliveries, told, issued, faults>>

CompleteErase(o) ==
  /\ Erasing(o)
  /\ intents[o].phase \in Gone /\ o \notin files
  /\ journal' = journal \ {Op("delete", o)}
  /\ UNCHANGED <<marker, stored, refs, intents, files, copies, tx, deliveries, told, issued, faults>>

\* Delivery is due, for the first time or because a claim ran out.
AwaitDelivery(o) ==
  /\ tx = Tx("progress", o) /\ journal = {}
  /\ intents[o].phase = "physically_deleted" \/ RunOut(o)
  /\ intents' = Marked(o, "delivery_pending")
  /\ UNCHANGED <<marker, stored, refs, files, copies, journal, tx, deliveries, told, issued, faults>>

\* The claim is saved, the transaction ends, and the callback starts.
Claim(o) ==
  /\ tx = Tx("progress", o) /\ journal = {}
  /\ intents[o].phase = "delivery_pending" /\ o \notin files
  /\ issued' = issued + 1
  /\ intents' = [intents EXCEPT ![o] = [phase |-> "delivery_claimed", claim |-> issued', lapsed |-> FALSE]]
  /\ deliveries' = deliveries \cup {[object |-> o, claim |-> issued', pc |-> "calling"]}
  /\ tx' = NoTx
  /\ UNCHANGED <<marker, stored, refs, files, copies, journal, told, faults>>

-----------------------------------------------------------------------------
(* Deliveries. *)

Moved(d, pc) == (deliveries \ {d}) \cup {[object |-> d.object, claim |-> d.claim, pc |-> pc]}

CallbackReturns(d) ==
  /\ d.pc = "calling"
  /\ told' = told \cup {d.object}
  /\ deliveries' = Moved(d, "told")
  /\ UNCHANGED <<marker, stored, refs, intents, files, copies, journal, tx, issued, faults>>

\* The callback throws, before or after the receiver took the event.
CallbackThrows(d) ==
  /\ d.pc = "calling" /\ Fault
  /\ told' \in {told, told \cup {d.object}}
  /\ deliveries' = Moved(d, "failed")
  /\ UNCHANGED <<marker, stored, refs, intents, files, copies, journal, tx, issued>>

\* The transaction that would acknowledge throws.
AcknowledgeThrows(d) ==
  /\ d.pc = "told" /\ Fault
  /\ deliveries' = Moved(d, "failed")
  /\ UNCHANGED <<marker, stored, refs, intents, files, copies, journal, tx, told, issued>>

\* finishDeletionClaim does nothing for a claim that is no longer current.
Finish(d, pc, phase) ==
  /\ Free
  /\ d.pc = pc
  /\ intents' = IF Current(d) THEN Marked(d.object, phase) ELSE intents
  /\ deliveries' = deliveries \ {d}
  /\ UNCHANGED <<marker, stored, refs, files, copies, journal, tx, told, issued, faults>>

Acknowledge(d) == d.object \notin files /\ Finish(d, "told", "delivered")

GiveBack(d) == Finish(d, "failed", "delivery_pending")

Heartbeat(d) ==
  /\ Free
  /\ Current(d) /\ RunOut(d.object) /\ d.object \notin files
  /\ intents' = [intents EXCEPT ![d.object] =
       [phase |-> "delivery_claimed", claim |-> d.claim, lapsed |-> FALSE]]
  /\ UNCHANGED <<marker, stored, refs, files, copies, journal, tx, deliveries, told, issued, faults>>

-----------------------------------------------------------------------------
(* What else happens. *)

\* The transaction throws or its process dies: the root lock is free again.  A
\* write that throws while it links removes its copy; one that dies leaves it, and
\* so does one that throws before its operation is prepared.
Interrupt ==
  /\ tx # NoTx /\ Fault
  /\ tx' = NoTx
  /\ \/ UNCHANGED copies
     \/ tx.pc \in {"link", "unlink"} /\ copies' = CopyRemoved(tx.object)
  /\ UNCHANGED <<marker, stored, refs, intents, files, journal, deliveries, told, issued>>

\* The process of a delivery dies.
Die(d) ==
  /\ Fault
  /\ deliveries' = deliveries \ {d}
  /\ UNCHANGED <<marker, stored, refs, intents, files, copies, journal, tx, told, issued>>

Expired(o) ==
  /\ intents[o].phase = "delivery_claimed" /\ ~intents[o].lapsed
  /\ intents' = [intents EXCEPT ![o] =
       [phase |-> "delivery_claimed", claim |-> intents[o].claim, lapsed |-> TRUE]]
  /\ UNCHANGED <<marker, stored, refs, files, copies, journal, tx, deliveries, told, issued>>

\* The lease of a claim ends that nobody heartbeats any more.
LeaseEnds(o) == ~Held(o) /\ Expired(o) /\ UNCHANGED faults

\* The lease of a claim ends under its holder, whose heartbeats came late.
HeartbeatsLate(o) == Held(o) /\ Expired(o) /\ Fault

\* Bytes are put in place past the store.
PutForeign(o) ==
  /\ o \in Foreign
  /\ marker /\ refs[o] = "absent"
  /\ files' = files \cup {o}
  /\ UNCHANGED <<marker, stored, refs, intents, copies, journal, tx, deliveries, told, issued, faults>>

-----------------------------------------------------------------------------
WriteStep(o) ==
  \/ WriteCopy(o) \/ PrepareWrite(o) \/ Link(o) \/ Unlink(o) \/ LinkExisting(o) \/ LinkUntracked(o)
  \/ SaveWrite(o) \/ CompleteWrite(o)
  \/ RecoverWrite(o) \/ RecoverWriteDone(o)

DeleteStep(o) ==
  \/ SavePending(o) \/ PrepareErase(o) \/ Erase(o) \/ SaveErased(o) \/ CompleteErase(o)
  \/ AwaitDelivery(o) \/ Claim(o)

DeliveryStep(d) ==
  \/ CallbackReturns(d) \/ CallbackThrows(d) \/ AcknowledgeThrows(d)
  \/ Acknowledge(d) \/ GiveBack(d) \/ Heartbeat(d) \/ Die(d)

Next ==
  \/ \E o \in Objects :
       \/ BeginWrite(o) \/ Withhold(o) \/ Mark(o) \/ BeginProgress(o)
       \/ WriteStep(o) \/ DeleteStep(o)
       \/ LeaseEnds(o) \/ HeartbeatsLate(o) \/ PutForeign(o)
  \/ \E d \in deliveries : DeliveryStep(d)
  \/ RefuseFirstWrite \/ Interrupt

Spec == Init /\ [][Next]_vars

Of(o) == {d \in deliveries : d.object = o}

\* Transactions and callbacks come to an end, time passes, and deletions are
\* retried for as long as there are any.  A transaction that waits for the
\* root lock again and again gets it.
Fairness ==
  \A o \in Objects :
    /\ WF_vars(WriteStep(o)) /\ WF_vars(DeleteStep(o)) /\ WF_vars(LeaseEnds(o))
    /\ WF_vars(\E d \in Of(o) : CallbackReturns(d))
    /\ SF_vars(\E d \in Of(o) : Acknowledge(d)) /\ SF_vars(\E d \in Of(o) : GiveBack(d))
    /\ SF_vars(BeginProgress(o))

FairSpec == Spec /\ Fairness
-----------------------------------------------------------------------------
(* Properties. *)

TypeOK ==
  /\ marker \in BOOLEAN /\ stored \in BOOLEAN
  /\ refs \in [Objects -> Lifecycle]
  /\ intents \in [Objects -> DeletionIntent]
  /\ files \subseteq Objects
  /\ copies \in [Objects -> Nat]
  /\ journal \subseteq PreparedOperation
  /\ tx \in Transaction
  /\ deliveries \subseteq Delivery
  /\ told \subseteq Objects
  /\ issued \in Nat /\ faults \in 0 .. MaxFaults
  /\ \A o \in Objects :
       intents[o].phase # "delivery_claimed" => intents[o] = At(intents[o].phase)

\* Whether the transaction under way has a copy of the bytes of o on the disk.
HoldsCopy(o) == tx.pc \in {"prepare", "link", "unlink"} /\ tx.object = o

\* Wherever a write is cut short, bytes under the name of their object are known to
\* the state file or to the journal.  The temporary copies are known to neither,
\* and recovery never removes one; but each copy that outlives its write is the
\* work of a fault, and a write that ends by itself, even one that is refused by
\* the bytes it meets, leaves none.
NoUntrackedBytes ==
  /\ \A o \in files \ Foreign : refs[o] # "absent" \/ Op("put", o) \in journal
  /\ \A o \in Objects : copies[o] <= faults + (IF HoldsCopy(o) THEN 1 ELSE 0)

\* Wherever a transaction is cut short, recovery can reconcile what it left in
\* the journal: it never meets a put in conflict with the state, an intent that
\* is not ready for the deletion, or bytes that should be gone.
RecoveryCanReconcile ==
  \A op \in journal :
    /\ op.kind = "put" => refs[op.object] \in {"absent", "active"}
    /\ op.kind = "delete" =>
         /\ intents[op.object].phase \in {"physical_delete_pending"} \cup Gone
         /\ intents[op.object].phase \in Gone => op.object \notin files

\* Nobody but its own delivery ends a claim of o that is within its lease.
Honoured(o) ==
  /\ intents[o].phase = "delivery_claimed" /\ ~intents[o].lapsed
  /\ intents'[o].claim # intents[o].claim
  => \E d \in deliveries : d.object = o /\ Current(d) /\ d \notin deliveries'

\* A claim within its lease is ended by its own delivery and by nobody else.
ClaimRespected == [][\A o \in Objects : Honoured(o)]_vars

\* What the store promises of each object: DeletionPromise.  An object that is
\* active without its bytes has no place there.
Standing(o) ==
  CASE refs[o] = "active" -> IF o \in files THEN "kept" ELSE "broken"
    [] refs[o] = "removed" ->
         IF o \in files THEN "condemned"
         ELSE IF intents[o].phase = "delivered" THEN "closed"
         ELSE IF o \in told THEN "reported" ELSE "erased"
    [] OTHER -> refs[o]

Promise == INSTANCE DeletionPromise WITH standing <- [o \in Objects |-> Standing(o)]

KeepsPromise == Promise!Spec

\* Whatever is cut short, fails or dies, a deletion that was recorded is
\* carried out, reported and closed.
EventuallyDelivered ==
  \A o \in Objects : refs[o] = "removed" ~> intents[o].phase = "delivered"

\* A root the store initialized has a state, or a put to recover it from.
InitializedHasState ==
  tx = NoTx /\ marker => stored \/ \E o \in files : Op("put", o) \in journal
=============================================================================
