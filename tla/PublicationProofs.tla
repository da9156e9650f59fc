------------------------- MODULE PublicationProofs -------------------------
(***************************************************************************)
(* Theorems about Publication, for any number of versions, any locales,    *)
(* any routes and any bound on the audit log.                              *)
(*                                                                         *)
(* The store part of the inductive invariant (SoundStore) is stated of a   *)
(* store rather than of the variable, because the activation that fails    *)
(* after its commit passes through a store no state of the system shows.   *)
(***************************************************************************)
EXTENDS Publication, FiniteSetTheorems, TLAPS

\* Well typed, and no active record but the target's.
SoundStore(s) ==
  /\ s \in Store
  /\ \A v \in Versions : s.states[v].status = "active" => s.pointer.publish_version = v

\* The entries that answer 200 are the target's, and it has a record.
CacheSound(s, c) ==
  \A v \in Versions : c[v].status = "active" =>
    /\ s.pointer.publish_version = v
    /\ s.states[v].status # "absent"

IInv ==
  /\ SoundStore(store)
  /\ cache \in [Versions -> CacheEntry]
  /\ Cacheless = {} => CacheSound(store, cache)

USE DEF Versions

-----------------------------------------------------------------------------
(* An activation that is allowed leaves a sound store, with v as its target. *)
LEMMA ActivatedSound ==
  ASSUME NEW s, SoundStore(s), NEW v \in Versions, ActivationAllowed(s, v)
  PROVE  SoundStore(Activated(s, v))
<1> DEFINE t == Activated(s, v)
           current == s.pointer.publish_version
<1>1. s \in Store
  BY DEF SoundStore
<1>2. current \in Versions \cup {0} /\ s.pointer.revision \in Nat
  BY <1>1 DEF Store, LocalPointer
<1>3. t.pointer \in LocalPointer
  BY <1>2 DEF Activated, LocalPointer
<1>4. \A w \in Versions : s.states[w] \in PublicationRecord
  BY <1>1 DEF Store
<1>5. t.states \in [Versions -> PublicationRecord]
  <2>1. ASSUME NEW w \in Versions PROVE t.states[w] \in PublicationRecord
    <3>1. CASE w = v
      BY <3>1, <1>4 DEF Activated, PublicationRecord, Lifecycle
    <3>2. CASE w # v /\ w = current
      <4>1. t.states[w] = Marked(s.states[w], "superseded")
        BY <3>2 DEF Activated
      <4> QED BY <4>1, <1>4 DEF Marked, PublicationRecord, Lifecycle
    <3>3. CASE w # v /\ w # current
      BY <3>3, <1>4 DEF Activated
    <3> QED BY <3>1, <3>2, <3>3
  <2>2. t.states = [w \in Versions |-> t.states[w]]
    BY DEF Activated
  <2> QED BY <2>1, <2>2
<1>6. t.audits \in Seq(PublicationAudit)
  BY <1>1 DEF Activated, Store, PublicationAudit, Event
<1>7. t \in Store
  BY <1>3, <1>5, <1>6 DEF Activated, Store
<1>8. \A w \in Versions : t.states[w].status = "active" => w = v
  <2> SUFFICES ASSUME NEW w \in Versions, w # v, t.states[w].status = "active" PROVE FALSE
    OBVIOUS
  <2>1. CASE w = current
    BY <2>1, <1>4 DEF Activated, Marked, PublicationRecord
  <2>2. CASE w # current
    BY <2>2 DEF Activated, SoundStore
  <2> QED BY <2>1, <2>2
<1> QED BY <1>7, <1>8 DEF SoundStore, Activated

(* A rollback that is allowed leaves a sound store, with the predecessor as its target. *)
LEMMA RolledBackSound ==
  ASSUME NEW s, SoundStore(s), RollbackAllowed(s)
  PROVE  SoundStore(RolledBack(s))
<1> DEFINE t == RolledBack(s)
           current == s.pointer.publish_version
           previous == s.pointer.previous_verified_version
<1>1. s \in Store
  BY DEF SoundStore
<1>2. current \in Versions /\ previous \in Versions /\ s.pointer.revision \in Nat
  BY <1>1 DEF Store, LocalPointer, RollbackAllowed
<1>3. previous # current
  BY <1>2 DEF RollbackAllowed, TargetStatus
<1>4. ManifestPrevious(previous) \in Versions \cup {0}
  BY <1>2, PublicationAssumption DEF ManifestPrevious
<1>5. t.pointer \in LocalPointer
  BY <1>2, <1>4 DEF RolledBack, LocalPointer
<1>6. \A w \in Versions : s.states[w] \in PublicationRecord
  BY <1>1 DEF Store
<1>7. t.states \in [Versions -> PublicationRecord]
  <2>1. ASSUME NEW w \in Versions PROVE t.states[w] \in PublicationRecord
    <3>1. CASE w = previous
      <4>1. t.states[w] = Marked(s.states[w], "active")
        BY <3>1 DEF RolledBack
      <4> QED BY <4>1, <1>6 DEF Marked, PublicationRecord, Lifecycle
    <3>2. CASE w # previous /\ w = current
      <4>1. t.states[w] = Marked(s.states[w], "rolled_back")
        BY <3>2 DEF RolledBack
      <4> QED BY <4>1, <1>6 DEF Marked, PublicationRecord, Lifecycle
    <3>3. CASE w # previous /\ w # current
      BY <3>3, <1>6 DEF RolledBack
    <3> QED BY <3>1, <3>2, <3>3
  <2>2. t.states = [w \in Versions |-> t.states[w]]
    BY DEF RolledBack
  <2> QED BY <2>1, <2>2
<1>8. t.audits \in Seq(PublicationAudit)
  BY <1>1, <1>2 DEF RolledBack, Store, PublicationAudit, Event
<1>9. t \in Store
  BY <1>5, <1>7, <1>8 DEF RolledBack, Store
<1>10. \A w \in Versions : t.states[w].status = "active" => w = previous
  <2> SUFFICES ASSUME NEW w \in Versions, w # previous, t.states[w].status = "active" PROVE FALSE
    OBVIOUS
  <2>1. CASE w = current
    BY <2>1, <1>6 DEF RolledBack, Marked, PublicationRecord
  <2>2. CASE w # current
    BY <2>2 DEF RolledBack, SoundStore
  <2> QED BY <2>1, <2>2
<1> QED BY <1>9, <1>10 DEF SoundStore, RolledBack

(* A withdrawal leaves a sound store and the pointer as it was. *)
LEMMA WithdrawnSound ==
  ASSUME NEW s, SoundStore(s), NEW v \in Versions, NEW ls \in SUBSET Locales
  PROVE  SoundStore(Withdrawn(s, v, ls)) /\ Withdrawn(s, v, ls).pointer = s.pointer
<1> DEFINE t == Withdrawn(s, v, ls)
           gone == s.states[v].withdrawn_locales \cup ls
<1>1. s \in Store /\ s.states[v] \in PublicationRecord
  BY DEF SoundStore, Store
<1>2. gone \in SUBSET Locales
  BY <1>1 DEF PublicationRecord
<1> DEFINE r == [status |-> IF Routes[v] # {} /\ Routes[v] \subseteq gone
                          THEN "withdrawn" ELSE s.states[v].status,
                revision |-> s.states[v].revision + 1,
                withdrawn_locales |-> gone]
<1>3. t = [pointer |-> s.pointer,
           states |-> [s.states EXCEPT ![v] = r],
           audits |-> Append(s.audits, Event("withdraw", v))]
  BY DEF Withdrawn
<1>4. r \in PublicationRecord
  BY <1>1, <1>2 DEF PublicationRecord, Lifecycle
<1>5. t \in Store
  BY <1>1, <1>3, <1>4 DEF Store, PublicationAudit, Event
<1>6. \A w \in Versions : t.states[w].status = "active" => s.states[w].status = "active"
  BY <1>1, <1>3 DEF Store
<1> QED BY <1>3, <1>5, <1>6 DEF SoundStore

(* Convergence gives every version an entry. *)
LEMMA ConvergedTyped ==
  ASSUME NEW s, SoundStore(s), NEW c \in [Versions -> CacheEntry]
  PROVE  Converged(s, c) \in [Versions -> CacheEntry]
<1>1. \A v \in Versions : s.states[v].revision \in Nat
  BY DEF SoundStore, Store, PublicationRecord
<1> QED BY <1>1 DEF Converged, CacheEntry

(* Convergence leaves 200 to the version designated only, provided no entry    *)
(* without a record said so before.                                            *)
LEMMA ConvergedCacheSound ==
  ASSUME NEW s, SoundStore(s), NEW c \in [Versions -> CacheEntry],
         \A v \in Versions : c[v].status = "active" => s.states[v].status # "absent"
  PROVE  CacheSound(s, Converged(s, c))
<1> SUFFICES ASSUME NEW v \in Versions, Converged(s, c)[v].status = "active"
             PROVE  s.pointer.publish_version = v /\ s.states[v].status # "absent"
  BY DEF CacheSound
<1>1. s.states[v].status = "active"
  BY DEF Converged
<1> QED BY <1>1 DEF SoundStore

(* What a failed transaction left is put back in full: its fault changes nothing. *)
LEMMA AbortedUndone ==
  ASSUME SoundStore(store)
  PROVE  /\ \A v \in Versions : Aborted(store, Activated(store, v)) = store
         /\ Aborted(store, RolledBack(store)) = store
<1>1. store = [pointer |-> store.pointer, states |-> store.states, audits |-> store.audits]
  BY DEF SoundStore, Store
<1> QED BY <1>1 DEF Aborted, Activated, RolledBack

LEMMA FaultsUndone ==
  ASSUME SoundStore(store)
  PROVE  /\ \A v \in Versions, expected \in Tokens :
              ActivateFaultBeforeCommit(v, expected) => UNCHANGED vars
         /\ \A expected \in Tokens : RollbackFault(expected) => UNCHANGED vars
BY AbortedUndone DEF ActivateFaultBeforeCommit, RollbackFault, vars

(* The invariant.  Every step keeps it. *)
LEMMA InitIInv == Init => IInv
<1> SUFFICES ASSUME Init PROVE IInv
  OBVIOUS
<1>1. store.states \in [Versions -> PublicationRecord]
  BY DEF Init, NoRecord, PublicationRecord, Lifecycle
<1>2. store.pointer \in LocalPointer
  BY DEF Init, LocalPointer
<1>3. store.audits \in Seq(PublicationAudit)
  BY DEF Init
<1>4. store \in Store
  BY <1>1, <1>2, <1>3 DEF Init, Store
<1>5. SoundStore(store)
  BY <1>4 DEF Init, SoundStore, NoRecord
<1>6. cache \in [Versions -> CacheEntry]
  BY DEF Init, CacheEntry, NoEntry
<1> QED BY <1>5, <1>6 DEF Init, IInv, CacheSound, NoEntry

LEMMA NextIInv == IInv /\ [Next]_vars => IInv'
<1> SUFFICES ASSUME IInv, [Next]_vars PROVE IInv'
  OBVIOUS
<1> USE DEF IInv
<1>1. ASSUME NEW v \in Versions, Seed(v) PROVE IInv'
  <2> DEFINE r == [status |-> "validated", revision |-> 1, withdrawn_locales |-> {}]
  <2>1. store' = [pointer |-> store.pointer,
                  states |-> [store.states EXCEPT ![v] = r],
                  audits |-> store.audits]
    BY <1>1 DEF Seed, SoundStore, Store
  <2>2. r \in PublicationRecord
    BY DEF PublicationRecord, Lifecycle
  <2>3. store' \in Store
    BY <2>1, <2>2 DEF SoundStore, Store
  <2>4. SoundStore(store')
    BY <2>1, <2>3 DEF SoundStore, Store
  <2>5. CacheSound(store, cache) => CacheSound(store', cache)
    BY <2>1 DEF CacheSound, SoundStore, Store
  <2> QED BY <1>1, <2>4, <2>5 DEF Seed
<1>2. ASSUME SoundStore(store'), NEW op, CacheFollows(op),
             \A v \in Versions : store.states[v].status # "absent" => store'.states[v].status # "absent"
      PROVE  IInv'
  <2>1. cache' \in [Versions -> CacheEntry]
    BY <1>2, ConvergedTyped DEF CacheFollows
  <2>2. ASSUME Cacheless = {} PROVE CacheSound(store', cache')
    <3>1. cache' = Converged(store', cache)
      BY <1>2, <2>2 DEF CacheFollows
    <3>2. \A v \in Versions : cache[v].status = "active" => store'.states[v].status # "absent"
      BY <1>2, <2>2 DEF CacheSound
    <3> QED BY <1>2, <3>1, <3>2, ConvergedCacheSound
  <2> QED BY <1>2, <2>1, <2>2
<1>3. ASSUME NEW v \in Versions, NEW expected \in Tokens, Activate(v, expected) PROVE IInv'
  <2>1. SoundStore(store')
    BY <1>3, ActivatedSound DEF Activate
  <2>2. \A w \in Versions : store.states[w].status # "absent" => store'.states[w].status # "absent"
    BY <1>3 DEF Activate, Activated, Marked
  <2> QED BY <1>2, <1>3, <2>1, <2>2 DEF Activate
<1>4. ASSUME NEW v \in Versions, NEW expected \in Tokens,
             ActivateFaultBeforeCommit(v, expected)
      PROVE IInv'
  BY <1>4, FaultsUndone DEF vars
<1>5. ASSUME NEW v \in Versions, NEW expected \in Tokens,
             ActivateFaultAfterCommit(v, expected)
      PROVE IInv'
  <2> DEFINE committed == Activated(store, v)
  <2>1. SoundStore(committed) /\ ActivationAllowed(store, v) /\ cache' = cache
    BY <1>5, ActivatedSound DEF ActivateFaultAfterCommit
  <2>2. CASE RollbackAllowed(committed)
    <3>1. store' = RolledBack(committed)
      BY <1>5, <2>2 DEF ActivateFaultAfterCommit
    <3>2. SoundStore(store')
      BY <2>1, <2>2, <3>1, RolledBackSound
    <3>3. store'.pointer.publish_version = store.pointer.publish_version
      BY <3>1 DEF RolledBack, Activated
    <3>4. \A w \in Versions : store.states[w].status # "absent" => store'.states[w].status # "absent"
      BY <3>1 DEF RolledBack, Activated, Marked
    <3> QED BY <2>1, <3>2, <3>3, <3>4 DEF CacheSound
  <2>3. CASE ~RollbackAllowed(committed)
    <3>1. store' = committed
      BY <1>5, <2>3 DEF ActivateFaultAfterCommit
    <3>2. store.pointer.publish_version = 0
      <4> SUFFICES ASSUME store.pointer.publish_version # 0 PROVE FALSE
        OBVIOUS
      <4> DEFINE current == store.pointer.publish_version
      <4>1. current \in Versions /\ current # v
        BY <2>1 DEF SoundStore, Store, LocalPointer, ActivationAllowed, TargetStatus
      <4>2. committed.states[current].status = "superseded"
        BY <4>1 DEF Activated, Marked
      <4>3. /\ committed.pointer.publish_version = v
            /\ committed.pointer.previous_verified_version = current
            /\ committed.states[v].status = "active"
        BY DEF Activated
      <4> QED BY <2>3, <4>1, <4>2, <4>3, PublicationAssumption DEF RollbackAllowed, TargetStatus
    <3>3. CacheSound(store, cache) => CacheSound(store', cache')
      BY <2>1, <3>2, PublicationAssumption DEF CacheSound
    <3> QED BY <2>1, <3>1, <3>3
  <2> QED BY <2>2, <2>3
<1>6. ASSUME NEW expected \in Tokens, Rollback(expected) PROVE IInv'
  <2>1. SoundStore(store')
    BY <1>6, RolledBackSound DEF Rollback
  <2>2. \A w \in Versions : store.states[w].status # "absent" => store'.states[w].status # "absent"
    BY <1>6 DEF Rollback, RolledBack, Marked
  <2> QED BY <1>2, <1>6, <2>1, <2>2 DEF Rollback
<1>7. ASSUME NEW expected \in Tokens, RollbackFault(expected) PROVE IInv'
  BY <1>7, FaultsUndone DEF vars
<1>8. ASSUME NEW v \in Versions, NEW ls \in SUBSET Locales, Withdraw(v, ls) PROVE IInv'
  <2>1. SoundStore(store')
    BY <1>8, WithdrawnSound DEF Withdraw
  <2>2. \A w \in Versions : store.states[w].status # "absent" => store'.states[w].status # "absent"
    BY <1>8 DEF Withdraw, Withdrawn, SoundStore, Store
  <2> QED BY <1>2, <1>8, <2>1, <2>2 DEF Withdraw
<1>9. CASE Converge
  <2>1. SoundStore(store') /\ cache' = Converged(store', cache)
    BY <1>9 DEF Converge
  <2> QED BY <1>2, <1>9, <2>1 DEF Converge, CacheFollows
<1>10. CASE UNCHANGED vars
  BY <1>10 DEF vars
<1> QED BY <1>1, <1>3, <1>4, <1>5, <1>6, <1>7, <1>8, <1>9, <1>10 DEF Next

THEOREM Invariance == Spec => []IInv
BY InitIInv, NextIInv, PTL DEF Spec

-----------------------------------------------------------------------------
(* Every reachable state is well typed. *)
THEOREM TypeCorrect == Spec => []TypeOK
<1>1. IInv => TypeOK
  BY DEF IInv, SoundStore, TypeOK
<1> QED BY <1>1, Invariance, PTL

(* At most one publication is active and the pointer designates it, for any     *)
(* number of versions: activation.ts, rollback.ts and withdrawal.ts together.   *)
THEOREM OneActiveAlways == Spec => []OneActive
<1>1. IInv => OneActive
  BY DEF IInv, SoundStore, OneActive
<1> QED BY <1>1, Invariance, PTL

(* When every operation gets the cache, only routes of the version designated   *)
(* are ever answered 200.                                                       *)
LEMMA CacheSoundServes == IInv /\ Cacheless = {} => OnlyTargetServed
BY DEF IInv, CacheSound, OnlyTargetServed, Visible, Read

THEOREM OnlyTargetServedAlways ==
  ASSUME Cacheless = {}
  PROVE  Spec => []OnlyTargetServed
<1>1. IInv => OnlyTargetServed
  BY CacheSoundServes
<1> QED BY <1>1, Invariance, PTL

(* A target withdrawn in every locale freezes the pointer for good: what holds  *)
(* from then on is that the target is not active, which neither a seed nor      *)
(* a withdrawal changes, and which keeps every activation and rollback out.     *)
THEOREM StuckAlways == Spec => StuckOnceWithdrawn
<1> SUFFICES ASSUME NEW CONSTANT r \in 0 .. MaxAudits
             PROVE  Spec => [](StuckAt(r) => [](store.pointer.revision = r))
  BY DEF StuckOnceWithdrawn
<1> DEFINE Frozen == /\ store.pointer.publish_version # 0
                     /\ TargetStatus(store) # "active"
                     /\ store.pointer.revision = r
<1>1. IInv /\ StuckAt(r) => Frozen
  BY DEF StuckAt, TargetStatus
<1>2. ASSUME IInv, Frozen, [Next]_vars PROVE Frozen'
  <2>1. \A v \in Versions : ~ActivationAllowed(store, v)
    BY <1>2 DEF ActivationAllowed
  <2>2. ~RollbackAllowed(store)
    BY <1>2 DEF RollbackAllowed
  <2>3. store.pointer.publish_version \in Versions /\ store.states \in [Versions -> PublicationRecord]
    BY <1>2 DEF IInv, SoundStore, Store, LocalPointer
  <2>4. ASSUME NEW v \in Versions, Seed(v) PROVE Frozen'
    <3>1. store'.pointer = store.pointer
      BY <1>2, <2>4 DEF Seed, IInv, SoundStore, Store
    <3>2. \A w \in Versions : store'.states[w].status \in {store.states[w].status, "validated"}
      BY <1>2, <2>4 DEF Seed, IInv, SoundStore, Store
    <3> QED BY <1>2, <2>3, <3>1, <3>2 DEF TargetStatus
  <2>5. ASSUME NEW v \in Versions, NEW ls \in SUBSET Locales, Withdraw(v, ls) PROVE Frozen'
    <3>1. store'.pointer = store.pointer
      BY <2>5 DEF Withdraw, Withdrawn
    <3>2. \A w \in Versions : store'.states[w].status \in {store.states[w].status, "withdrawn"}
      BY <2>3, <2>5 DEF Withdraw, Withdrawn
    <3> QED BY <1>2, <2>3, <3>1, <3>2 DEF TargetStatus
  <2>6. CASE Converge
    BY <1>2, <2>6 DEF Converge
  <2>7. CASE UNCHANGED vars
    BY <1>2, <2>7 DEF vars
  <2>8. ASSUME NEW v \in Versions, NEW expected \in Tokens PROVE
           /\ ~Activate(v, expected)
           /\ ~ActivateFaultBeforeCommit(v, expected)
           /\ ~ActivateFaultAfterCommit(v, expected)
    BY <2>1 DEF Activate, ActivateFaultBeforeCommit, ActivateFaultAfterCommit
  <2>9. ASSUME NEW expected \in Tokens PROVE ~Rollback(expected) /\ ~RollbackFault(expected)
    BY <2>2 DEF Rollback, RollbackFault
  <2> QED BY <1>2, <2>4, <2>5, <2>6, <2>7, <2>8, <2>9 DEF Next
<1>3. Frozen => store.pointer.revision = r
  OBVIOUS
<1> HIDE DEF Frozen
<1> QED BY <1>1, <1>2, <1>3, Invariance, PTL DEF Spec

-----------------------------------------------------------------------------
(* The audit log. *)

\* An event at the end of a log is one more of its kind and no other.
LEMMA AppendedPlaces ==
  ASSUME NEW log \in Seq(PublicationAudit), NEW e \in PublicationAudit, NEW act
  PROVE  /\ Append(log, e) \in Seq(PublicationAudit) /\ Len(Append(log, e)) = Len(log) + 1
         /\ IsFiniteSet(Places(log, act)) /\ Cardinality(Places(log, act)) \in Nat
         /\ Append(log, e)[Len(log) + 1] = e
         /\ \A i \in Places(log, act) : i \in 1 .. Len(log) /\ Append(log, e)[i] = log[i]
         /\ e.action = act =>
              /\ Places(Append(log, e), act) = Places(log, act) \cup {Len(log) + 1}
              /\ Cardinality(Places(Append(log, e), act)) = Cardinality(Places(log, act)) + 1
         /\ e.action # act => Places(Append(log, e), act) = Places(log, act)
<1> DEFINE n == Len(log)
           longer == Append(log, e)
<1>1. n \in Nat /\ DOMAIN log = 1 .. n
  OBVIOUS
<1>2. longer \in Seq(PublicationAudit) /\ Len(longer) = n + 1 /\ DOMAIN longer = 1 .. (n + 1)
  OBVIOUS
<1>3. longer[n + 1] = e /\ \A i \in 1 .. n : longer[i] = log[i]
  OBVIOUS
<1> HIDE DEF n, longer
<1>4. Places(log, act) \subseteq 1 .. n /\ n + 1 \notin Places(log, act)
  BY <1>1 DEF Places
<1>5. IsFiniteSet(Places(log, act)) /\ Cardinality(Places(log, act)) \in Nat
  <2>1. IsFiniteSet(1 .. n)
    BY <1>1, FS_Interval
  <2>2. IsFiniteSet(Places(log, act))
    BY <1>4, <2>1, FS_Subset
  <2> QED BY <2>2, FS_CardinalityType
<1>6. e.action = act => Places(longer, act) = Places(log, act) \cup {n + 1}
  BY <1>1, <1>2, <1>3 DEF Places
<1>7. e.action # act => Places(longer, act) = Places(log, act)
  BY <1>1, <1>2, <1>3 DEF Places
<1>8. Cardinality(Places(log, act) \cup {n + 1}) = Cardinality(Places(log, act)) + 1
  BY <1>4, <1>5, FS_AddElement
<1>9. \A i \in Places(log, act) : i \in 1 .. n /\ longer[i] = log[i]
  BY <1>3, <1>4
<1>10. e.action = act => Cardinality(Places(longer, act)) = Cardinality(Places(log, act)) + 1
  BY <1>6, <1>8
<1> QED BY <1>2, <1>3, <1>5, <1>6, <1>7, <1>9, <1>10 DEF n, longer
\* An event that moves the pointer, with the revision it is due.
LEMMA MovedTold ==
  ASSUME NEW s, NEW t, s.audits \in Seq(PublicationAudit), s.pointer.revision \in Nat,
         2 * s.pointer.revision =
           2 * Cardinality(Places(s.audits, "activate")) + Cardinality(Places(s.audits, "rollback")),
         NEW v \in Versions, t.pointer.publish_version = v, t.pointer.revision = s.pointer.revision + 1,
         t.audits = Append(s.audits, Event("activate", v))
  PROVE  Told(t)
<1> DEFINE log == s.audits
           e == Event("activate", v)
           a == Cardinality(Places(log, "activate"))
           b == Cardinality(Places(log, "rollback"))
<1>1. e \in PublicationAudit /\ e.action = "activate" /\ e.publish_version = v
  BY DEF Event, PublicationAudit
<1>2. /\ Places(t.audits, "activate") = Places(log, "activate") \cup {Len(log) + 1}
      /\ Cardinality(Places(t.audits, "activate")) = a + 1
      /\ Places(t.audits, "rollback") = Places(log, "rollback")
      /\ t.audits[Len(log) + 1] = e
      /\ Places(log, "activate") \subseteq 1 .. Len(log) /\ Places(log, "rollback") \subseteq 1 .. Len(log)
      /\ a \in Nat /\ b \in Nat
  <2> DEFINE longer == Append(log, e)
  <2>0. log \in Seq(PublicationAudit) /\ t.audits = longer
    OBVIOUS
  <2> HIDE DEF e, log
  <2>1. /\ Places(longer, "activate") = Places(log, "activate") \cup {Len(log) + 1}
        /\ longer[Len(log) + 1] = e
        /\ \A i \in Places(log, "activate") : i \in 1 .. Len(log)
    <3>1. longer[Len(log) + 1] = e /\ \A i \in Places(log, "activate") : i \in 1 .. Len(log)
      BY <1>1, <2>0, AppendedPlaces
    <3>2. Places(longer, "activate") = Places(log, "activate") \cup {Len(log) + 1}
      BY <1>1, <2>0, AppendedPlaces
    <3> QED BY <3>1, <3>2
  <2>3. Cardinality(Places(longer, "activate")) = a + 1 /\ a \in Nat
    BY <1>1, <2>0, AppendedPlaces
  <2>2. /\ Places(longer, "rollback") = Places(log, "rollback")
        /\ \A i \in Places(log, "rollback") : i \in 1 .. Len(log)
        /\ b \in Nat
    BY <1>1, <2>0, AppendedPlaces
  <2> HIDE DEF longer
  <2> QED BY <2>0, <2>1, <2>2, <2>3
<1>3. 2 * t.pointer.revision = 2 * Cardinality(Places(t.audits, "activate")) + Cardinality(Places(t.audits, "rollback"))
  <2>1. Cardinality(Places(t.audits, "rollback")) = b
    BY <1>2
  <2> DEFINE r == s.pointer.revision
  <2>2. a \in Nat /\ b \in Nat /\ r \in Nat /\ 2 * r = 2 * a + b
    BY <1>2
  <2>3. t.pointer.revision = r + 1 /\ Cardinality(Places(t.audits, "activate")) = a + 1
    BY <1>2
  <2> HIDE DEF a, b, r
  <2>4. 2 * (r + 1) = 2 * (a + 1) + b
    BY <2>2
  <2> QED BY <2>1, <2>3, <2>4
<1>4. Len(log) + 1 \in Places(t.audits, "activate")
  BY <1>2
<1>5. \A i \in Places(t.audits, "activate") \cup Places(t.audits, "rollback") : i <= Len(log) + 1
  <2> DEFINE n == Len(log)
  <2>1. n \in Nat
    OBVIOUS
  <2>2. Places(t.audits, "activate") \cup Places(t.audits, "rollback") \subseteq 1 .. n \cup {n + 1}
    BY <1>2
  <2> HIDE DEF n
  <2>3. \A i \in 1 .. n \cup {n + 1} : i <= n + 1
    BY <2>1
  <2> QED BY <2>2, <2>3 DEF n
<1> QED BY <1>1, <1>2, <1>3, <1>4, <1>5 DEF Told

LEMMA ActivatedTold ==
  ASSUME NEW s, SoundStore(s), Told(s), NEW v \in Versions
  PROVE  Told(Activated(s, v))
<1>1. s.audits \in Seq(PublicationAudit) /\ s.pointer.revision \in Nat
  BY DEF SoundStore, Store, LocalPointer
<1>2. 2 * s.pointer.revision =
        2 * Cardinality(Places(s.audits, "activate")) + Cardinality(Places(s.audits, "rollback"))
  BY DEF Told
<1>3. /\ Activated(s, v).pointer.publish_version = v
      /\ Activated(s, v).pointer.revision = s.pointer.revision + 1
      /\ Activated(s, v).audits = Append(s.audits, Event("activate", v))
  BY DEF Activated
<1> HIDE DEF Versions
<1> QED BY <1>1, <1>2, <1>3, MovedTold

LEMMA RolledBackTold ==
  ASSUME NEW s, SoundStore(s), Told(s), RollbackAllowed(s)
  PROVE  Told(RolledBack(s))
<1> DEFINE log == s.audits
           t == RolledBack(s)
           previous == s.pointer.previous_verified_version
           first == Event("rollback", s.pointer.publish_version)
           second == Event("rollback", previous)
           half == Append(log, first)
           a == Cardinality(Places(log, "activate"))
           b == Cardinality(Places(log, "rollback"))
<1>1. log \in Seq(PublicationAudit) /\ s.pointer.revision \in Nat
  BY DEF SoundStore, Store, LocalPointer
<1>2. first \in PublicationAudit /\ second \in PublicationAudit /\ first.action = "rollback"
      /\ second.action = "rollback" /\ second.publish_version = previous
  BY DEF SoundStore, Store, LocalPointer, RollbackAllowed, Event, PublicationAudit
<1>3. /\ t.pointer.publish_version = previous /\ t.pointer.revision = s.pointer.revision + 1
      /\ t.audits = log \o <<first, second>>
  BY DEF RolledBack
<1>4. 2 * s.pointer.revision = 2 * a + b
  BY DEF Told
<1> HIDE DEF first, second, t, previous
<1>5. log \o <<first, second>> = Append(half, second)
  BY <1>1, <1>2
<1>6. /\ half \in Seq(PublicationAudit) /\ Len(half) = Len(log) + 1
      /\ Places(half, "activate") = Places(log, "activate")
      /\ Cardinality(Places(half, "rollback")) = b + 1
      /\ a \in Nat /\ b \in Nat
  BY <1>1, <1>2, AppendedPlaces
<1> HIDE DEF half, log
<1>7. /\ Places(t.audits, "activate") = Places(half, "activate")
      /\ Places(t.audits, "rollback") = Places(half, "rollback") \cup {Len(half) + 1}
      /\ Cardinality(Places(t.audits, "rollback")) = Cardinality(Places(half, "rollback")) + 1
      /\ t.audits[Len(half) + 1] = second
      /\ Places(half, "activate") \subseteq 1 .. Len(half) /\ Places(half, "rollback") \subseteq 1 .. Len(half)
  <2> DEFINE longer == Append(half, second)
  <2>1. /\ Places(longer, "rollback") = Places(half, "rollback") \cup {Len(half) + 1}
        /\ Cardinality(Places(longer, "rollback")) = Cardinality(Places(half, "rollback")) + 1
        /\ longer[Len(half) + 1] = second
        /\ \A i \in Places(half, "rollback") : i \in 1 .. Len(half)
    BY <1>2, <1>6, AppendedPlaces
  <2>2. /\ Places(longer, "activate") = Places(half, "activate")
        /\ \A i \in Places(half, "activate") : i \in 1 .. Len(half)
    BY <1>2, <1>6, AppendedPlaces
  <2>3. t.audits = longer
    BY <1>3, <1>5
  <2> HIDE DEF longer
  <2> QED BY <2>1, <2>2, <2>3
<1>8. 2 * t.pointer.revision = 2 * Cardinality(Places(t.audits, "activate")) + Cardinality(Places(t.audits, "rollback"))
  <2>1. Cardinality(Places(t.audits, "activate")) = a /\ Cardinality(Places(t.audits, "rollback")) = (b + 1) + 1
    BY <1>6, <1>7
  <2> DEFINE r == s.pointer.revision
  <2>2. a \in Nat /\ b \in Nat /\ r \in Nat /\ 2 * r = 2 * a + b
    BY <1>1, <1>4, <1>6
  <2>3. t.pointer.revision = r + 1
    BY <1>3
  <2> HIDE DEF a, b, r
  <2>4. 2 * (r + 1) = 2 * a + ((b + 1) + 1)
    BY <2>2
  <2> QED BY <2>1, <2>3, <2>4
<1>9. Len(half) + 1 \in Places(t.audits, "rollback")
  BY <1>7
<1>10. \A i \in Places(t.audits, "activate") \cup Places(t.audits, "rollback") : i <= Len(half) + 1
  <2> DEFINE n == Len(half)
  <2>1. n \in Nat
    BY <1>6
  <2> HIDE DEF n
  <2>2. \A i \in 1 .. n : i <= n + 1
    BY <2>1
  <2> QED BY <1>7, <2>1, <2>2 DEF n
<1>11. t.audits[Len(half) + 1].publish_version = t.pointer.publish_version
  BY <1>2, <1>3, <1>7
<1>12. Told(t)
  BY <1>8, <1>9, <1>10, <1>11 DEF Told
<1> QED BY <1>12 DEF t

\* A withdrawal leaves the events of the pointer where they are.
LEMMA WithdrawnTold ==
  ASSUME NEW s, SoundStore(s), Told(s), NEW v \in Versions, NEW ls \in SUBSET Locales
  PROVE  Told(Withdrawn(s, v, ls))
<1> DEFINE t == Withdrawn(s, v, ls)
           e == Event("withdraw", v)
<1>1. s.audits \in Seq(PublicationAudit) /\ e \in PublicationAudit
      /\ e.action # "activate" /\ e.action # "rollback"
  BY DEF SoundStore, Store, Event, PublicationAudit
<1>2. t.pointer = s.pointer /\ t.audits = Append(s.audits, e)
  BY DEF Withdrawn
<1> HIDE DEF t, e
<1>3. /\ Places(t.audits, "activate") = Places(s.audits, "activate")
      /\ Places(t.audits, "rollback") = Places(s.audits, "rollback")
      /\ \A i \in Places(s.audits, "activate") \cup Places(s.audits, "rollback") : t.audits[i] = s.audits[i]
  BY <1>1, <1>2, AppendedPlaces
<1>4. Told(t)
  BY <1>2, <1>3 DEF Told
<1> QED BY <1>4 DEF t

LEMMA NextTold == IInv /\ Told(store) /\ [Next]_vars => Told(store')
<1> SUFFICES ASSUME IInv, Told(store), [Next]_vars PROVE Told(store')
  OBVIOUS
<1>0. SoundStore(store)
  BY DEF IInv
<1>1. ASSUME NEW v \in Versions, Seed(v) PROVE Told(store')
  <2>1. store'.pointer = store.pointer /\ store'.audits = store.audits
    BY <1>0, <1>1 DEF Seed, SoundStore, Store
  <2> QED BY <2>1 DEF Told
<1>2. ASSUME NEW v \in Versions, NEW expected \in Tokens, Activate(v, expected) PROVE Told(store')
  BY <1>0, <1>2, ActivatedTold DEF Activate
<1>3. ASSUME NEW v \in Versions, NEW expected \in Tokens, ActivateFaultAfterCommit(v, expected) PROVE Told(store')
  <2> DEFINE committed == Activated(store, v)
  <2>1. SoundStore(committed) /\ Told(committed)
    BY <1>0, <1>3, ActivatedSound, ActivatedTold DEF ActivateFaultAfterCommit
  <2>2. store' = IF RollbackAllowed(committed) THEN RolledBack(committed) ELSE committed
    BY <1>3 DEF ActivateFaultAfterCommit
  <2> HIDE DEF committed
  <2> QED BY <2>1, <2>2, RolledBackTold
<1>4. ASSUME NEW expected \in Tokens, Rollback(expected) PROVE Told(store')
  BY <1>0, <1>4, RolledBackTold DEF Rollback
<1>5. ASSUME NEW v \in Versions, NEW ls \in SUBSET Locales, Withdraw(v, ls) PROVE Told(store')
  BY <1>0, <1>5, WithdrawnTold DEF Withdraw
<1>6. ASSUME store' = store PROVE Told(store')
  BY <1>6
<1> QED BY <1>0, <1>1, <1>2, <1>3, <1>4, <1>5, <1>6, FaultsUndone DEF Next, vars, Converge

\* For any number of versions and any length of the log: the audit log and the
\* pointer agree after every activation, rollback, withdrawal and compensation.
THEOREM AuditTrailAlways == Spec => []AuditTrail
<1>1. Init => AuditTrail
  <2> SUFFICES ASSUME Init PROVE Told(store)
    BY DEF AuditTrail
  <2>1. Places(store.audits, "activate") = {} /\ Places(store.audits, "rollback") = {}
    BY DEF Init, Places
  <2>2. store.pointer.revision = 0 /\ store.pointer.publish_version = 0
    BY DEF Init
  <2> QED BY <2>1, <2>2, FS_EmptySet DEF Told
<1>2. IInv /\ AuditTrail /\ [Next]_vars => AuditTrail'
  BY NextTold DEF AuditTrail
<1> QED BY <1>1, <1>2, Invariance, PTL DEF Spec

-----------------------------------------------------------------------------
(* The refinement: Publication implements PublicationPromise. *)

\* What is withdrawn of a version, as the routes the promise speaks of.
GoneOf(s) == {route \in Versions \X Locales : route[2] \in s.states[route[1]].withdrawn_locales}

(* A route that is answered belongs to the version designated and is not withdrawn. *)
LEMMA VisibleCoherent ==
  IInv /\ Cacheless = {} =>
    Visible \subseteq Promise!RoutesOf(store.pointer.publish_version) \ Gone
<1> SUFFICES ASSUME IInv, Cacheless = {}, NEW route \in Visible
             PROVE  route \in Promise!RoutesOf(store.pointer.publish_version) \ Gone
  OBVIOUS
<1>1. route \in Versions \X Locales /\ Read(route[1], route[2]) = 200
  BY DEF Visible
<1>2. route[2] \notin store.states[route[1]].withdrawn_locales /\ cache[route[1]].status = "active"
  BY <1>1 DEF Read
<1>3. route[1] = store.pointer.publish_version
  BY <1>1, <1>2 DEF IInv, CacheSound
<1> QED BY <1>1, <1>2, <1>3 DEF Gone, Promise!RoutesOf

(* An activation forgets exactly the withdrawals of its version; a rollback forgets none. *)
LEMMA ActivatedGone ==
  ASSUME NEW s, NEW v \in Versions
  PROVE  GoneOf(Activated(s, v)) = GoneOf(s) \ Promise!RoutesOf(v)
BY DEF GoneOf, Activated, Marked, Promise!RoutesOf

LEMMA RolledBackGone ==
  ASSUME NEW s
  PROVE  GoneOf(RolledBack(s)) = GoneOf(s)
BY DEF GoneOf, RolledBack, Marked

LEMMA InitPromise == Init => Promise!Init
<1> SUFFICES ASSUME Init PROVE Promise!Init
  OBVIOUS
<1>1. Gone = {}
  BY DEF Init, Gone, NoRecord
<1>2. Visible = {}
  BY DEF Init, Visible, Read, NoRecord
<1> QED BY <1>1, <1>2 DEF Init, Promise!Init

LEMMA NextPromise ==
  ASSUME IInv, IInv', Cacheless = {}, [Next]_vars
  PROVE  [Promise!Next]_(Promise!vars)
<1>1. Promise!Coherent
  <2>1. (Visible \subseteq Promise!RoutesOf(store.pointer.publish_version) \ Gone)'
    BY VisibleCoherent, PTL
  <2> QED BY <2>1 DEF Promise!Coherent, Promise!RoutesOf
<1>2. Gone = GoneOf(store) /\ Gone' = GoneOf(store')
  BY DEF Gone, GoneOf
<1>3. ASSUME NEW v \in Versions, Seed(v) PROVE Promise!Prepare(v)
  <2>1. Gone' = Gone \ Promise!RoutesOf(v)
    BY <1>2, <1>3 DEF Seed, GoneOf, Promise!RoutesOf, IInv, SoundStore, Store
  <2>2. store'.pointer = store.pointer
    BY <1>3 DEF Seed, IInv, SoundStore, Store
  <2> QED BY <1>1, <2>1, <2>2 DEF Promise!Prepare
<1>4. ASSUME NEW v \in Versions, NEW expected \in Tokens, Activate(v, expected)
      PROVE  Promise!Publish(v)
  <2>1. Gone' = Gone \ Promise!RoutesOf(v)
    BY <1>2, <1>4, ActivatedGone DEF Activate
  <2>2. store'.pointer.publish_version = v /\ store'.pointer.revision = store.pointer.revision + 1
    BY <1>4 DEF Activate, Activated
  <2> QED BY <1>1, <2>1, <2>2 DEF Promise!Publish
<1>5. ASSUME NEW v \in Versions, NEW expected \in Tokens,
             ActivateFaultAfterCommit(v, expected)
      PROVE  Promise!Publish(v) \/ Promise!PublishUndone(v)
  <2> DEFINE committed == Activated(store, v)
  <2>1. store'= IF RollbackAllowed(committed) THEN RolledBack(committed) ELSE committed
    BY <1>5 DEF ActivateFaultAfterCommit
  <2>2. GoneOf(committed) = Gone \ Promise!RoutesOf(v) /\ GoneOf(RolledBack(committed)) = GoneOf(committed)
    BY <1>2, ActivatedGone, RolledBackGone
  <2>3. Gone' = Gone \ Promise!RoutesOf(v)
    BY <1>2, <2>1, <2>2
  <2>4. store.pointer.revision \in Nat
    BY DEF IInv, SoundStore, Store, LocalPointer
  <2>5. CASE RollbackAllowed(committed)
    <3>1. /\ store'.pointer.publish_version = store.pointer.publish_version
          /\ store'.pointer.revision = store.pointer.revision + 2
      BY <2>1, <2>4, <2>5 DEF RolledBack, Activated
    <3> QED BY <1>1, <2>3, <3>1 DEF Promise!PublishUndone
  <2>6. CASE ~RollbackAllowed(committed)
    <3>1. /\ store'.pointer.publish_version = v
          /\ store'.pointer.revision = store.pointer.revision + 1
      BY <2>1, <2>6 DEF Activated
    <3> QED BY <1>1, <2>3, <3>1 DEF Promise!Publish
  <2> QED BY <2>5, <2>6
<1>6. ASSUME NEW expected \in Tokens, Rollback(expected)
      PROVE  \E v \in Versions : Promise!Return(v)
  <2> DEFINE previous == store.pointer.previous_verified_version
  <2>1. previous \in Versions /\ previous # store.pointer.publish_version
    BY <1>6 DEF Rollback, RollbackAllowed, TargetStatus, IInv, SoundStore, Store, LocalPointer
  <2>2. Gone' = Gone
    BY <1>2, <1>6, RolledBackGone DEF Rollback
  <2>3. store'.pointer.publish_version = previous /\ store'.pointer.revision = store.pointer.revision + 1
    BY <1>6 DEF Rollback, RolledBack
  <2>4. Promise!Return(previous)
    BY <1>1, <2>1, <2>2, <2>3 DEF Promise!Return
  <2> QED BY <2>1, <2>4
<1>7. ASSUME NEW v \in Versions, NEW ls \in SUBSET Locales, Withdraw(v, ls)
      PROVE  Promise!WithdrawRoutes(v)
  <2>1. store'.pointer = store.pointer
    BY <1>7 DEF Withdraw, Withdrawn
  <2>2. Gone \subseteq Gone' /\ Gone' \subseteq Gone \cup Promise!RoutesOf(v)
    BY <1>2, <1>7 DEF Withdraw, Withdrawn, GoneOf, Promise!RoutesOf, IInv, SoundStore, Store
  <2> QED BY <1>1, <2>1, <2>2 DEF Promise!WithdrawRoutes
<1>8. ASSUME store' = store, cache' = cache PROVE UNCHANGED Promise!vars
  BY <1>8 DEF Promise!vars, Gone, Visible, Read
<1>9. CASE Converge
  <2>1. store' = store
    BY <1>9 DEF Converge
  <2>2. Gone' = Gone
    BY <1>2, <2>1
  <2>3. UNCHANGED Promise!vars \/ \E v \in Versions : Promise!WithdrawRoutes(v)
    <3>1. CASE Versions = {}
      BY <2>1, <2>2, <3>1 DEF Promise!vars, Visible
    <3>2. CASE Versions # {}
      BY <1>1, <2>1, <2>2, <3>2 DEF Promise!WithdrawRoutes
    <3> QED BY <3>1, <3>2
  <2> QED BY <2>3 DEF Promise!Next
<1> QED
  BY <1>3, <1>4, <1>5, <1>6, <1>7, <1>8, <1>9, FaultsUndone
     DEF IInv, Next, vars, Promise!Next

(* The records, the audit log, the faults and the cache implement the promise:   *)
(* a reader sees one version at a time and nothing withdrawn of it, and a pointer *)
(* revision never designates two different publications.                          *)
THEOREM ImplementsPromise ==
  ASSUME Cacheless = {}
  PROVE  Spec => KeepsPromise
<1>1. Init => Promise!Init
  BY InitPromise
<1>2. IInv /\ IInv' /\ [Next]_vars => [Promise!Next]_(Promise!vars)
  BY NextPromise
<1> QED BY <1>1, <1>2, Invariance, PTL DEF Spec, KeepsPromise, Promise!Spec
=============================================================================
