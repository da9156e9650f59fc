---------------------------- MODULE Publication ----------------------------
(***************************************************************************)
(* The local publication plane (src/publication): the pointer, the         *)
(* lifecycle records and the audit log of LocalPublicationStore, and the   *)
(* cache in front of it.  Every operation of the code is synchronous, so   *)
(* an action is a whole call: the transaction, the cache convergence, the  *)
(* injected fault and the compensation the code runs for it.               *)
(*                                                                         *)
(* Version 0 stands for the null of the code: "no publication".            *)
(***************************************************************************)
EXTENDS Integers, Sequences, FiniteSets

CONSTANTS
  MaxVersion,    \* versions run from 1 (P2L-B0) to MaxVersion
  Locales,       \* the locales a route can have
  Routes,        \* Routes[v]: the locales the manifest of version v has routes for
  Previous,      \* Previous[v]: the predecessor the manifest of version v names
  Cacheless,     \* the operations that may be called without the cache
  MaxAudits      \* bound on the length of the audit log

Versions == 1 .. MaxVersion

ASSUME PublicationAssumption ==
  /\ MaxVersion \in Nat
  /\ Routes \in [Versions -> SUBSET Locales]
  /\ Previous \in [Versions -> Versions \cup {0}]
  /\ Cacheless \subseteq {"activate", "rollback", "withdraw"}
  /\ MaxAudits \in Nat

VARIABLES
  store,   \* LocalPublicationStore: [pointer, states, audits]
  cache    \* LocalCacheEmulator: what it holds for every version

vars == <<store, cache>>

-----------------------------------------------------------------------------
Lifecycle == {"absent", "validated", "active", "superseded", "rolled_back", "withdrawn"}
PublicationRecord == [status: Lifecycle, revision: Nat, withdrawn_locales: SUBSET Locales]
LocalPointer == [publish_version: Versions \cup {0},
                 previous_verified_version: Versions \cup {0},
                 revision: Nat]
PublicationAudit == [action: {"activate", "rollback", "withdraw"}, publish_version: Versions]
CacheEntry == [status: {"none", "active", "withdrawn"}, revision: Nat]
Store == [pointer: LocalPointer,
          states: [Versions -> PublicationRecord],
          audits: Seq(PublicationAudit)]

NoRecord == [status |-> "absent", revision |-> 0, withdrawn_locales |-> {}]
NoEntry == [status |-> "none", revision |-> 0]

Init ==
  /\ store = [pointer |-> [publish_version |-> 0, previous_verified_version |-> 0, revision |-> 0],
              states |-> [v \in Versions |-> NoRecord],
              audits |-> <<>>]
  /\ cache = [v \in Versions |-> NoEntry]

\* Slip: one less than the predecessor, for a manifest without one too.
SlipPreviousOfFirst(v) == Previous[v] - 1

\* The version the manifest of v names as its verified predecessor: v - 1, or
\* what the snapshot handed in by the caller says.
ManifestPrevious(v) == Previous[v]

\* The status of the version the pointer of s designates.
TargetStatus(s) ==
  IF s.pointer.publish_version = 0 THEN "absent" ELSE s.states[s.pointer.publish_version].status

\* A record moved to another status, one revision further.
Marked(record, status) ==
  [status |-> status,
   revision |-> record.revision + 1,
   withdrawn_locales |-> record.withdrawn_locales]

Event(act, v) == [action |-> act, publish_version |-> v]

-----------------------------------------------------------------------------
(* The work of each transaction, as a function of the store it starts from. *)
(* A definition named Slip... is a faulty variant of the definition after it: *)
(* it takes no part in the specification, and putting it in the place of that *)
(* definition must break the property PROJECT.json pairs it with.             *)

\* Slip: the publication that was active is not superseded.
SlipTwoActive(s, v) ==
  [pointer |-> [publish_version |-> v,
                previous_verified_version |-> s.pointer.publish_version,
                revision |-> s.pointer.revision + 1],
   states |-> [s.states EXCEPT ![v] = [status |-> "active", revision |-> @.revision + 1,
                                       withdrawn_locales |-> {}]],
   audits |-> Append(s.audits, Event("activate", v))]

\* Activation supersedes the publication the pointer designates, if any, and
\* starts a fresh record for v: its withdrawn locales are dropped.
Activated(s, v) ==
  LET current == s.pointer.publish_version
      fresh == [status |-> "active", revision |-> s.states[v].revision + 1, withdrawn_locales |-> {}]
  IN [pointer |-> [publish_version |-> v,
                   previous_verified_version |-> current,
                   revision |-> s.pointer.revision + 1],
      states |-> [w \in Versions |->
                    IF w = v THEN fresh
                    ELSE IF w = current
                    THEN Marked(s.states[w], "superseded")
                    ELSE s.states[w]],
      audits |-> Append(s.audits, Event("activate", v))]

\* Slip: a target that was seeded again may be replaced.
SlipSeededReplaced(s, v) ==
  /\ s.pointer.publish_version # 0 => TargetStatus(s) \in {"active", "validated"}
  /\ s.states[v].status # "active"

ActivationAllowed(s, v) ==
  /\ s.pointer.publish_version # 0 => TargetStatus(s) = "active"
  /\ s.states[v].status # "active"

\* Slip: the pointer revision goes back with the version.
SlipRevisionRestored(s) ==
  LET current == s.pointer.publish_version
      previous == s.pointer.previous_verified_version
  IN [s EXCEPT
       !.pointer = [publish_version |-> previous,
                    previous_verified_version |-> ManifestPrevious(previous),
                    revision |-> @.revision - 1],
       !.states[previous] = Marked(@, "active"),
       !.states[current] = Marked(@, "rolled_back"),
       !.audits = @ \o <<Event("rollback", current), Event("rollback", previous)>>]

\* Rollback swaps the two versions of the pointer; the next predecessor is the
\* one named in the manifest of the version it returns to.
RolledBack(s) ==
  LET current == s.pointer.publish_version
      previous == s.pointer.previous_verified_version
  IN [pointer |-> [publish_version |-> previous,
                   previous_verified_version |-> ManifestPrevious(previous),
                   revision |-> s.pointer.revision + 1],
      states |-> [w \in Versions |->
                    IF w = previous
                    THEN Marked(s.states[w], "active")
                    ELSE IF w = current
                    THEN Marked(s.states[w], "rolled_back")
                    ELSE s.states[w]],
      audits |-> s.audits \o <<Event("rollback", current), Event("rollback", previous)>>]

RollbackAllowed(s) ==
  /\ s.pointer.publish_version # 0
  /\ s.pointer.previous_verified_version # 0
  /\ TargetStatus(s) = "active"
  /\ s.states[s.pointer.previous_verified_version].status = "superseded"

\* Withdrawal touches one record; the pointer and its revision stay as they are.
Withdrawn(s, v, ls) ==
  LET record == s.states[v]
      gone == record.withdrawn_locales \cup ls
      full == Routes[v] # {} /\ Routes[v] \subseteq gone
      tombstoned == [status |-> IF full THEN "withdrawn" ELSE record.status,
                     revision |-> record.revision + 1,
                     withdrawn_locales |-> gone]
  IN [pointer |-> s.pointer,
      states |-> [s.states EXCEPT ![v] = tombstoned],
      audits |-> Append(s.audits, Event("withdraw", v))]

\* Slip: an error after the audits were pushed leaves them in the log.
SlipAuditsKept(before, after) == [before EXCEPT !.audits = after.audits]

\* transaction(): a stale token never gets to the work; an error inside the
\* work or the afterCommit hook puts back, over the store the work left, the
\* pointer, the records and the audits that were kept from before.
Aborted(before, after) ==
  [after EXCEPT !.pointer = before.pointer, !.states = before.states, !.audits = before.audits]

\* Slip: only withdrawn records get a 410 entry.
SlipSupersededServed(s, c) ==
  [v \in Versions |->
     IF s.states[v].status = "absent" THEN c[v]
     ELSE [status |-> IF s.states[v].status = "withdrawn" THEN "withdrawn" ELSE "active",
           revision |-> s.states[v].revision]]

\* convergeLocalCache(): one entry per record of the store, only the active
\* one answering 200.
Converged(s, c) ==
  [v \in Versions |->
     IF s.states[v].status = "absent" THEN c[v]
     ELSE [status |-> IF s.states[v].status = "active" THEN "active" ELSE "withdrawn",
           revision |-> s.states[v].revision]]

\* An operation converges the cache with the store it leaves, unless its caller
\* did not pass the cache.
CacheFollows(op) ==
  \/ cache' = Converged(store', cache)
  \/ op \in Cacheless /\ cache' = cache

\* The pointer revisions a caller may have read before it makes its call.
Tokens == 0 .. store.pointer.revision
CasHolds(expected) == store.pointer.revision = expected

Room(n) == Len(store.audits) + n <= MaxAudits
-----------------------------------------------------------------------------
(* The operations. *)

\* LocalPublicationStore.seedValidated: whatever record v had is overwritten.
Seed(v) ==
  /\ store' = [store EXCEPT !.states[v] = [status |-> "validated", revision |-> 1, withdrawn_locales |-> {}]]
  /\ UNCHANGED cache

Activate(v, expected) ==
  /\ Room(1)
  /\ CasHolds(expected)
  /\ ActivationAllowed(store, v)
  /\ store' = Activated(store, v)
  /\ CacheFollows("activate")

\* failAt = before_commit: the transaction throws, everything is put back.
ActivateFaultBeforeCommit(v, expected) ==
  /\ CasHolds(expected)
  /\ ActivationAllowed(store, v)
  /\ store' = Aborted(store, Activated(store, v))
  /\ UNCHANGED cache

\* failAt = after_commit: the activation is committed, a second transaction
\* rolls it back if there is a version to return to, and the cache is put back
\* to what it was before the activation, whatever the rollback wrote to it.
ActivateFaultAfterCommit(v, expected) ==
  /\ Room(3)
  /\ CasHolds(expected)
  /\ ActivationAllowed(store, v)
  /\ LET committed == Activated(store, v)
     IN store' = IF RollbackAllowed(committed) THEN RolledBack(committed) ELSE committed
  /\ UNCHANGED cache

Rollback(expected) ==
  /\ Room(2)
  /\ CasHolds(expected)
  /\ RollbackAllowed(store)
  /\ store' = RolledBack(store)
  /\ CacheFollows("rollback")

\* Either fault of a rollback is raised inside its transaction.
RollbackFault(expected) ==
  /\ CasHolds(expected)
  /\ RollbackAllowed(store)
  /\ store' = Aborted(store, RolledBack(store))
  /\ UNCHANGED cache

\* emergencyWithdraw: a call that only names locales already withdrawn is
\* idempotent and changes nothing.
Withdraw(v, ls) ==
  /\ Room(1)
  /\ store.states[v].status # "absent"
  /\ ls # {} /\ ls \subseteq Routes[v]
  /\ ~(ls \subseteq store.states[v].withdrawn_locales)
  /\ store' = Withdrawn(store, v, ls)
  /\ CacheFollows("withdraw")

\* convergeLocalCache called by itself.
Converge ==
  /\ cache' = Converged(store, cache)
  /\ UNCHANGED store

Next ==
  \/ \E v \in Versions : Seed(v)
  \/ \E v \in Versions, expected \in Tokens :
       \/ Activate(v, expected)
       \/ ActivateFaultBeforeCommit(v, expected)
       \/ ActivateFaultAfterCommit(v, expected)
  \/ \E expected \in Tokens : Rollback(expected) \/ RollbackFault(expected)
  \/ \E v \in Versions, ls \in SUBSET Locales : Withdraw(v, ls)
  \/ Converge

Spec == Init /\ [][Next]_vars

-----------------------------------------------------------------------------
(* readLocalPublication: the status a reader gets for a route. *)
Read(v, l) ==
  LET record == store.states[v]
  IN IF record.status = "absent" THEN 404
     ELSE IF \/ record.status = "withdrawn"
             \/ l \in record.withdrawn_locales
             \/ cache[v].status = "withdrawn" THEN 410
     ELSE IF cache[v].status # "active" THEN 404
     ELSE 200

Visible == {route \in Versions \X Locales : Read(route[1], route[2]) = 200}

-----------------------------------------------------------------------------
(* What the plane has to keep. *)

TypeOK ==
  /\ store \in Store
  /\ cache \in [Versions -> CacheEntry]

\* At most one publication is active, and it is the one the pointer designates,
\* whatever was seeded, withdrawn, re-activated or compensated.
OneActive ==
  \A v \in Versions : store.states[v].status = "active" => store.pointer.publish_version = v

\* Where the log has its events of a kind.
Places(log, act) == {i \in DOMAIN log : log[i].action = act}

\* The log of a store tells how its pointer got where it is: one event for each
\* activation and two for each rollback among the revisions, the last of them
\* naming the version designated.
Told(s) ==
  LET moves == Places(s.audits, "activate") \cup Places(s.audits, "rollback") IN
  /\ 2 * s.pointer.revision =
       2 * Cardinality(Places(s.audits, "activate")) + Cardinality(Places(s.audits, "rollback"))
  /\ IF moves = {} THEN s.pointer.publish_version = 0
     ELSE \E last \in moves : /\ \A i \in moves : i <= last
                              /\ s.audits[last].publish_version = s.pointer.publish_version

\* The audit log tells the same story as the pointer, whatever was withdrawn,
\* compensated or undone in between: no committed change is missing from it and
\* no undone change is in it.
AuditTrail == Told(store)

\* With the cache handed to every operation, a route of a version the pointer
\* does not designate is never answered 200: superseded and rolled back
\* generations, and the cache restored after a fault, included.
OnlyTargetServed ==
  \A route \in Visible : route[1] = store.pointer.publish_version

\* Stuck at revision r: the version designated is withdrawn in every locale.
StuckAt(r) == TargetStatus(store) = "withdrawn" /\ store.pointer.revision = r

\* Once the designated version is withdrawn in every locale the pointer never
\* moves again, whatever is called afterwards: activation and rollback want an
\* active target, and seeding the withdrawn version again, which ends its
\* withdrawal, gives it back a record that is validated and not active.
StuckOnceWithdrawn ==
  \A r \in 0 .. MaxAudits : [](StuckAt(r) => [](store.pointer.revision = r))

\* The plane keeps its promise: one version visible at a time, none of its
\* withdrawn routes, a pointer revision that is never reused by a later pointer,
\* and withdrawals that only a new activation or a new seed of the same version
\* can forget.
Gone == {route \in Versions \X Locales : route[2] \in store.states[route[1]].withdrawn_locales}

Promise == INSTANCE PublicationPromise WITH
  live <- store.pointer.publish_version,
  token <- store.pointer.revision,
  gone <- Gone,
  visible <- Visible

KeepsPromise == Promise!Spec

\* An injected fault of an activation puts the pointer, the records and the
\* audit events back, as the runbook says (docs/runbooks/phase2-local-publication.md).
FaultRestoresStore ==
  [][(\E v \in Versions, expected \in Tokens :
        \/ ActivateFaultBeforeCommit(v, expected)
        \/ ActivateFaultAfterCommit(v, expected)) => UNCHANGED store]_vars
=============================================================================
