------------------------- MODULE PublicationPointer -------------------------
(***************************************************************************)
(* The singleton that names the published version (requirePointerCanonical-*)
(* Command and claimPointerRevision in src/collections/shared.ts, with the *)
(* audit hook of src/access/audit-hook.ts).                                *)
(*                                                                         *)
(* A command carries the triple it expects and the triple it wants.  The   *)
(* hook compares the expected triple with the row Payload read before the  *)
(* hooks ran, and then claims the revision with an UPDATE ... WHERE        *)
(* revision = expected.  That statement takes the row's lock: another      *)
(* claim waits until the first transaction ends and sees its outcome.  The *)
(* row and the audit event of the command commit together.                 *)
(***************************************************************************)
EXTENDS Integers, Sequences

CONSTANTS
  Writers,             \* update requests, each in a transaction of its own
  Nobody,              \* nobody holds the row's lock
  MaxPublishVersion,   \* bound on the versions a command names
  MaxPointerRevision   \* bound on the revisions of the pointer

ASSUME PointerAssumption ==
  /\ Nobody \notin Writers
  /\ MaxPublishVersion \in Nat \ {0} /\ MaxPointerRevision \in Nat

VARIABLES
  pointer,   \* the committed row
  holder,    \* the transaction that holds its lock
  writers,   \* what each request expects and wants
  trusted,   \* the two identities still have the roles verifyPointerAuthorities asks for
  trail      \* the allowed audit events of the pointer, in the order of commit

pointerVars == <<pointer, holder, writers, trusted, trail>>
-----------------------------------------------------------------------------
\* Version 0 stands for null.  pointerTriple: no version only before the first.
Triple == {p \in [version: 0 .. MaxPublishVersion, previous: 0 .. MaxPublishVersion, revision: 0 .. MaxPointerRevision] :
             /\ p.version = 0 => p.previous = 0 /\ p.revision = 0
             /\ p.version # 0 => p.revision # 0}

Unborn == [version |-> 0, previous |-> 0, revision |-> -1]
Rows == Triple \cup {Unborn}

Resting == [pc |-> "resting"]
Request == [pc: {"ordered", "decided", "claimed"}, expected: Rows, desired: Triple]
AllowedEvent == [before: Rows, after: Triple]

PointerInit ==
  /\ pointer = Unborn /\ holder = Nobody
  /\ writers = [w \in Writers |-> Resting]
  /\ trusted = TRUE
  /\ trail = <<>>

At(w, pc) == writers[w].pc = pc
MovePC(w, pc) == writers' = [writers EXCEPT ![w].pc = pc]

-----------------------------------------------------------------------------
(* The steps of a command. *)

\* A caller that has read the pointer composes the next command: the bootstrap
\* triple while there is no pointer, else any triple of the next revision.  The
\* code does not ask desired.previous to be the version it replaces.
Order(w, desired) ==
  /\ At(w, "resting")
  /\ desired.revision = pointer.revision + 1
  /\ writers' = [writers EXCEPT ![w] = [pc |-> "ordered", expected |-> pointer, desired |-> desired]]
  /\ UNCHANGED <<pointer, holder, trusted, trail>>

\* Payload reads the row; the hook checks the identities and the triples.
Decide(w) ==
  /\ At(w, "ordered")
  /\ trusted /\ writers[w].expected = pointer
  /\ MovePC(w, "decided")
  /\ UNCHANGED <<pointer, holder, trusted, trail>>

\* Slip: Payload's usual update by id, which compares nothing when it writes.
SlipClaim(w) ==
  /\ At(w, "decided") /\ holder = Nobody
  /\ writers[w].expected # Unborn
  /\ holder' = w
  /\ MovePC(w, "claimed")
  /\ UNCHANGED <<pointer, trusted, trail>>

\* claimPointerRevision: the compare-and-set of the database.
Claim(w) ==
  /\ At(w, "decided") /\ holder = Nobody
  /\ writers[w].expected # Unborn
  /\ pointer.revision = writers[w].expected.revision
  /\ holder' = w
  /\ MovePC(w, "claimed")
  /\ UNCHANGED <<pointer, trusted, trail>>

\* The INSERT of the first row, under the unique index of singleton_key.
Insert(w) ==
  /\ At(w, "decided") /\ holder = Nobody
  /\ writers[w].expected = Unborn /\ pointer = Unborn
  /\ holder' = w
  /\ MovePC(w, "claimed")
  /\ UNCHANGED <<pointer, trusted, trail>>

\* Payload writes the row, the hook its audit event, and the transaction commits.
Commit(w) ==
  /\ At(w, "claimed")
  /\ pointer' = writers[w].desired
  /\ trail' = Append(trail, [before |-> writers[w].expected, after |-> writers[w].desired])
  /\ holder' = Nobody
  /\ writers' = [writers EXCEPT ![w] = Resting]
  /\ UNCHANGED trusted

\* A refused check, a lost claim, an audit insert that fails, a crash: the
\* transaction is rolled back.  The denied audit event is not modelled.
Rollback(w) ==
  /\ ~At(w, "resting")
  /\ holder' = IF holder = w THEN Nobody ELSE holder
  /\ writers' = [writers EXCEPT ![w] = Resting]
  /\ UNCHANGED <<pointer, trusted, trail>>

\* The persisted roles of the publisher or of the publish service are edited.
ChangeRoles ==
  /\ trusted' = ~trusted
  /\ UNCHANGED <<pointer, holder, writers, trail>>

PointerNext ==
  \/ \E w \in Writers, desired \in Triple : Order(w, desired)
  \/ \E w \in Writers : Decide(w)
  \/ \E w \in Writers : Claim(w)
  \/ \E w \in Writers : Insert(w)
  \/ \E w \in Writers : Commit(w)
  \/ \E w \in Writers : Rollback(w)
  \/ ChangeRoles

PointerSpec == PointerInit /\ [][PointerNext]_pointerVars

-----------------------------------------------------------------------------
(* Properties. *)

\* The pointer, the requests and the audit events have their shapes.
PointerTypeOK ==
  /\ pointer \in Rows /\ holder \in Writers \cup {Nobody} /\ trusted \in BOOLEAN
  /\ writers \in [Writers -> {Resting} \cup Request]
  /\ trail \in Seq(AllowedEvent)

Newest == IF trail = <<>> THEN Unborn ELSE trail[Len(trail)].after

\* No accepted command is lost or overwritten (claimPointerRevision, "this
\* predicate makes that snapshot check a database-enforced CAS"): read in the
\* order of commit, the audit events form one chain, each leaving the triple
\* the next one expected, and the last one left the pointer as it is.
PointerLinear ==
  /\ pointer = Newest
  /\ \A i \in DOMAIN trail : trail[i].before = IF i = 1 THEN Unborn ELSE trail[i - 1].after
=============================================================================
