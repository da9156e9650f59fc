--------------------------- MODULE QueueConsumer ---------------------------
(***************************************************************************)
(* Consuming queue messages (src/queues: consumer.ts, idempotency-store.ts *)
(* and the tombstones of withdraw.ts): consumers deliver messages, claim   *)
(* their idempotency key, and commit their effect, while leases and        *)
(* retention run out, sources change and rights are revoked.               *)
(*                                                                         *)
(* Each operation of the store runs alone (its promise mutex), so it is    *)
(* one step; consume awaits between its checks, the claim and the commit,  *)
(* and everything else interleaves there.  The outcome a consumer reports  *)
(* changes no state and is left out.                                       *)
(***************************************************************************)
EXTENDS Integers, Sequences, FiniteSets

CONSTANTS
  Consumers,
  Requests,      \* requests: what a message asks for, see Request
  Keys,          \* idempotency keys
  Entities,
  Jobs,          \* job ids a request may be enqueued under
  MaxAttempt,    \* bound on the attempt of a message
  Messages,      \* the messages that are delivered, each any number of times
  MaxSource,     \* bound on the versions of a source
  MaxWithdrawal, \* bound on the versions of withdrawal requests
  MaxClaims      \* bound on the claims acquired

\* What the fingerprint covers: every field of the envelope but job_id,
\* attempt and enqueued_at.  lineage: its correlation and causation ids.
\* expects: expected_source_version, 0 for null.  withdrawal: the request
\* version in the key of a withdraw message, 0 for a key the contract accepts in
\* a case in which the consumer does not find its version.
Request == [key: Keys, entity: Entities, kind: {"normal", "withdraw"}, lineage: Nat,
            expects: 0 .. MaxSource, withdrawal: 0 .. MaxWithdrawal]

\* A request under a job id, at its first or a later attempt.
Message == [request: Requests, job: Jobs, attempt: 0 .. MaxAttempt]

ASSUME QueueAssumption ==
  /\ Requests \subseteq Request
  /\ Messages \subseteq Message
  /\ MaxAttempt \in Nat /\ MaxSource \in Nat \ {0} /\ MaxWithdrawal \in Nat /\ MaxClaims \in Nat

VARIABLES
  claims,      \* the claim of each key
  sequence,    \* the last number of the store's tokens
  source,      \* the current version of each entity's source
  tombstones,  \* the withdrawal version each entity is buried under, 0 for none
  consumers,   \* where each consumer is
  ledger       \* the requests whose effects were performed, in order

vars == <<claims, sequence, source, tombstones, consumers, ledger>>

-----------------------------------------------------------------------------
NoClaim == [state |-> "none"]

\* over: whether the lease (of a claim in processing) or the retention (of a
\* success) has run out.
StoredClaim == [state: {"processing", "success"}, request: Requests, job: Jobs,
                attempt: 0 .. MaxAttempt, token: 1 .. MaxClaims, over: BOOLEAN]

Idle == [pc |-> "idle"]
Consumer == {Idle} \cup [pc: {"claiming"}, message: Messages]
                   \cup [pc: {"committing"}, message: Messages, token: 1 .. MaxClaims]

Init ==
  /\ claims = [k \in Keys |-> NoClaim]
  /\ sequence = 0
  /\ source = [e \in Entities |-> 1]
  /\ tombstones = [e \in Entities |-> 0]
  /\ consumers = [c \in Consumers |-> Idle]
  /\ ledger = <<>>

-----------------------------------------------------------------------------
(* The conditions of consume. *)

\* Slip: the source version of a request is not compared.
SlipAnySource(r) == r \in Requests

\* The source is at the version the request expects.
Current(r) == r.expects \in {0, source[r.entity]}

\* Slip: a success is claimed again before its retention ends.
SlipSuccessForgotten(m) ==
  LET prior == claims[m.request.key] IN
  \/ prior = NoClaim
  \/ /\ prior # NoClaim
     /\ prior.request = m.request
     /\ \/ prior.state = "success"
        \/ prior.state = "processing" /\ prior.over /\ m.job = prior.job /\ m.attempt = prior.attempt + 1

\* claim acquires: no claim is there, or one of the same fingerprint that is a
\* success past its retention, or one past its lease of which this message is
\* the next attempt.  It is a duplicate, busy or in conflict otherwise.
Claimable(m) ==
  LET prior == claims[m.request.key] IN
  \/ prior = NoClaim
  \/ /\ prior # NoClaim /\ prior.request = m.request
     /\ prior.over
     /\ \/ prior.state = "success"
        \/ prior.state = "processing" /\ m.job = prior.job /\ m.attempt = prior.attempt + 1

Committing(c) == consumers[c].pc = "committing"
KeyOf(c) == consumers[c].message.request.key

\* Slip: the token is not compared.
SlipAnyToken(c) == claims[KeyOf(c)].state = "processing"

\* The claim is still the one the consumer acquired.
Owns(c) == claims[KeyOf(c)].state = "processing" /\ claims[KeyOf(c)].token = consumers[c].token

\* WithdrawalTombstones.record keeps the higher version.
Recorded(e, version) ==
  [tombstones EXCEPT ![e] = IF version > @ THEN version ELSE @]

-----------------------------------------------------------------------------
(* The steps. *)

\* consume checks the tombstones and the source and goes on to the claim.
Deliver(c, m) ==
  /\ consumers[c] = Idle
  /\ m.request.kind # "withdraw" => tombstones[m.request.entity] = 0
  /\ Current(m.request)
  /\ consumers' = [consumers EXCEPT ![c] = [pc |-> "claiming", message |-> m]]
  /\ UNCHANGED <<claims, sequence, source, tombstones, ledger>>

Acquire(c) ==
  /\ consumers[c].pc = "claiming"
  /\ Claimable(consumers[c].message)
  /\ sequence < MaxClaims
  /\ sequence' = sequence + 1
  /\ claims' = [claims EXCEPT ![KeyOf(c)] =
       [state |-> "processing", request |-> consumers[c].message.request,
        job |-> consumers[c].message.job, attempt |-> consumers[c].message.attempt,
        token |-> sequence', over |-> FALSE]]
  /\ consumers' = [consumers EXCEPT ![c] =
       [pc |-> "committing", message |-> consumers[c].message, token |-> sequence']]
  /\ UNCHANGED <<source, tombstones, ledger>>

\* The claim is answered duplicate, busy or conflict.
Refused(c) ==
  /\ consumers[c].pc = "claiming"
  /\ ~Claimable(consumers[c].message)
  /\ consumers' = [consumers EXCEPT ![c] = Idle]
  /\ UNCHANGED <<claims, sequence, source, tombstones, ledger>>

\* The tombstones once the withdrawal of r was recorded.
Buried(r) == IF r.kind = "withdraw" THEN Recorded(r.entity, r.withdrawal) ELSE tombstones

\* commit: the effect, the tombstone of a withdrawal and the success receipt
\* in one transition.
Commit(c) ==
  LET r == consumers[c].message.request IN
  /\ Committing(c) /\ Owns(c) /\ Current(r)
  /\ r.kind = "withdraw" => r.withdrawal > 0
  /\ claims' = [claims EXCEPT ![r.key] =
       [state |-> "success", request |-> claims[r.key].request, job |-> claims[r.key].job,
        attempt |-> claims[r.key].attempt, token |-> claims[r.key].token, over |-> FALSE]]
  /\ ledger' = Append(ledger, r)
  /\ tombstones' = Buried(r)
  /\ consumers' = [consumers EXCEPT ![c] = Idle]
  /\ UNCHANGED <<sequence, source>>

\* Slip: a released claim keeps its token.
SlipHalfReleased(k) == [claims EXCEPT ![k].state = "none"]

Released(k) == [claims EXCEPT ![k] = NoClaim]

\* The effect is performed and then commit throws: the effect itself at its end,
\* withdrawalRequestVersion on the key of a withdrawal, or the check of the
\* receipt, which comes after the tombstone was recorded.  The catch drops the
\* claim, as if nothing had been done.
CommitThrows(c) ==
  LET r == consumers[c].message.request IN
  /\ Committing(c) /\ Owns(c) /\ Current(r)
  /\ ledger' = Append(ledger, r)
  /\ tombstones' \in {tombstones, Buried(r)}
  /\ claims' = Released(r.key)
  /\ consumers' = [consumers EXCEPT ![c] = Idle]
  /\ UNCHANGED <<sequence, source>>

\* commit finds the source moved on, or its effect throws before it did
\* anything; or the owner abandons the claim.  The claim is dropped and nothing
\* was done.
Release(c) ==
  /\ Committing(c) /\ Owns(c)
  /\ claims' = Released(KeyOf(c))
  /\ consumers' = [consumers EXCEPT ![c] = Idle]
  /\ UNCHANGED <<sequence, source, tombstones, ledger>>

\* commit finds that the claim was taken over.
LostClaim(c) ==
  /\ Committing(c) /\ ~Owns(c)
  /\ consumers' = [consumers EXCEPT ![c] = Idle]
  /\ UNCHANGED <<claims, sequence, source, tombstones, ledger>>

\* A consumer dies and leaves its claim behind.
Crash(c) ==
  /\ consumers[c] # Idle
  /\ consumers' = [consumers EXCEPT ![c] = Idle]
  /\ UNCHANGED <<claims, sequence, source, tombstones, ledger>>

\* A lease or a retention runs out.
RunsOut(k) ==
  /\ claims[k].state # "none" /\ ~claims[k].over
  /\ claims' = [claims EXCEPT ![k] =
       [state |-> @.state, request |-> @.request, job |-> @.job,
        attempt |-> @.attempt, token |-> @.token, over |-> TRUE]]
  /\ UNCHANGED <<sequence, source, tombstones, consumers, ledger>>

\* The source of an entity moves on to its next version.
SourceMoves(e) ==
  /\ source[e] < MaxSource
  /\ source' = [source EXCEPT ![e] = @ + 1]
  /\ UNCHANGED <<claims, sequence, tombstones, consumers, ledger>>

\* recordRightsRevocation: once the emergency job is enqueued, the tombstone is set.
RevokeRights(e, version) ==
  /\ tombstones' = Recorded(e, version)
  /\ UNCHANGED <<claims, sequence, source, consumers, ledger>>

Next ==
  \/ \E c \in Consumers :
       \/ \E m \in Messages : Deliver(c, m)
       \/ Acquire(c) \/ Refused(c) \/ Commit(c) \/ CommitThrows(c) \/ Release(c) \/ LostClaim(c) \/ Crash(c)
  \/ \E k \in Keys : RunsOut(k)
  \/ \E e \in Entities : SourceMoves(e) \/ \E version \in 1 .. MaxWithdrawal : RevokeRights(e, version)

Spec == Init /\ [][Next]_vars
-----------------------------------------------------------------------------
(* Properties. *)

TypeOK ==
  /\ claims \in [Keys -> {NoClaim} \cup StoredClaim]
  /\ sequence \in 0 .. MaxClaims
  /\ source \in [Entities -> 1 .. MaxSource]
  /\ tombstones \in [Entities -> 0 .. MaxWithdrawal]
  /\ consumers \in [Consumers -> Consumer]
  /\ ledger \in Seq(Requests)
  /\ \A k \in Keys : claims[k] # NoClaim => claims[k].token <= sequence /\ claims[k].request.key = k

\* Of all consumers that think they own the claim of a key, crashed leases and
\* takeovers included, the store lets at most one commit.
OneOwner ==
  \A c, d \in Consumers :
    Committing(c) /\ Committing(d) /\ KeyOf(c) = KeyOf(d) /\ Owns(c) /\ Owns(d) => c = d

\* Messages may arrive late and out of order, and a source may move while its
\* message waits for the store: no effect for an older version of a source
\* ever follows one for a newer version.
NewestSourceWins ==
  \A i, j \in 1 .. Len(ledger) :
    /\ i < j
    /\ ledger[i].entity = ledger[j].entity
    /\ ledger[i].expects # 0 /\ ledger[j].expects # 0
    => ledger[i].expects <= ledger[j].expects

\* What the store promises: an effect that is remembered is not performed again
\* until its retention is over, whatever is delivered twice, crashes, is taken
\* over or throws; the only effect it does not remember is one after which the
\* commit threw.
Promise == INSTANCE EffectPromise WITH
  performed <- [k \in Keys |-> Cardinality({i \in 1 .. Len(ledger) : ledger[i].key = k})],
  memory <- [k \in Keys |->
    IF claims[k].state # "success" THEN "unknown" ELSE IF claims[k].over THEN "lapsed" ELSE "done"]

KeepsPromise == Promise!Spec

\* Once a withdrawal of an entity took effect, no old job of that entity does
\* any more.
OldJobsCannotReverse ==
  \A i, j \in 1 .. Len(ledger) :
    i < j /\ ledger[i].entity = ledger[j].entity /\ ledger[i].kind = "withdraw"
    => ledger[j].kind = "withdraw"
=============================================================================
