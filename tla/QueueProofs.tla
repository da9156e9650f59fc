---------------------------- MODULE QueueProofs ----------------------------
(***************************************************************************)
(* Theorems about QueueConsumer, for any consumers, keys, entities and     *)
(* messages.                                                               *)
(***************************************************************************)
EXTENDS QueueConsumer, FiniteSetTheorems, SequenceTheorems, TLAPS

\* Tokens were issued by the store, each to one consumer.
TokensDistinct ==
  /\ \A c \in Consumers : Committing(c) => consumers[c].token <= sequence
  /\ \A c, d \in Consumers :
       Committing(c) /\ Committing(d) /\ c # d => consumers[c].token # consumers[d].token

\* No effect is ahead of the source it was for.
LedgerBehind ==
  \A i \in 1 .. Len(ledger) :
    ledger[i].expects # 0 => ledger[i].expects <= source[ledger[i].entity]

IInv == TypeOK /\ TokensDistinct /\ LedgerBehind /\ NewestSourceWins

-----------------------------------------------------------------------------
(* What types say. *)

LEMMA RequestFields ==
  ASSUME NEW r \in Requests
  PROVE  /\ r.key \in Keys /\ r.entity \in Entities
         /\ r.expects \in 0 .. MaxSource /\ r.withdrawal \in 0 .. MaxWithdrawal
BY QueueAssumption DEF Request

LEMMA MessageFields ==
  ASSUME NEW m \in Messages
  PROVE  m.request \in Requests /\ m.job \in Jobs /\ m.attempt \in 0 .. MaxAttempt
BY QueueAssumption DEF Message

LEMMA ConsumerFields ==
  ASSUME TypeOK, NEW c \in Consumers
  PROVE  /\ consumers[c].pc = "claiming" => consumers[c].message \in Messages
         /\ Committing(c) => consumers[c].message \in Messages /\ consumers[c].token \in 1 .. MaxClaims
         /\ consumers[c] # Idle => consumers[c].pc \in {"claiming", "committing"}
BY DEF TypeOK, Consumer, Idle, Committing

LEMMA ClaimFields ==
  ASSUME TypeOK, NEW k \in Keys
  PROVE  /\ (claims[k] = NoClaim) = (claims[k].state = "none")
         /\ claims[k] # NoClaim => claims[k] \in StoredClaim
BY DEF TypeOK, NoClaim, StoredClaim

-----------------------------------------------------------------------------
(* The ways a step changes the state. *)

\* Only claims, and what is behind them.
LEMMA ClaimStored ==
  ASSUME TypeOK, NEW k \in Keys, NEW claim \in {NoClaim} \cup StoredClaim,
         claim # NoClaim => claim.token <= sequence /\ claim.request.key = k
  PROVE  /\ [claims EXCEPT ![k] = claim] \in [Keys -> {NoClaim} \cup StoredClaim]
         /\ \A l \in Keys : [claims EXCEPT ![k] = claim][l] # NoClaim =>
              /\ [claims EXCEPT ![k] = claim][l].token <= sequence
              /\ [claims EXCEPT ![k] = claim][l].request.key = l
BY DEF TypeOK

\* A consumer goes idle or starts a message: the tokens that are out are still apart.
LEMMA ConsumerMoves ==
  ASSUME IInv, NEW c \in Consumers, NEW s \in Consumer, s.pc # "committing",
         consumers' = [consumers EXCEPT ![c] = s], UNCHANGED sequence
  PROVE  consumers' \in [Consumers -> Consumer] /\ TokensDistinct'
<1>1. consumers' \in [Consumers -> Consumer]
  BY DEF IInv, TypeOK
<1>2. ASSUME NEW d \in Consumers, Committing(d)' PROVE consumers'[d] = consumers[d] /\ Committing(d)
  BY <1>2 DEF IInv, TypeOK, Committing
<1>3. ASSUME NEW d \in Consumers, Committing(d)' PROVE consumers'[d].token <= sequence'
  BY <1>2, <1>3 DEF IInv, TokensDistinct
<1>4. ASSUME NEW d \in Consumers, NEW e \in Consumers, Committing(d)', Committing(e)', d # e
      PROVE  consumers'[d].token # consumers'[e].token
  BY <1>2, <1>4 DEF IInv, TokensDistinct
<1> QED BY <1>1, <1>3, <1>4 DEF TokensDistinct

LEMMA IdleConsumer == Idle \in Consumer /\ Idle.pc # "committing"
BY DEF Idle, Consumer

\* The tombstones stay typed and rise, whichever version is recorded.
LEMMA RecordedRises ==
  ASSUME TypeOK, NEW e \in Entities, NEW version \in 0 .. MaxWithdrawal
  PROVE  /\ Recorded(e, version) \in [Entities -> 0 .. MaxWithdrawal]
         /\ \A f \in Entities : Recorded(e, version)[f] >= tombstones[f]
BY QueueAssumption DEF TypeOK, Recorded

LEMMA BuriedTyped ==
  ASSUME TypeOK, NEW r \in Requests
  PROVE  Buried(r) \in [Entities -> 0 .. MaxWithdrawal]
BY RequestFields, RecordedRises DEF Buried, TypeOK

\* An effect for the current version of a source goes at the end of the ledger.
LEMMA LedgerGrows ==
  ASSUME IInv, NEW r \in Requests, Current(r)
  PROVE  LET longer == Append(ledger, r) IN
         /\ longer \in Seq(Requests)
         /\ \A i \in 1 .. Len(longer) : longer[i].expects # 0 => longer[i].expects <= source[longer[i].entity]
         /\ \A i, j \in 1 .. Len(longer) :
              /\ i < j
              /\ longer[i].entity = longer[j].entity
              /\ longer[i].expects # 0 /\ longer[j].expects # 0
              => longer[i].expects <= longer[j].expects
<1> DEFINE longer == Append(ledger, r)
<1>1. /\ longer \in Seq(Requests) /\ Len(longer) = Len(ledger) + 1 /\ Len(ledger) \in Nat
      /\ \A i \in 1 .. Len(ledger) : longer[i] = ledger[i]
      /\ longer[Len(ledger) + 1] = r
  BY AppendProperties DEF IInv, TypeOK
<1>2. r.entity \in Entities /\ r.expects \in Nat /\ (r.expects # 0 => r.expects = source[r.entity])
  BY RequestFields, QueueAssumption DEF Current
<1>3. source[r.entity] \in Nat
  BY <1>2, QueueAssumption DEF IInv, TypeOK
<1> HIDE DEF longer
<1>4. ASSUME NEW i \in 1 .. Len(longer), longer[i].expects # 0
      PROVE  longer[i].expects <= source[longer[i].entity]
  <2>1. CASE i \in 1 .. Len(ledger)
    BY <1>1, <1>4, <2>1 DEF IInv, LedgerBehind
  <2>2. CASE i = Len(ledger) + 1
    BY <1>1, <1>2, <1>3, <1>4, <2>2
  <2> QED BY <1>1, <2>1, <2>2
<1>5. ASSUME NEW i \in 1 .. Len(longer), NEW j \in 1 .. Len(longer), i < j,
             longer[i].entity = longer[j].entity, longer[i].expects # 0, longer[j].expects # 0
      PROVE  longer[i].expects <= longer[j].expects
  <2>1. i \in 1 .. Len(ledger)
    BY <1>1, <1>5
  <2>2. CASE j \in 1 .. Len(ledger)
    BY <1>1, <1>5, <2>1, <2>2 DEF IInv, NewestSourceWins
  <2>3. CASE j = Len(ledger) + 1
    <3>1. longer[j] = r
      BY <1>1, <2>3
    <3>2. longer[j].expects = source[longer[i].entity]
      BY <1>2, <1>5, <3>1
    <3> QED BY <1>4, <1>5, <3>2
  <2> QED BY <1>1, <2>2, <2>3
<1> QED BY <1>1, <1>4, <1>5 DEF longer

-----------------------------------------------------------------------------
(* The inductive invariant, step by step. *)

LEMMA InitHolds == Init => IInv
<1> SUFFICES ASSUME Init PROVE IInv
  OBVIOUS
<1>1. TypeOK
  <2>1. 1 \in 1 .. MaxSource
    BY QueueAssumption
  <2>2. 0 \in 0 .. MaxClaims /\ 0 \in 0 .. MaxWithdrawal
    BY QueueAssumption
  <2>3. <<>> \in Seq(Requests)
    OBVIOUS
  <2>4. claims = [k \in Keys |-> NoClaim] /\ \A k \in Keys : claims[k] = NoClaim
    BY DEF Init
  <2>5. claims \in [Keys -> {NoClaim} \cup StoredClaim]
    BY <2>4, Zenon
  <2>6. consumers \in [Consumers -> Consumer]
    BY IdleConsumer, Zenon DEF Init
  <2> QED BY <2>1, <2>2, <2>3, <2>4, <2>5, <2>6 DEF Init, TypeOK
<1>2. TokensDistinct
  BY DEF Init, TokensDistinct, Committing, Idle
<1>3. LedgerBehind /\ NewestSourceWins
  BY DEF Init, LedgerBehind, NewestSourceWins
<1> QED BY <1>1, <1>2, <1>3 DEF IInv

LEMMA DeliverKeeps ==
  ASSUME IInv, NEW c \in Consumers, NEW m \in Messages, Deliver(c, m)
  PROVE  IInv'
<1> DEFINE s == [pc |-> "claiming", message |-> m]
<1>1. s \in Consumer /\ s.pc # "committing"
  BY DEF Consumer
<1>2. /\ consumers' = [consumers EXCEPT ![c] = s]
      /\ UNCHANGED <<claims, sequence, source, tombstones, ledger>>
  BY DEF Deliver
<1> HIDE DEF s
<1>3. consumers' \in [Consumers -> Consumer] /\ TokensDistinct'
  BY <1>1, <1>2, ConsumerMoves
<1> QED BY <1>2, <1>3 DEF IInv, TypeOK, LedgerBehind, NewestSourceWins

\* A consumer that gives up changes nothing but itself.
LEMMA GivingUpKeeps ==
  ASSUME IInv, NEW c \in Consumers, Refused(c) \/ LostClaim(c) \/ Crash(c)
  PROVE  IInv'
<1>1. /\ consumers' = [consumers EXCEPT ![c] = Idle]
      /\ UNCHANGED <<claims, sequence, source, tombstones, ledger>>
  BY DEF Refused, LostClaim, Crash
<1>2. consumers' \in [Consumers -> Consumer] /\ TokensDistinct'
  BY <1>1, IdleConsumer, ConsumerMoves
<1> QED BY <1>1, <1>2 DEF IInv, TypeOK, LedgerBehind, NewestSourceWins

LEMMA AcquireKeeps ==
  ASSUME IInv, NEW c \in Consumers, Acquire(c)
  PROVE  IInv'
<1> DEFINE m == consumers[c].message
           k == KeyOf(c)
           claim == [state |-> "processing", request |-> m.request, job |-> m.job,
                     attempt |-> m.attempt, token |-> sequence', over |-> FALSE]
           s == [pc |-> "committing", message |-> m, token |-> sequence']
<1>1. TypeOK /\ m \in Messages /\ k = m.request.key /\ k \in Keys
  BY ConsumerFields, MessageFields, RequestFields DEF IInv, Acquire, KeyOf
<1>2. sequence \in Nat /\ sequence' = sequence + 1 /\ sequence' \in 1 .. MaxClaims
  BY <1>1, QueueAssumption DEF TypeOK, Acquire
<1>3. claim \in StoredClaim /\ s \in Consumer
  BY <1>1, <1>2, MessageFields DEF StoredClaim, Consumer
<1>4. /\ claims' = [claims EXCEPT ![k] = claim]
      /\ consumers' = [consumers EXCEPT ![c] = s]
      /\ UNCHANGED <<source, tombstones, ledger>>
  BY DEF Acquire
<1>5. claim.token = sequence' /\ claim.request.key = k /\ s.token = sequence'
  BY <1>1
<1> HIDE DEF claim, s, k, m
<1>6. claims' \in [Keys -> {NoClaim} \cup StoredClaim]
  BY <1>1, <1>3, <1>4 DEF TypeOK
<1>7. ASSUME NEW l \in Keys, claims'[l] # NoClaim
      PROVE  claims'[l].token <= sequence' /\ claims'[l].request.key = l
  <2>1. CASE l = k
    BY <1>1, <1>2, <1>4, <1>5, <2>1 DEF TypeOK
  <2>2. CASE l # k
    <3>1. claims'[l] = claims[l] /\ claims[l] \in StoredClaim
      BY <1>1, <1>4, <1>7, <2>2 DEF TypeOK
    <3>2. claims[l].token \in Nat
      BY <3>1 DEF StoredClaim
    <3> QED BY <1>1, <1>2, <1>7, <3>1, <3>2 DEF TypeOK
  <2> QED BY <2>1, <2>2
<1>8. consumers' \in [Consumers -> Consumer] /\ sequence' \in 0 .. MaxClaims
  BY <1>1, <1>2, <1>3, <1>4 DEF TypeOK
<1>9. TypeOK'
  BY <1>1, <1>4, <1>6, <1>7, <1>8 DEF TypeOK
<1>10. TokensDistinct'
  <2>1. ASSUME NEW d \in Consumers, d # c, Committing(d)'
        PROVE  Committing(d) /\ consumers'[d] = consumers[d] /\ consumers[d].token \in Nat
               /\ consumers[d].token <= sequence
    BY <1>1, <1>4, <2>1, ConsumerFields DEF IInv, TypeOK, Committing, TokensDistinct
  <2>2. consumers'[c].token = sequence'
    BY <1>1, <1>4, <1>5 DEF TypeOK
  <2>3. ASSUME NEW d \in Consumers, Committing(d)' PROVE consumers'[d].token <= sequence'
    BY <1>2, <2>1, <2>2, <2>3
  <2>4. ASSUME NEW d \in Consumers, NEW e \in Consumers, Committing(d)', Committing(e)', d # e
        PROVE  consumers'[d].token # consumers'[e].token
    <3>1. CASE d # c /\ e # c
      BY <2>1, <2>4, <3>1 DEF IInv, TokensDistinct
    <3>2. CASE d = c \/ e = c
      BY <1>2, <2>1, <2>2, <2>4, <3>2
    <3> QED BY <3>1, <3>2
  <2> QED BY <2>3, <2>4 DEF TokensDistinct
<1> QED BY <1>4, <1>9, <1>10 DEF IInv, LedgerBehind, NewestSourceWins

LEMMA CommitKeeps ==
  ASSUME IInv, NEW c \in Consumers, Commit(c)
  PROVE  IInv'
<1> DEFINE r == consumers[c].message.request
           k == r.key
           prior == claims[k]
           claim == [state |-> "success", request |-> prior.request, job |-> prior.job,
                     attempt |-> prior.attempt, token |-> prior.token, over |-> FALSE]
<1>1. TypeOK /\ r \in Requests /\ k \in Keys /\ r.entity \in Entities /\ Current(r)
  BY ConsumerFields, MessageFields, RequestFields DEF IInv, Commit
<1>2. prior \in StoredClaim /\ prior # NoClaim
  BY <1>1, ClaimFields DEF Commit, Owns, KeyOf
<1>3. claim \in StoredClaim
  BY <1>2 DEF StoredClaim
<1>4. claim.token = prior.token /\ claim.request = prior.request
  OBVIOUS
<1>5. /\ claims' = [claims EXCEPT ![k] = claim]
      /\ consumers' = [consumers EXCEPT ![c] = Idle]
      /\ ledger' = Append(ledger, r)
      /\ UNCHANGED <<sequence, source>>
  BY DEF Commit
<1>6. tombstones' = Buried(r)
  BY DEF Commit
<1> HIDE DEF claim, r
<1>8. tombstones' \in [Entities -> 0 .. MaxWithdrawal]
  BY <1>1, <1>6, BuriedTyped
<1>9. prior.token <= sequence /\ prior.request.key = k
  BY <1>1, <1>2 DEF TypeOK
<1>10. /\ claims' \in [Keys -> {NoClaim} \cup StoredClaim]
       /\ \A l \in Keys : claims'[l] # NoClaim => claims'[l].token <= sequence /\ claims'[l].request.key = l
  BY <1>1, <1>3, <1>4, <1>5, <1>9, ClaimStored
<1>11. consumers' \in [Consumers -> Consumer] /\ TokensDistinct'
  BY <1>5, IdleConsumer, ConsumerMoves
<1>12. ledger' \in Seq(Requests) /\ LedgerBehind' /\ NewestSourceWins'
  BY <1>1, <1>5, LedgerGrows DEF LedgerBehind, NewestSourceWins
<1>13. TypeOK'
  BY <1>1, <1>5, <1>8, <1>10, <1>11, <1>12 DEF TypeOK
<1> QED BY <1>11, <1>12, <1>13 DEF IInv

LEMMA CommitThrowsKeeps ==
  ASSUME IInv, NEW c \in Consumers, CommitThrows(c)
  PROVE  IInv'
<1> DEFINE r == consumers[c].message.request
<1>1. TypeOK /\ r \in Requests /\ r.key \in Keys /\ Current(r)
  BY ConsumerFields, MessageFields, RequestFields DEF IInv, CommitThrows
<1>2. /\ claims' = [claims EXCEPT ![r.key] = NoClaim]
      /\ consumers' = [consumers EXCEPT ![c] = Idle]
      /\ ledger' = Append(ledger, r)
      /\ tombstones' \in {tombstones, Buried(r)}
      /\ UNCHANGED <<sequence, source>>
  BY DEF CommitThrows, Released
<1> HIDE DEF r
<1>3. tombstones' \in [Entities -> 0 .. MaxWithdrawal]
  BY <1>1, <1>2, BuriedTyped DEF TypeOK
<1>4. /\ claims' \in [Keys -> {NoClaim} \cup StoredClaim]
      /\ \A l \in Keys : claims'[l] # NoClaim => claims'[l].token <= sequence /\ claims'[l].request.key = l
  BY <1>1, <1>2, ClaimStored
<1>5. consumers' \in [Consumers -> Consumer] /\ TokensDistinct'
  BY <1>2, IdleConsumer, ConsumerMoves
<1>6. ledger' \in Seq(Requests) /\ LedgerBehind' /\ NewestSourceWins'
  BY <1>1, <1>2, LedgerGrows DEF LedgerBehind, NewestSourceWins
<1>7. TypeOK'
  BY <1>1, <1>2, <1>3, <1>4, <1>5, <1>6 DEF TypeOK
<1> QED BY <1>5, <1>6, <1>7 DEF IInv

LEMMA ReleaseKeeps ==
  ASSUME IInv, NEW c \in Consumers, Release(c)
  PROVE  IInv'
<1>1. TypeOK /\ KeyOf(c) \in Keys
  BY ConsumerFields, MessageFields, RequestFields DEF IInv, Release, KeyOf
<1>2. /\ claims' = [claims EXCEPT ![KeyOf(c)] = NoClaim]
      /\ consumers' = [consumers EXCEPT ![c] = Idle]
      /\ UNCHANGED <<sequence, source, tombstones, ledger>>
  BY DEF Release, Released
<1>3. /\ claims' \in [Keys -> {NoClaim} \cup StoredClaim]
      /\ \A l \in Keys : claims'[l] # NoClaim => claims'[l].token <= sequence /\ claims'[l].request.key = l
  BY <1>1, <1>2, ClaimStored
<1>4. consumers' \in [Consumers -> Consumer] /\ TokensDistinct'
  BY <1>2, IdleConsumer, ConsumerMoves
<1> QED BY <1>1, <1>2, <1>3, <1>4 DEF IInv, TypeOK, LedgerBehind, NewestSourceWins

LEMMA RunsOutKeeps ==
  ASSUME IInv, NEW k \in Keys, RunsOut(k)
  PROVE  IInv'
<1> DEFINE prior == claims[k]
           claim == [state |-> prior.state, request |-> prior.request, job |-> prior.job,
                     attempt |-> prior.attempt, token |-> prior.token, over |-> TRUE]
<1>1. TypeOK /\ prior \in StoredClaim /\ prior # NoClaim
  BY ClaimFields DEF IInv, RunsOut
<1>2. claim \in StoredClaim /\ claim.token = prior.token /\ claim.request = prior.request
  BY <1>1 DEF StoredClaim
<1>3. claims' = [claims EXCEPT ![k] = claim] /\ UNCHANGED <<sequence, source, tombstones, consumers, ledger>>
  BY DEF RunsOut
<1> HIDE DEF claim
<1>4. prior.token <= sequence /\ prior.request.key = k
  BY <1>1 DEF TypeOK
<1>5. /\ claims' \in [Keys -> {NoClaim} \cup StoredClaim]
      /\ \A l \in Keys : claims'[l] # NoClaim => claims'[l].token <= sequence /\ claims'[l].request.key = l
  BY <1>1, <1>2, <1>3, <1>4, ClaimStored
<1> QED BY <1>1, <1>3, <1>5 DEF IInv, TypeOK, TokensDistinct, Committing, LedgerBehind, NewestSourceWins

LEMMA SourceMovesKeeps ==
  ASSUME IInv, NEW e \in Entities, SourceMoves(e)
  PROVE  IInv'
<1>1. /\ source' = [source EXCEPT ![e] = @ + 1] /\ source[e] < MaxSource
      /\ UNCHANGED <<claims, sequence, tombstones, consumers, ledger>>
  BY DEF SourceMoves
<1>2. source' \in [Entities -> 1 .. MaxSource] /\ \A f \in Entities : source[f] <= source'[f]
  BY <1>1, QueueAssumption DEF IInv, TypeOK
<1>3. LedgerBehind'
  <2>1. ASSUME NEW i \in 1 .. Len(ledger), ledger[i].expects # 0
        PROVE  ledger[i].expects <= source'[ledger[i].entity]
    <3>1. ledger[i] \in Requests
      BY <2>1 DEF IInv, TypeOK
    <3>2. ledger[i].entity \in Entities /\ ledger[i].expects \in Nat
      BY <3>1, RequestFields, QueueAssumption
    <3>3. ledger[i].expects <= source[ledger[i].entity]
      BY <2>1 DEF IInv, LedgerBehind
    <3>4. source[ledger[i].entity] \in Nat /\ source'[ledger[i].entity] \in Nat
      BY <1>2, <3>2, QueueAssumption DEF IInv, TypeOK
    <3> QED BY <1>2, <3>2, <3>3, <3>4
  <2> QED BY <1>1, <2>1 DEF LedgerBehind
<1> QED BY <1>1, <1>2, <1>3 DEF IInv, TypeOK, TokensDistinct, Committing, NewestSourceWins

LEMMA RevokeRightsKeeps ==
  ASSUME IInv, NEW e \in Entities, NEW version \in 1 .. MaxWithdrawal, RevokeRights(e, version)
  PROVE  IInv'
<1>1. tombstones' \in [Entities -> 0 .. MaxWithdrawal]
  BY RecordedRises DEF IInv, RevokeRights
<1> QED BY <1>1 DEF RevokeRights, IInv, TypeOK, TokensDistinct, Committing, LedgerBehind, NewestSourceWins

LEMMA NextKeeps == IInv /\ [Next]_vars => IInv'
<1>1. ASSUME IInv, Next PROVE IInv'
  BY <1>1, DeliverKeeps, GivingUpKeeps, AcquireKeeps, CommitKeeps, CommitThrowsKeeps, ReleaseKeeps,
     RunsOutKeeps, SourceMovesKeeps, RevokeRightsKeeps DEF Next
<1>2. ASSUME IInv, UNCHANGED vars PROVE IInv'
  BY <1>2 DEF IInv, vars, TypeOK, TokensDistinct, Committing, LedgerBehind, NewestSourceWins
<1> QED BY <1>1, <1>2

THEOREM Invariance == Spec => []IInv
BY InitHolds, NextKeeps, PTL DEF Spec

-----------------------------------------------------------------------------
(* Claims, tokens, tombstones and the ledger keep their shape; every token  *)
(* is one the store issued.                                                 *)
THEOREM TypeCorrect == Spec => []TypeOK
<1>1. IInv => TypeOK
  BY DEF IInv
<1> QED BY <1>1, Invariance, PTL

(* Of all consumers that believe they own the claim of a key, the store     *)
(* accepts one at most: a token is given to one consumer only.              *)
THEOREM OneOwnerAlways == Spec => []OneOwner
<1>1. IInv => OneOwner
  BY DEF IInv, OneOwner, TokensDistinct, Owns
<1> QED BY <1>1, Invariance, PTL

(* The ledger never goes back to an older version of a source: the version  *)
(* is compared again in the step that performs the effect.                  *)
THEOREM NewestSourceWinsAlways == Spec => []NewestSourceWins
<1>1. IInv => NewestSourceWins
  BY DEF IInv
<1> QED BY <1>1, Invariance, PTL

-----------------------------------------------------------------------------
(* The refinement: QueueConsumer implements EffectPromise. *)

\* What a claim says of its key.
Memory(claim) ==
  IF claim.state # "success" THEN "unknown" ELSE IF claim.over THEN "lapsed" ELSE "done"

PerformedIn(log, k) == Cardinality({i \in 1 .. Len(log) : log[i].key = k})

\* An effect counts for its own key and no other.
LEMMA OneMore ==
  ASSUME NEW log \in Seq(Requests), NEW r \in Requests, NEW k
  PROVE  PerformedIn(Append(log, r), k) = PerformedIn(log, k) + (IF r.key = k THEN 1 ELSE 0)
<1> DEFINE longer == Append(log, r)
           before == {i \in 1 .. Len(log) : log[i].key = k}
           after == {i \in 1 .. Len(longer) : longer[i].key = k}
<1>1. /\ Len(longer) = Len(log) + 1 /\ Len(log) \in Nat
      /\ \A i \in 1 .. Len(log) : longer[i] = log[i]
      /\ longer[Len(log) + 1] = r
  BY AppendProperties
<1>2. IsFiniteSet(before) /\ Cardinality(before) \in Nat
  <2>1. IsFiniteSet(1 .. Len(log))
    BY <1>1, FS_Interval
  <2>2. before \subseteq 1 .. Len(log)
    OBVIOUS
  <2> QED BY <2>1, <2>2, FS_Subset, FS_CardinalityType
<1>3. Len(log) + 1 \notin before
  BY <1>1
<1>4. CASE r.key = k
  <2>1. after = before \cup {Len(log) + 1}
    BY <1>1, <1>4
  <2>2. Cardinality(after) = Cardinality(before) + 1
    BY <1>2, <1>3, <2>1, FS_AddElement
  <2> QED BY <1>4, <2>2 DEF PerformedIn
<1>5. CASE r.key # k
  <2>1. after = before
    BY <1>1, <1>5
  <2>2. Cardinality(after) = Cardinality(before)
    BY <2>1, Zenon
  <2>3. PerformedIn(longer, k) = PerformedIn(log, k) /\ PerformedIn(log, k) \in Nat
    BY <1>2, <2>2, Zenon DEF PerformedIn
  <2> QED BY <1>5, <2>3
<1> QED BY <1>4, <1>5

\* Of all keys only that of r counts one effect more.
LEMMA OneEffect ==
  ASSUME NEW log \in Seq(Requests), NEW r \in Requests, r.key \in Keys
  PROVE  [l \in Keys |-> PerformedIn(Append(log, r), l)] =
         [[l \in Keys |-> PerformedIn(log, l)] EXCEPT ![r.key] = @ + 1]
<1>1. ASSUME NEW l \in Keys PROVE PerformedIn(log, l) \in Nat
  <2>1. IsFiniteSet(1 .. Len(log))
    BY FS_Interval
  <2>2. {i \in 1 .. Len(log) : log[i].key = l} \subseteq 1 .. Len(log)
    OBVIOUS
  <2> QED BY <2>1, <2>2, FS_Subset, FS_CardinalityType DEF PerformedIn
<1>2. \A l \in Keys : PerformedIn(Append(log, r), l) = PerformedIn(log, l) + (IF r.key = l THEN 1 ELSE 0)
  BY OneMore
<1>3. \A l \in Keys : l # r.key => PerformedIn(Append(log, r), l) = PerformedIn(log, l)
  BY <1>1, <1>2
<1> QED BY <1>2, <1>3

LEMMA InitPromise == Init => Promise!Init
<1> SUFFICES ASSUME Init PROVE Promise!Init
  OBVIOUS
<1>1. ASSUME NEW k \in Keys PROVE PerformedIn(ledger, k) = 0
  <2>1. {i \in 1 .. Len(<<>>) : <<>>[i].key = k} = {}
    OBVIOUS
  <2>2. Cardinality({i \in 1 .. Len(<<>>) : <<>>[i].key = k}) = 0
    BY <2>1, FS_EmptySet, Zenon
  <2> QED BY <2>2 DEF PerformedIn, Init
<1>2. \A k \in Keys : Memory(claims[k]) = "unknown"
  BY DEF Init, NoClaim, Memory
<1> QED BY <1>1, <1>2 DEF Promise!Init, PerformedIn, Memory

\* A step that performs nothing and changes what one key remembers.
LEMMA OneKey ==
  ASSUME TypeOK, NEW k \in Keys, NEW claim, claims' = [claims EXCEPT ![k] = claim], UNCHANGED ledger
  PROVE  /\ Memory(claim) = Memory(claims[k]) => UNCHANGED Promise!vars
         /\ Memory(claims[k]) = "done" /\ Memory(claim) = "lapsed" => Promise!Lapse(k)
         /\ Memory(claims[k]) = "lapsed" /\ Memory(claim) = "unknown" => Promise!Forget(k)
<1> DEFINE memory == [l \in Keys |-> Memory(claims[l])]
<1>1. claims'[k] = claim /\ \A l \in Keys : l # k => claims'[l] = claims[l]
  BY DEF TypeOK
<1>2. memory' = [memory EXCEPT ![k] = Memory(claim)]
  BY <1>1 DEF Memory
<1>3. Memory(claim) = Memory(claims[k]) => memory' = memory
  BY <1>2
<1>4. ASSUME Memory(claim) = Memory(claims[k]) PROVE UNCHANGED Promise!vars
  BY <1>3, <1>4, Zenon DEF Promise!vars, Memory
<1>5. ASSUME Memory(claims[k]) = "done", Memory(claim) = "lapsed" PROVE Promise!Lapse(k)
  <2>1. memory[k] = "done" /\ memory' = [memory EXCEPT ![k] = "lapsed"]
    BY <1>2, <1>5
  <2> QED BY <2>1, Zenon DEF Promise!Lapse, Memory
<1>6. ASSUME Memory(claims[k]) = "lapsed", Memory(claim) = "unknown" PROVE Promise!Forget(k)
  <2>1. memory[k] = "lapsed" /\ memory' = [memory EXCEPT ![k] = "unknown"]
    BY <1>2, <1>6
  <2> QED BY <2>1, Zenon DEF Promise!Forget, Memory
<1> QED BY <1>4, <1>5, <1>6

LEMMA NextPromise ==
  ASSUME IInv, [Next]_vars
  PROVE  [Promise!Next]_(Promise!vars)
<1> DEFINE performed == [k \in Keys |-> PerformedIn(ledger, k)]
           memory == [k \in Keys |-> Memory(claims[k])]
<1>1. TypeOK
  BY DEF IInv
<1>2. ASSUME UNCHANGED <<claims, ledger>> PROVE UNCHANGED Promise!vars
  BY <1>2 DEF Promise!vars
<1>3. ASSUME NEW c \in Consumers, Acquire(c)
      PROVE  UNCHANGED Promise!vars \/ \E k \in Keys : Promise!Forget(k)
  <2> DEFINE m == consumers[c].message
             k == KeyOf(c)
             claim == [state |-> "processing", request |-> m.request, job |-> m.job,
                       attempt |-> m.attempt, token |-> sequence', over |-> FALSE]
  <2>1. k \in Keys /\ k = m.request.key
    BY <1>1, <1>3, ConsumerFields, MessageFields, RequestFields DEF Acquire, KeyOf
  <2>2. Memory(claim) = "unknown"
    BY DEF Memory
  <2>3. Memory(claims[k]) \in {"unknown", "lapsed"}
    <3>1. Claimable(m)
      BY <1>3 DEF Acquire
    <3>2. claims[k] = NoClaim \/ claims[k].over
      BY <2>1, <3>1 DEF Claimable
    <3> HIDE DEF k, m
    <3> QED BY <3>2 DEF Memory, NoClaim
  <2>4. claims' = [claims EXCEPT ![k] = claim] /\ UNCHANGED ledger
    BY <1>3 DEF Acquire
  <2> HIDE DEF claim, k, m
  <2> QED BY <1>1, <2>1, <2>2, <2>3, <2>4, OneKey
<1>4. ASSUME NEW c \in Consumers, Release(c) PROVE UNCHANGED Promise!vars
  <2>1. KeyOf(c) \in Keys
    BY <1>1, <1>4, ConsumerFields, MessageFields, RequestFields DEF Release, KeyOf
  <2>2. Memory(NoClaim) = "unknown" /\ Memory(claims[KeyOf(c)]) = "unknown"
    BY <1>4 DEF Memory, NoClaim, Release, Owns
  <2>3. claims' = [claims EXCEPT ![KeyOf(c)] = NoClaim] /\ UNCHANGED ledger
    BY <1>4 DEF Release, Released
  <2> QED BY <1>1, <2>1, <2>2, <2>3, OneKey
<1>5. ASSUME NEW k \in Keys, RunsOut(k) PROVE UNCHANGED Promise!vars \/ Promise!Lapse(k)
  <2> DEFINE prior == claims[k]
             claim == [state |-> prior.state, request |-> prior.request, job |-> prior.job,
                       attempt |-> prior.attempt, token |-> prior.token, over |-> TRUE]
  <2>1. prior \in StoredClaim /\ ~prior.over
    BY <1>1, <1>5, ClaimFields DEF RunsOut
  <2>2. claims' = [claims EXCEPT ![k] = claim] /\ UNCHANGED ledger
    BY <1>5 DEF RunsOut
  <2>3. CASE prior.state = "success"
    <3>1. Memory(prior) = "done" /\ Memory(claim) = "lapsed"
      BY <2>1, <2>3 DEF Memory
    <3> HIDE DEF claim
    <3> QED BY <1>1, <2>2, <3>1, OneKey
  <2>4. CASE prior.state # "success"
    <3>1. Memory(prior) = "unknown" /\ Memory(claim) = "unknown"
      BY <2>4 DEF Memory
    <3> HIDE DEF claim
    <3> QED BY <1>1, <2>2, <3>1, OneKey
  <2> QED BY <2>3, <2>4
<1>6. ASSUME NEW c \in Consumers, Commit(c) PROVE \E k \in Keys : Promise!Perform(k)
  <2> DEFINE r == consumers[c].message.request
  <2>1. r \in Requests /\ r.key \in Keys
    BY <1>1, <1>6, ConsumerFields, MessageFields, RequestFields DEF Commit
  <2>2. PICK k \in Keys : k = r.key
    BY <2>1
  <2> DEFINE claim == [state |-> "success", request |-> claims[k].request, job |-> claims[k].job,
                       attempt |-> claims[k].attempt, token |-> claims[k].token, over |-> FALSE]
  <2>3. claims' = [claims EXCEPT ![k] = claim] /\ ledger' = Append(ledger, r)
    BY <1>6, <2>2 DEF Commit
  <2>4. Memory(claim) = "done" /\ Memory(claims[k]) = "unknown"
    BY <1>6, <2>2 DEF Memory, Commit, Owns, KeyOf
  <2> HIDE DEF claim, r
  <2>5. claims'[k] = claim /\ \A l \in Keys : l # k => claims'[l] = claims[l]
    BY <1>1, <2>3 DEF TypeOK
  <2>6. memory' = [memory EXCEPT ![k] = "done"] /\ memory[k] = "unknown"
    BY <2>4, <2>5
  <2>7. performed' = [performed EXCEPT ![k] = @ + 1]
    <3>1. ledger \in Seq(Requests) /\ r.key \in Keys
      BY <1>1, <2>1 DEF TypeOK
    <3>2. [l \in Keys |-> PerformedIn(Append(ledger, r), l)] =
          [[l \in Keys |-> PerformedIn(ledger, l)] EXCEPT ![r.key] = @ + 1]
      BY <2>1, <3>1, OneEffect
    <3> QED BY <2>2, <2>3, <3>2
  <2>8. Promise!Perform(k)
    BY <2>6, <2>7, Zenon DEF Promise!Perform, PerformedIn, Memory
  <2> QED BY <2>8
<1>11. ASSUME NEW c \in Consumers, CommitThrows(c) PROVE \E k \in Keys : Promise!PerformUnremembered(k)
  <2> DEFINE r == consumers[c].message.request
  <2>1. r \in Requests /\ r.key \in Keys
    BY <1>1, <1>11, ConsumerFields, MessageFields, RequestFields DEF CommitThrows
  <2>2. PICK k \in Keys : k = r.key
    BY <2>1
  <2>3. claims' = [claims EXCEPT ![k] = NoClaim] /\ ledger' = Append(ledger, r)
    BY <1>11, <2>2 DEF CommitThrows, Released
  <2>4. Memory(NoClaim) = "unknown" /\ Memory(claims[k]) = "unknown"
    BY <1>11, <2>2 DEF Memory, NoClaim, CommitThrows, Owns, KeyOf
  <2> HIDE DEF r
  <2>5. claims'[k] = NoClaim /\ \A l \in Keys : l # k => claims'[l] = claims[l]
    BY <1>1, <2>3 DEF TypeOK
  <2>6. memory' = memory /\ memory[k] = "unknown"
    BY <2>4, <2>5
  <2>7. performed' = [performed EXCEPT ![k] = @ + 1]
    <3>1. ledger \in Seq(Requests) /\ r.key \in Keys
      BY <1>1, <2>1 DEF TypeOK
    <3>2. [l \in Keys |-> PerformedIn(Append(ledger, r), l)] =
          [[l \in Keys |-> PerformedIn(ledger, l)] EXCEPT ![r.key] = @ + 1]
      BY <2>1, <3>1, OneEffect
    <3> QED BY <2>2, <2>3, <3>2
  <2>8. Promise!PerformUnremembered(k)
    BY <2>6, <2>7, Zenon DEF Promise!PerformUnremembered, PerformedIn, Memory
  <2> QED BY <2>8
<1>7. ASSUME NEW c \in Consumers,
             (\E m \in Messages : Deliver(c, m)) \/ Refused(c) \/ LostClaim(c) \/ Crash(c)
      PROVE  UNCHANGED <<claims, ledger>>
  BY <1>7 DEF Deliver, Refused, LostClaim, Crash
<1>8. ASSUME NEW e \in Entities,
             SourceMoves(e) \/ \E version \in 1 .. MaxWithdrawal : RevokeRights(e, version)
      PROVE  UNCHANGED <<claims, ledger>>
  BY <1>8 DEF SourceMoves, RevokeRights
<1>9. CASE Next
  BY <1>2, <1>3, <1>4, <1>5, <1>6, <1>7, <1>8, <1>9, <1>11 DEF Next, Promise!Next
<1>10. CASE UNCHANGED vars
  BY <1>2, <1>10 DEF vars
<1> QED BY <1>9, <1>10

(* Claims, tokens, takeovers, crashes, commits that throw after their       *)
(* effect, and retention implement the promise: while the effect of a key   *)
(* is remembered it is not performed again, and it is not forgotten before  *)
(* its retention lapsed.                                                    *)
THEOREM ImplementsPromise == Spec => KeepsPromise
BY InitPromise, NextPromise, Invariance, PTL DEF Spec, KeepsPromise, Promise!Spec
=============================================================================
