# Verification of Bovideo-OpenLab

TLA+ models of the parts of Bovideo-OpenLab that keep state under concurrency,
failure and retry, the TLC runs that check them on small instances, and TLAPS
proofs of what matters most for every instance. Paths are relative to the
repository with its top directory written `src/`, so application code is under
`src/src/`.

    tlc -workers 2 -config MCPublication.cfg MCPublication     # one run
    tlapm PublicationProofs.tla                                # one proof module

## 1. Inventory

Bovideo-OpenLab collects prompt evidence from a provider, keeps it as immutable
objects, builds records, localized variants and a graph from it, has people
review them, and publishes static pages that can be withdrawn at once. It runs
on Payload CMS over PostgreSQL; next to that it has local, in-process versions
of the write planes (publication store, queue, object store, ingest plane),
which carry most of the logic that can go wrong between two steps.

### Components with state

**Publication engine** (`src/src/publication`). State: the pointer
(version, previous verified version, revision), one record per version with its
lifecycle and withdrawn locales, the audit log, and the read plane's cache.
Operations: seed, activate, rollback, emergency withdraw, converge; each may
have a fault injected before or after its commit. Everything is synchronous, so
the difficulty is not interleaving but long sequences of legal calls: stale
tokens, withdrawals followed by activations, compensation after a fault, a cache
restored too late. Correct when one version is active at most, readers get 200
for routes of the pointer target only and never for a withdrawn route, and the
audit log tells every committed move.

**Workflow run leases** (`src/src/workflow`). State: rows of `workflow_runs`
and their audit rows in PostgreSQL, and the receipts workers hold in memory.
Operations: claim the oldest claimable run, succeed, fail, ignore as stale.
Hard: leases that end under a running handler, takeover, workers that share a
principal, crashes, answers lost after a commit. Correct when a run settles
once, by the holder of its latest claim, and its audit rows tell its life.

**Idempotent queue consumer** (`src/src/queues/consumer.ts`,
`idempotency-store.ts`, `withdraw.ts`). State: one claim per idempotency key,
source versions, withdrawal tombstones. Operations: consume (check, claim,
commit), record a revocation. Hard: each `await` lets other consumers in;
messages come late, twice, replayed and out of order; a commit may throw after its
effect. Correct when an effect that is remembered is not repeated, when none is
performed for an older source after a newer one, and none after a withdrawal.

**Local queue** (`src/src/queues/local-queue.ts`, `retry.ts`). State: two
bounded lanes, dead letters, replay reservations, audits. Hard: a replay holds
room in a lane while its audit append is awaited; retries are decided at
boundaries of attempts and time; a revocation may find the emergency lane full. Correct
when no lane exceeds its capacity with the room it has promised, a replay key enqueues
once and never unaudited, a tombstone is that of the newest revocation that went
through, and an emergency withdrawal is not starved by normal work.

**Durable object store** (`src/src/storage/local-object-store.ts`). State, on
disk: an initialization marker, a state file (references, deletion intents,
nonces, receipts), a control journal of prepared operations, and the files.
Operations: write, change a lifecycle, delete, retry pending deletions, deliver a
deletion event under a claim with heartbeats, issue and consume capabilities and
receipts, recover. Hard: any durable step may be the last one; callbacks run
outside the lock, throw, hang or die. Correct when recovery can always reconcile,
no bytes are left that nobody can delete, nothing deleted comes back, and every
recorded deletion is carried out and reported.

**Ingest write plane** (`src/src/source-adapters/checkpoint.ts`, `ingest.ts`,
`reconcile-pending.ts`). State: sources, audits, orphans, checkpoints, receipt
reservations. Hard: receipts resolved outside the lock, orphan bytes deleted
outside the lock, commits whose answer is lost, recovery racing a commit. Correct
when a receipt ends in one disposition only, and a source never refers to bytes
that were deleted.

**Slice orchestrator** (`src/src/pipeline/orchestrator.ts`). State: runs under
way and answered, source heads, an event log; the raw store and the checkpoint
store behind interfaces. Operations: run (fetch with attempts, store, write inside
the transaction of the checkpoint pair, move heads, announce). Hard: failures after
the commit; events sent before it; two runs with one checkpoint revision, one run with two;
maps that a restart empties. Correct when whoever asks for a run is answered with the pair it published,
at the revision where that stands, over raw bytes that are durable, and the events that
follow the commit are of pairs that were committed.

**Locale workflow and collections** (`src/src/localization`,
`src/src/collections`). State: locale variants, pages, the
publication pointer, in PostgreSQL behind hooks. Operations: canonical commands,
content commands, plain updates of what no hook protects, the staleness a new source
revision spreads, the publication
pointer's compare-and-swap. Hard: hooks compare a revision that was read before
them and Payload writes whole rows by id; source changes query the variants artifact by artifact
and make them stale one by one. Correct when the text that is approved is the one that was reviewed, a committed source
revision leaves nothing open that it found open, and the pointer's audit events form
one chain that ends at the pointer.

**Imports** (`src/src/imports`). State: a workflow run per manifest, shared with
the lease runner; sources, observations, prompt artifacts and media evidence.
Operations: find or create each row, end the run. Hard: importers side by side,
failing and repeated, over unique indexes; two writers of one run that do not use
the same protocol. Correct when a run that succeeded as an import has everything
its snapshot lists.

**Review services** (`src/src/graph`, `src/src/review/locale-review.ts`). State:
candidates and audit events, in stores behind interfaces. Operations: elevate or
extract a graph candidate, translate a variant, review. Hard: evidence is checked
before the transaction that compares the candidate's revision, and revised or revoked
at any time; two reviewers decide at once; the audit event is kept first and the
decision may then not be written. Correct when a decision is taken once, by somebody
else than the author, on evidence that was whole during the review, and is audited.

### Components without state of their own

Contracts, access policy, provider client, the wording of translations and its QA, the
texts knowledge extraction reads, page projection, SEO, modules,
exporter, cohort, observability, the Next.js shell and the operations scripts.
They compute or do I/O; what they decide appears as guards of the components
above. `PROJECT.json` lists each with the reason it is not modelled.

### How components interact

The ingest plane stores raw evidence in the object store, which issues a receipt;
the commit of a source resolves it and then disposes of it. Ingest and import jobs
run as workflow runs or as queue messages. Rights revocations put an emergency
message in the queue and bury the entity under a tombstone; the consumer and the
publication engine withdraw what was published; the object store deletes the
bytes and reports it. These are calls through interfaces, by identifiers: no two
components share memory, so each is modelled with the others as its environment.

## 2. Modules

| module | models | state and actions |
|---|---|---|
| `Publication` | `src/src/publication` | `store` = pointer, records and audit log of `LocalPublicationStore`; `cache` = the read plane. One action per call, since calls are synchronous: `Seed`, `Activate`, `Rollback`, `Withdraw`, `Converge`, and an action per injected fault with the compensation the code runs for it |
| `PublicationPromise` | what readers and operators may rely on | live version, token, withdrawn routes, visible routes |
| `WorkflowLease` | `src/src/workflow` | `runs` = rows, `audits` = their audit rows, `procs` = where each worker's call of `runNextWorkflow` is. A claim locks its row in one step and updates it in another; a report is sent (its `NOW()` fixed) in one step and takes effect in another |
| `WorkflowPromise` | a run settles once, as the result of its latest attempt | attempts and results |
| `QueueConsumer` | `consumer.ts`, `idempotency-store.ts`, tombstones of `withdraw.ts` | `claims` per key, `consumers` = where each call of `consume` is; the steps between two awaits are one action each. `ledger` records performed effects in order and is only observed |
| `EffectPromise` | no effect of a key while it is remembered | number of effects and memory of a key |
| `ObjectStore` | `local-object-store.ts` | `marker`, `stored`, `refs`, `intents`, `files`, `copies`, `journal` = the disk; `tx` = the transaction that holds the root lock; `deliveries` = callbacks under way, which hold no lock |
| `DeletionPromise` | what may become of an object | the standing of each object: kept, withheld, condemned, erased, reported, closed |
| `LocalQueue` | `local-queue.ts`, `retry.ts`, the executors and revocations of `withdraw.ts` | `lanes`, `reserved` = the two lanes and the room replays hold; `running`, `active` = the calls of `runNext` and the semaphores; `waiting` = failed jobs to be tried again; `letters` = dead letters; `asked`, `replays` = replay reservations and what each key replayed; `sink` = the audit events; `buried` = tombstones. A call is one action, except `replay`, which awaits the sink, and `runNext`, which awaits the effect |
| `LocaleWorkflow` | the locale commands of `collections/shared.ts` with `state-machine.ts`, `source-stale.ts`, `contracts/locale.ts` | `rows` = the variants; `calls` = what each update has read and will write; `source`, `fanout` = the newest source revision and the transaction that inserts the next one. `Transition`, `Revise` and `Amend` (a plain update) decide, `Write` writes; `Ask` is the query of one artifact's variants, `Stale` the update of one of them |
| `PublicationPointer` | `requirePointerCanonicalCommand`, `claimPointerRevision`, the audit hook | `pointer` = the committed row, `holder` = who has its lock, `writers` = the commands, `trail` = the audit events in the order of commit |
| `SnapshotImport` | `higgsfield-snapshot.ts` | `runs`, `sources`, `observations`, `artifacts`, `evidence` = the rows; `importers` = where each importer is. The finds about one item are a step, each write is one |
| `CandidateReview` | `elevation.ts`, `provenance.ts`, `review.ts` and the handing over of `higgsfield-extractor.ts` in `src/src/graph`; `locale-review.ts` | `candidates` = what the store holds; `proposals` = edges on their way to the sink; `material` = the sources as they are; `desk` = the review each reviewer has under way; `reviewed` = the audit events. A review is `Read`, `CheckCandidate`, `AppendReview` and `Enact`, one step per await |
| `SliceRun` | `orchestrator.ts` with the interfaces of `types.ts` | `slices` = the runs under way and the answers kept, `heads`, `announced` = the events that say something is stored; `rawBytes`, `commits` = the stores, with the run of each pair. `WriteSource` and `BuildArtifact` are the work inside the transaction, `Publish` its commit |
| `IngestPlane` | `checkpoint.ts`, `ingest.ts`, `reconcile-pending.ts`, and the receipts of `local-object-store.ts` | `unit`, `run`, `ledger` = the checkpoints with their request ledger; `sources`, `commits`, `failures`, `orphans` = what the plane keeps; `terminal`, `inflight`, `claims` = its reservations; `receipt`, `raw` = the object store; `at`, `scan`, `reaper` = where each attempt, recovery and reaper is. One action per `#exclusive` section, which awaits nothing, and per call between two of them |
| `IngestPromise` | what may be relied on of pages, receipts and evidence | revisions, what was published and by which receipt, receipts that ended, evidence retained without a source, what the store was told, bytes |

An `MC...` module gives a specification its constants for TLC. `MCComponents` does
so for six specifications that share no state: the first state of a behaviour picks
one of them (`part`; two parts are instances of `LocaleWorkflow`), every step is a step of it, and the others keep their initial
state. It is their disjoint union, not their composition, and a property of one of
them is checked in its own behaviours only (the theorem `RunsEachComponent`); a `...Proofs`
module holds the theorems. A definition named `Slip...` is a faulty variant of the
definition after it. It is not part of the specification: put in the place of
that definition it must break the property `PROJECT.json` pairs it with, which
shows that the run would notice a mistake of that kind in the code.

### What the models abstract

*Publication.* Manifests are their version, the version they name as predecessor
(`Previous`: whatever the caller's snapshot held when the manifest was made) and the locales they have routes for. Version 0 is the code's null. A caller may
present any revision the pointer has had as its token.

*WorkflowLease.* Finding a candidate and locking it is one instant. The database's
`NOW()` of a report is fixed when it is sent, so a report whose lease ends while it
waits for the row lock still counts as in time, as in PostgreSQL. `IdOf` may give
two workers one principal: `lease_owner` does not tell them apart. A worker that
dies takes its statement in flight with it. A statement may commit and lose its
answer.

*QueueConsumer.* A message is a request (everything the fingerprint covers) with a
job id and an attempt. The versions of a source only move on. A commit that
throws has performed its effect (`CommitThrows`: the effect threw at its end, the
version of a withdrawal was not found in its key, the receipt was refused) or has not
(`Release`); either way the catch drops the claim, and the effect may be repeated at
once. A withdrawal whose key the contract accepts and the consumer does not is a
request with version 0: it is never committed. A crash of a consumer is an owner
that never commits: the in-memory store stands for the durable one it emulates. `over` says that a lease or a retention ran out.

*ObjectStore.* One transaction at a time holds the root lock (a lock file between
processes, a queue within one). A transaction that saves once is one action,
enabled when the lock is free and the journal is empty, because every transaction
first reconciles what the journal holds; a write and a deletion take a step per
durable effect. Directory syncs belong to the rename, link or removal they follow.
`Interrupt` is an exception or a crash: recovery needs nothing but the disk, and the
two differ only in the temporary copy, which an exception after the journal entry
removes and a crash leaves. `copies` counts these copies, which hold the full bytes:
a write makes one before the journal knows of it, and nothing that recovers or deletes
an object looks for one, so a copy a fault left outlives even a deletion that was
reported and closed (`NoUntrackedBytes` bounds them by the faults). `withheld` stands for rights taken back and for a
deletion state set without an intent. Bytes somebody else puts in place have the
content the key stands for, so the checks a recovered write makes of its bytes pass.

*IngestPlane.* An attempt is one page of one unit, fetched and offered once, and is
named by the receipt issued to it; what it fetches is chosen at the start. Attempts
may fetch the same bytes, which are stored once. A page carries one record, which its
bytes determine, so a source is the hash of its page, or it is empty and moves the
checkpoints on without a source or an audit. Storing a page takes two
transactions of the object store (bytes, then receipt), as in the code, and the second may
fail or never come (`IssueFails`). `ledger` is the request ledger the checkpoints
carry, with the attempt that wrote each entry. The age of a
receipt or of an orphan, and whether its bytes could be read this time, are free
choices: a recovery may find any receipt old enough or not. An attempt may stop
anywhere, since nothing obliges it to go on. `ReadBack` accepts the checkpoint of
another attempt of the same page and correlation, as the code does when both fall in
one millisecond. `CommitThrows` stands for a conflict, for evidence that has an
orphan already, and for any other refusal of the plane. `MaxOrphans` bounds the orphan records ever
made. The reservations, checkpoints and orphans of the plane are in memory in the code
too, so a restart of the process is not modelled.

*LocalQueue.* A call runs alone until it awaits, so the steps are those between two
awaits. A job id is enqueued once, by a producer, a revocation or a replay: nothing in the
queue looks at ids. A revocation names an entity and a job, and nothing ties the one to
the entity of the other (`withdraw.ts:29`). `runNext` forgets a job whose effect fails
(`Finish`). Who calls `nextRetry`, `toDlq` and `enqueue` for it instead, and when, is not in
`src/`: a job that `nextRetry` puts off waits until it
is due and there is room (`FailForNow`, `Retry`), and one it gives up becomes a dead letter. The
jitter is any value under its cap. A replay whose audit event cannot be built keeps its
room for good (`Leak`). The sink may keep an audit event and then fail to
say so. `leaked` and `revocations` are history and guard nothing. A caller that joins a replay under way, or repeats one that ended, changes
nothing and has no action. `MaxLetters` is a guard of `FailForGood`: at the bound an
effect no longer fails for good.

*LocaleWorkflow.* Payload reads a row, runs the hooks over it and writes the whole row by
its id: a command is a decision on a snapshot and a later write, and two commands with
one expected revision may both be written. Claims of a command that the code does not
verify (`protected_spans_valid` and the like) are not modelled; the roles, states,
revisions and persisted facts it does verify are. `revision` and `content_revision` are protected by no
hook, so a plain update (`Amend`) puts either anywhere, and a transition carries any `content_revision`;
`text` stands for the localized fields, which only a content command changes, and `seen` is history, the text the
approval read. A source revision is inserted in a
transaction that asks, artifact by artifact, for the variants of the last one and makes them stale
before it asks for the next: what it made is seen by
nobody until it commits. The artifacts of a source do not change meanwhile. `due` is history and guards nothing.

*PublicationPointer.* `Claim` and `Insert` are the statements of the database that
compare: they take the lock of the row or of its unique index, and another one waits
for the end of that transaction (`holder = Nobody`). The roles of the two identities
may be taken back at any time (`trusted`). Denied commands leave an audit event in the
code and nothing else; that event is not modelled. The model is the path inside a
transaction: without one, the code uses the adapter's connection and the lock ends with the
statement.

*SnapshotImport.* Files were verified before the first row; a post is its tweet, a
hash of its content and its prompt; the unique indexes of the collections are guards of the
writes. The stamps `source_version` of sources and evidence are left out, since nothing
reads them. An importer may fail at any item, be killed anywhere and be started again.
A lease worker claims and settles queued runs as in `WorkflowLease`, of which only the
row is kept; how a run of the same manifest would get a lease is outside this module.

*SliceRun.* Two fixtures, as in the code, each with its possible contents. The raw
store and the checkpoint store are what `types.ts` says of them: puts by hash, and a
transaction that commits the pair at the expected revision or not at all. The expected revision comes
with each call; a call whose `runId` is known shares that execution, whatever it expects itself, and
has no action. `source.committed` and `artifact.built` go out inside the work of the transaction, and stay
sent when it is refused. `slice.started`, `raw.persisted` and `slice.failed` say of nothing that it was committed, and are not kept.
An event that cannot be sent, a commit whose answer is lost and any other error fail the run, which is then forgotten.

*CandidateReview.* The three services differ in what they check and what they write, so they share
their steps. The store is what its interface says: `transact` commits at the revision it expects or not
at all, and whoever else writes a candidate moves its revision (`Reassess`, `Edit`; nothing under `src/`
writes graph candidates otherwise). The sink keeps what it was given, whether or not the
decision is then written. A reviewer known to the resolver is one of `Reviewers`; anybody else is refused
and changes nothing. The rights of a candidate never change, so one with blocked rights is
left out. The hash over the evidence (`evidenceRevision`) says of the sources what their revisions say.
A sink that has an id does not take it again, so a candidate is proposed once. `sound` is history and guards nothing.
The service may be built without `sources`, and then looks none up; the model has it with them.

## 3. Runs

| run | instance | question |
|---|---|---|
| `publication` | 3 versions, 2 locales, at most 5 audit events, every operation with its cache | do the store, the audit log, the cache and the readers agree after any sequence of calls and faults? |
| `publication_cache_not_passed` | as above, rollback without the cache | what does `LocalPublicationController` do? (violation) |
| `publication_fault_restores` | as above | does a fault of an activation put everything back? (violation) |
| `workflow_lease` | 2 runs, 2 workers with one principal, 3 attempts, 1 crash | can two workers settle one run, can a late answer win, do runs settle? |
| `queue_consumer` | 2 consumers, 1 entity, 7 messages, 2 source versions, 1 withdrawal version, 3 claims; consumers symmetric | effects not repeated while remembered, ordering and ownership under takeover, retention, replay |
| `queue_old_jobs` | as above | can an old job take effect after a withdrawal? (violation) |
| `object_store` | 2 objects, one of which others may write, 2 faults | recovery, orphaned bytes, claims, deletion to its end |
| `object_store_lockout` | as above, 1 fault | can a root be initialized and have no state? (violation) |
| `ingest_plane` | 2 attempts, a good, a malformed and an empty page, 2 units, 2 correlations, 2 reapers, 2 orphans | do checkpoints, sources, receipts and evidence agree under runs, recoveries and deletions? |
| `ingest_late_commit` | as above | can a receipt recovery called quarantined still commit? (violation) |
| `ingest_deleted_evidence` | as above | can a source lose its evidence to a reaper? (violation) |
| `components` | `LocalQueue`: 2 lanes of 1, 3 jobs, 2 of them of revocations of one entity, 2 replay keys, 1 dead letter; `LocaleWorkflow`: 1 variant, 3 actors, 2 updates at once, or 2 variants of 2 artifacts, 1 update and 1 new source; `PublicationPointer`: 2 writers, 2 versions, 2 revisions; `SnapshotImport`: 2 importers, 2 manifests over one tweet; `SliceRun`: 2 requests, 2 fixtures, 2 checkpoint revisions; `CandidateReview`: 1 candidate, 2 reviewers, 1 source | do lanes, replays, locale commands, pointer, imported rows, published pairs and reviews stay right under every interleaving, failure and repetition? |

Why the bounds are enough. Publication: three versions give a target, a
predecessor and a newcomer; version 1 has no routes, as the repository's baseline
P2L-B0, so full withdrawal is possible for two versions only; two locales separate
partial from full withdrawal; five audit events allow two activations, a rollback
and a withdrawal in any order. Workflow: two workers and three attempts allow a
takeover of a takeover while the first receipt is still out; a second run makes
order and `SKIP LOCKED` matter. Queue: two consumers and a retried message give a
takeover with the first owner alive; a success past its retention can be claimed
again within three claims; the messages cover a retry, a double enqueue, a replay
with another lineage, a newer version, a withdrawal and one with a key the consumer
refuses after the effect; the two consumers differ in nothing, so the run identifies states
that swap them. Object store: two objects
show that one object's recovery leaves the other alone; two faults give a fault
during the recovery from a fault or a delivery that throws after a late
heartbeat.

Ingest: two attempts give a race for
one checkpoint, for one unit or for two, shared evidence, and a receipt recovered
because of the other attempt; two reapers give two claims on one orphan;
two orphans give a second record for the same bytes. A page is good, malformed or empty.
`MCSpec` leaves out attempts
that fetch different pages and differ in unit or correlation too: such attempts meet
only at the aggregate checkpoint, where attempts of the same page in two units meet as well;
and between attempts of different pages it records one orphan at most (`OrphansApart`),
since orphans of different bytes never meet.
The run visits about 1.5 million states in two minutes.

Components: one place per lane makes every enqueue, retry and replay compete for it, and
three jobs fill lane, executor and reservation at once: two revocations of one entity, whose versions
come in either order, beside another withdrawal or a normal job (`UsedJobs`); one retry,
one unit of jitter and a `Retry-After` beyond the window give both sides of each
boundary of `nextRetry`; two keys race for one dead letter. One variant under two updates
in flight, the second of which revises or approves, is the race of editor and reviewer, and its
seven revisions allow a review, a publication, a revision of it and a second approval. Two variants of two
artifacts under one update are the race with the fan-out, where a variant moves before, between and
after the queries, or has its revision put back; the first may be a money page, the second only goes as far as a review. One actor who
may do everything shows that an actor is refused for what it did before. Two writers and two
revisions give a first row and a contested second one. The two manifests list one tweet with
other contents and one prompt, and media of one provider id, so that sources,
observations, artifacts and evidence all collide; the run of one of them is claimed
by a worker and ended by an importer. Either request of the slice may expect either
of two revisions, the same one as the other included, and be called again after a failure or a restart; they store
other contents of the first fixture, and one fetches and stores at a time. Two reviewers, one of whom edits variants, meet at one candidate, which may be an edge, a node or a variant; a
graph candidate has one decision or reassessment, a variant also an edit before its decision, and a
source goes through one new revision and any number of revocations. The run
visits 656,151 states in about two and a half minutes.

`CHECK_DEADLOCK FALSE` appears where the system really stops: all runs settled
(workflow), the audit bound reached (publication), every object deleted and
reported (object store), every attempt over and no orphan left to delete (ingest), all jobs done or every bound
reached (components).

### Properties

Publication: `OneActive` (the active record is the pointer target), `AuditTrail`
(the audit log and the pointer tell the same story, revision by revision),
`OnlyTargetServed` (a 200 only for the pointer target), `StuckOnceWithdrawn` (once
the target is withdrawn in every locale the pointer never moves again, not even
after that version is seeded anew: a temporal formula, true of the code and worth knowing),
`KeepsPromise` (refines `PublicationPromise`: no withdrawn route is visible, tokens
are not reused, only an activation or seed of the same version forgets withdrawals).

Workflow: `OneValidReceipt`, `AuditChain`, `LeaseRespected` (a live lease is ended
by its holder or by time), `KeepsPromise` (refines `WorkflowPromise`),
`EventuallySettles`.

Queue: `OneOwner`, `NewestSourceWins`, `KeepsPromise` (refines
`EffectPromise`: no effect while its key is remembered, no forgetting before the
retention lapsed; an effect whose commit throws is performed and not remembered, and
the promise says nothing of how often).

Object store: `NoUntrackedBytes`, `RecoveryCanReconcile`, `ClaimRespected` (a claim
within its lease is ended by its own delivery), `KeepsPromise` (refines
`DeletionPromise`), `EventuallyDelivered`.

Ingest: `PairTogether` (the aggregate checkpoint and the one of its unit never come
apart), `OnePagePerRevision` (the request ledger has one page of each revision, empty or not),
`EndedNeverCommits` (a receipt recovery or a quarantine
ended commits nothing afterwards), `EvidenceTracked` (stored bytes that had a receipt issued
have a source, an orphan or a receipt recovery lists, or are an empty page the checkpoints name),
`DeletedAlone` (a reaper deletes for one orphan and alone), `KeepsPromise` (refines
`IngestPromise`: a receipt publishes once and never after its end, what is said of a receipt, by
whomever, is true when it is written and final, bytes are erased only while an orphan keeps them and never
come back; the receipt of an empty page may be called quarantined although the page was committed).

Components: `NeverOverbooked` (lanes and reservations within capacity, every reservation
held by a replay under way or left by an audit event that could not be built), `ReplayedOnce`,
`BuriedAsRevoked` (a tombstone is that of the newest revocation whose job the queue took), `EmergencyNotStarved`; `ApprovedWasReviewed`
(the text approved or published is the one the approval read, and not reviewed by the recorded editor of a money page),
`OutdatedTogether` (a source revision is committed with every variant stale that was open when its artifact
was asked for); `PointerLinear`; `ImportedIsComplete`; `AnsweredAsPublished` (a run is answered with the
pair that stands at its checkpoint revision, the last of its `runId`; pairs have durable bytes and their events);
`ReviewsStand` (a decision
overturns none, is not its author's own, rests on evidence that was whole during the review,
and has its audit event); `TypeOK`, which
also says that a retry is due inside its window and that the unique indexes hold.

### Fairness

`WorkflowLease`: a worker that lives goes on calling `runNextWorkflow` and each call
goes on to its end; the database clock reaches the end of every lease. The repository
has no caller of `runNextWorkflow` outside its tests; the property holds under a
scheduler that calls it, which is what the function is for. Crashes are bounded by
`MaxCrashes`. `EventuallySettles` excuses a run that uses up `MaxAttempts`, or waits
behind one that does: the code has no such bound, and a run that always fails to
answer starves the newer ones for good.

`ObjectStore`: transactions and callbacks come to an end, leases end, and
`retryPendingDeletions` is called as long as deletions are pending (again, no caller
in the repository outside its tests). Waiters of the root lock get it in the end:
strong fairness, since the lock is free again and again; within a process the lock
is a first-in first-out queue of promises. Faults are bounded by `MaxFaults`.

`LocalQueue` (`LaneFairness`): the emergency lane's executor is called while it has work and room, and its
effects come to an end. Nothing is assumed of normal work, whose effects may run for ever: that the emergency
lane has an executor of its own is the point of `withdraw.ts:39`. Weak fairness is enough,
since nobody else takes from that lane or uses that semaphore. The other five components of
`MCComponents` have none.

The publication, queue consumer and ingest models have no fairness: their properties are of
safety. Nothing under `src/` schedules a recovery of receipts or a deletion of orphans,
and a receipt may stay pending for ever (see the observations on the ingest
plane in section 4).

## 4. Findings

1. **Rollback through the controller leaves the cache behind**
   (`src/src/publication/activation.ts:72`, run `publication_cache_not_passed`).
   `activate` and `withdraw` of `LocalPublicationController` pass its cache, `rollback`
   does not. After activating 1, then 2, then rolling back, version 2 still answers
   200 and version 1, the target, answers 410.
2. **An activation that fails after its commit is not undone**
   (`src/src/publication/activation.ts:47`, run `publication_fault_restores`). The
   runbook says that pointer, records and audit events are restored together. The
   code rolls back with a second transaction, which leaves a `rolled_back` record and
   three audit events, and which cannot be done at all for the first activation.
3. **An old job can reverse a withdrawal** (`src/src/queues/consumer.ts:35`, run
   `queue_old_jobs`). The tombstone is read before the claim is awaited, and the
   commit does not look at it again.
4. **A refused first write locks the object store**
   (`src/src/storage/local-object-store.ts:691`, run `object_store_lockout`). The
   initialization marker is created before the first write is authorized; if that
   write is refused, or cut short before its bytes are linked, there is a marker and
   no state file, and every later write is refused as if the state had been lost.

5. **A quarantined receipt may still commit**
   (`src/src/source-adapters/checkpoint.ts:396`, run `ingest_late_commit`). Recovery
   ends a receipt only when it records the orphan itself. If the same bytes have an
   orphan already, left by another attempt, recovery answers quarantined and does not
   end the receipt: a commit that has claimed it and not yet reserved it goes through.
   The run is then refused when it marks the receipt committed.
6. **A source may lose its evidence** (`src/src/source-adapters/checkpoint.ts:495`, run
   `ingest_deleted_evidence`). A reaper claims an orphan under the lock and deletes its
   bytes outside it. A commit does not look at these claims, and a claim does not look
   at reservations: a commit of the same bytes between the two leaves a source
   whose evidence is gone.

### Observations

What modelling showed and no document or test of the repository speaks against. The
models have this behaviour; no run reports it as a violation.

*Queue consumer.* The catch of `commit` (`idempotency-store.ts:97`) forgets a claim whose
effect was performed, so the next delivery performs it again without any crash. A
withdraw key is matched with its case by the consumer (`consumer.ts:69`) and without it by the
contract (`contracts/queue.ts:67`): such a withdrawal is performed and forgotten each time it is delivered.

*Ingest plane.* A committed page without a record leaves no source and no audit. If the mark of
its receipt is lost, recovery calls the receipt quarantined, retains the bytes as an orphan
(`checkpoint.ts:388`), and a reaper may erase evidence the request ledger names. Bytes
whose receipt could not be issued (`local-object-store.ts:248`) are known to nothing. Recovery answers
committed for a pending receipt when another one of the same page and correlation was committed; the store refuses that
mark (`Markable`) and `reconcile-pending.ts:19` swallows the failure, so such a receipt is listed again each time.

*Local queue.* `#replayOnce` counts the room of a replay before it builds the audit event (`local-queue.ts:180-188`),
and outside the `try` that gives it back: each event its schema refuses (the case of `local-queue.int.spec.ts:269`)
makes the lane one place smaller for good. `runNext` drops a job whose effect fails; it is lost unless its caller has kept it. The lookup `#replays.get` in `#replayOnce` never finds anything, since a
reservation that succeeded is never removed and answers first. A replayed letter keeps
its idempotency key but has another fingerprint, so the consumer answers a conflict as long as a claim of the
key is left over (`idempotency-store.ts:51`). An audit event the sink kept before it
failed stays beside that of the second try.

*Locale workflow.* (1) `shared.ts:495` demands `guard.money_page === true` for a money
page, and neither the content command nor the fan-out sets it where the state changes:
an approved or published money page can neither be revised nor made stale, and a new
source revision that finds one is refused as a whole. (2) The last content editor
is recorded only where the risk or review metadata changes, so who edited last may
approve a money page. `ApprovedWasReviewed` therefore speaks of the editor the row
records. (3) Of two commands with one revision both may be written and one is lost, and
an approval decided before a fan-out may overwrite "stale" after it. (4) Variants
made for an older source revision, those missing or blocked when their artifact is asked for, and those that
become open after it was asked, are never made stale by it. `OutdatedTogether` speaks of those that
are open when it asks. (5) Neither `revision` nor `content_revision` is among the protected fields
(`shared.ts:355-363`), and no hook looks at them in an update without a command
(`shared.ts:114`, `446`; `policy.ts:243-249` lets translators, admins and the translate service make one). The `content_revision` of an approved row may differ
from its `reviewed_revision`; a money page is then not published until the number is put back, any other is. A `revision` that is
put back makes a decision on an older row pass its comparison. `ApprovedWasReviewed` therefore speaks of the text,
which a content command alone can change, and of no number.

*Publication pointer.* The code does not ask that the `previous` of a new triple be the
version it replaces.

*Import.* A repeated import that fails turns a succeeded run into a failed one. The write
that ends a run replaces the whole row by its id, so it may end a run a worker has just
claimed. An importer that read "succeeded" reports success although another has failed
the run since. Importing an older manifest again moves the stamps of its artifacts back. Two importers
side by side may make two artifacts of one prompt, and the unique index
then refuses to stamp the one while the other has the stamp.

*Slice.* `slice.failed` may be sent for work that is committed. `source.committed` and `artifact.built` are sent before the
commit (`orchestrator.ts:139`, `143`) and stay sent where the compare-and-set is refused, so they may speak of a source that was never
committed. The same `runId` with another expected revision is answered by the execution it has while that is
remembered; after a failure behind the commit, or a restart, it may publish again, as a later pair. Heads are lost at a restart, and source revisions
start again at 1. Heads move after the commit, so a second run in between reads the old ones.

*Reviews.* An edge may be approved on evidence that was revoked or revised after the check, since the
transaction compares the revision of the edge alone. The sink may hold an event of a decision that was
never written; two reviewers who meet may leave two events with one audit id (`review.ts:73` makes it of the candidate
and the revision). The event of a variant has an id with reviewer and decision in it.


## 5. Proofs

All theorems are about `Spec` (`LaneSpec`, `LocaleSpec`, `PointerSpec`, `ReviewSpec`, `SliceSpec`,
`ImportSpec`), for every value of the constants that satisfies the
assumption stated in the module (`PublicationAssumption`, `WorkflowAssumption`,
`QueueAssumption`, `ObjectStoreAssumption`, `IngestAssumption`, `LocalQueueAssumption`,
`LocaleAssumption`, `PointerAssumption`, `ReviewAssumption`, `SliceAssumption`,
`SnapshotAssumption`): any number of versions, workers,
messages, objects, jobs, variants, writers, reviewers, manifests, requests or faults. Bounds such as `MaxAudits` or `MaxFaults` are arbitrary
naturals, so they do not weaken what is proved of safety. Every safety and action property of a
passing run is proved.

| module | theorems |
|---|---|
| `PublicationProofs` | `TypeCorrect`, `OneActiveAlways`, `AuditTrailAlways`, `StuckAlways`; with `Cacheless = {}`: `OnlyTargetServedAlways`, `ImplementsPromise` |
| `WorkflowProofs` | `TypeCorrect`, `OneValidReceiptAlways`, `AuditChainAlways`, `LeaseRespectedAlways`, `ImplementsPromise` |
| `QueueProofs` | `TypeCorrect`, `OneOwnerAlways`, `NewestSourceWinsAlways`, `ImplementsPromise` |
| `ObjectStoreProofs` | `TypeCorrect`, `NoUntrackedBytesAlways`, `RecoveryCanReconcileAlways`, `ClaimRespectedAlways`, `ImplementsPromise` |
| `IngestProofs` | `TypeCorrect`, `PairStaysTogether`, `CommitsOncePerRevision`, `EndIsFinal`, `CommittedIsTrue`, `NothingForgotten`, `DeletesAlone`, `ImplementsPromise` |
| `LocalQueueProofs` | `LaneTypeCorrect`, `NeverOverbookedAlways`, `ReplayedOnceAlways`, `SemaphoresExact`, `BuriedAsRevokedAlways` |
| `CommandProofs` | locale workflow: `LocaleTypeCorrect`, `ApprovedWasReviewedAlways`, `OutdatedTogetherAlways`; pointer: `PointerTypeCorrect`, `PointerLinearAlways`; reviews: `ReviewTypeCorrect`, `ReviewsStandAlways` |
| `PipelineProofs` | slice: `SliceTypeCorrect`, `AnsweredAsPublishedAlways`; import: `ImportTypeCorrect`, `ImportedIsCompleteAlways`, `ImportsOnlyAdd`; the run of six components: `RunsEachComponent`, `ComponentsTypeCorrect` |

For each specification one inductive invariant (`IInv`, `LaneIInv`, ...) is proved and the rest derived
from it; two properties, `AuditTrail` and `BuriedAsRevoked`, have a second one proved on top of the first.

*Publication.* `OneActive` is not inductive: a rollback makes the predecessor active,
so it must be known that no record but the target's is active before. `SoundStore` says so; `CacheSound` adds that an entry answering 200 is of
the target, which only an operation without its cache can break. `AuditTrail` is a
statement about a store (`Told`), so it is carried through each command from the store it
started from to the store it leaves: an appended event adds its place to the places of its
kind and to no other, and is the last one. A fault before the commit leaves the store it found, and
one after it is compensated by a command of its own.

*Workflow.* A receipt is valid only while its revision is the row's, so `IInv` says
that a receipt is never ahead of its row, that two receipts of one run have different
revisions (`Apart`), and that a row locked by a claim stays claimable. The audit
invariant is proved once as a lemma on appending the row's next event.

*Queue.* Tokens are numbered by the store, so tokens of two consumers with one key
differ (`TokensDistinct`); the source never goes back, so every effect in the ledger
expects at most the current version (`LedgerBehind`), which makes `NewestSourceWins`
inductive. The refinement counts effects, by a lemma on appending to the ledger.

*Object store.* What a transaction cut short leaves behind must already be in order
at each of its steps: `TxSound` says what the disk holds at each place of a
transaction, `Registered` that active objects have their bytes and removed ones their
intent, `BytesGone` that what is recorded as gone is gone and only that is reported,
`DeliverySound` that deliveries are of deletions that far. `NoUntrackedBytes` and
`RecoveryCanReconcile` are themselves parts of the invariant. The refinement shows
that each step moves one object at most, by a move of `DeletionPromise`.

*Ingest.* Lemmas say which actions may change which variables (`WhoPublishes`,
`WhoRetains`, `WhoAnswers`, `WhoDeletes`), so that each part of the invariant looks at
the few actions that can disturb it. `Behind` (no entry of the ledger is ahead of its checkpoint)
makes `OnePagePerRevision` inductive; `Sourced` ties a commit to the page and run of its
attempt, which is why a receipt that recovery finds unclassified cannot have
committed. What is said of a receipt before it is marked (`SaysCommitted`,
`SaysQuarantined`) must stay true until the mark arrives: a commit is never undone, and
evidence that is a source, retained or gone stays one of the three (`Kept`), because an
orphan leaves only after its bytes (`Claimed`). For the refinement, `CommitsOnce` says that an attempt with a
commit is past its commit for good, so a receipt publishes once, and that every source has a commit; an ended receipt
always has its evidence retained, because recovery records an orphan unless one is there already or its
bytes are being deleted, and that orphan is still there. `NextPromise` then goes through the actions: each is a
move of `IngestPromise` or a stutter.

*Local queue.* The invariant counts: `reserved` of a lane is the cardinality of the replays under way
for it, and `active` that of the calls of `runNext` at work (`SemaphoresExact`), by lemmas on
adding one element to a finite set and removing one. Capacity then follows, because room is checked with the
reservations in it. `ReplayedOnce` needs that an audited replay under way has its event in the
sink and its key no push yet. `BuriedAsRevoked` is proved on top (`TombIInv`): a replay takes a job id and gives it
back when its audit is refused, so that the job of a revocation is never free again needs that a replay under way
has its id to itself (`OwnJobs`).

*Locale workflow.* A row is written long after the decision, so the invariant speaks of
rows not yet written: every decided update carries a row that is vouched for already
(`CallsVouched`). That a lost update cannot break `ApprovedWasReviewed` is just this. For
`OutdatedTogether` it says that the queries found every variant of `due`, and
that what a fan-out has made is stale (`FanOutCovers`).

*Publication pointer.* A claimed command holds the lock, so at most one is claimed, and what it
expects is the pointer as it is (`Locked`). A decided command whose revision matches
expects the triple of that revision, which is unique because the revisions of the trail are numbered
one by one (`Numbered`) and whatever a request expects was once the pointer (`Remembered`): the compare-and-swap on the
revision alone is as good as one on the whole triple.

*Reviews.* A revision of a candidate names one state of it (`Stands`): while the revision a reviewer
read is still the store's, the row is the one that was read, so what was checked of it, its author
included, holds of the row that is written; and an audit event kept under that revision is about this decision.

*Slice.* `Faithful` says of each execution how far it is by what it holds (`Progress`: sources only of stored
bytes, with their events sent) and that past its commit its pair stands one above the revision it expected and is the last of its
run (`Upheld`). A later commit is of another execution, so of another `runId`; the compare-and-set puts it above all pairs
there are. What is answered is what stood there.

*Import.* Rows are only added, an artifact at most restamped (`RowsKept`), so what an importer
found or wrote stays (`WhatIsThereStays`). `Relies` then says what an importer may forget: an item that is off its lists is in
the rows, and the one in hand has what the next write wants to refer to. A run gets its result only from an importer with empty
lists; the lease worker gives another one.

`ImportsOnlyAdd` states the first half of this as an action property.

*The run of six components.* `RunsEachComponent` proves what section 2 says of `MCComponents`: every step is a step of
one component and leaves the variables of the others alone (`OneMoves`, `EachSteps`), so a behaviour of the run is a behaviour of each of
the six specifications, with the fairness of the lanes. It holds for all values of the constants, since the
restrictions of the run (the ids callers use, who edits, who decides what) only leave steps out. `ComponentsTypeCorrect`,
the `TypeOK` of the run, follows from the six shapes proved of the components.

Only model-checked is liveness (`EventuallySettles`, `EventuallyDelivered`, `EmergencyNotStarved`): it rests
on fairness and `ENABLED`, which the prover does not treat.

## 6. What is done and what is not

Modelled in this order: publication engine, workflow leases, queue consumer, object
store and ingest plane, each with its promise, runs, mutants and proofs; the local queue, the locale workflow, the publication pointer, the import of snapshots, the slice
orchestrator and the review services, each with its proofs.

### Not modelled

- The canonical commands of pages, publications, deletions and edges. They go through
  the same hook as those of locale variants, with transition tables of their own and
  the same window between decision and write.
- Reads, read capabilities with their nonces, and ingress receipts in `ObjectStore`; the
  receipts are in `IngestPlane`.
- The contract of publications (`contracts/publication.ts`) against the engine, which does
  not call it.
- Components without state of their own (section 1), and everything whose correctness is
  a matter of wording, layout or I/O: translation, projection, rendering, metrics, scripts.
- Larger instances of `components`: the liveness property and six components share one run.
  The import grows fastest; a second claimed manifest or a third importer is out of reach of
  a few minutes, and so are two locale variants under two updates at once.

Hazards in `PROJECT.json` without a property carry a note that says why.
