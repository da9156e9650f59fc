---------------------------- MODULE IngestPlane ----------------------------
(***************************************************************************)
(* How a fetched page becomes a source: the acquisition runs               *)
(* (src/source-adapters/ingest.ts), the write plane with its checkpoints,  *)
(* sources, audits and orphans (checkpoint.ts), the receipts of the raw    *)
(* evidence in the object store, the recovery of receipts left behind      *)
(* (reconcile-pending.ts) and the deletion of orphans.                     *)
(*                                                                         *)
(* What the plane does in one #exclusive section is one action: nothing    *)
(* in it awaits.  Everything that awaits between two sections is a step of *)
(* its own, so runs, recoveries and reapers interleave there.              *)
(*                                                                         *)
(* A receipt stands for the attempt it was issued to: one page of one unit *)
(* of the run, fetched and offered to the plane once.  Pages are stored by *)
(* the hash of their bytes, so attempts may share evidence.  A page        *)
(* carries one record, which its bytes determine, or none: an empty page   *)
(* moves the checkpoints on and leaves neither a source nor an audit.      *)
(***************************************************************************)
EXTENDS Integers

CONSTANTS
  Receipts,      \* the attempts, by the receipt of the page
  Hashes,        \* contents of pages
  Malformed,     \* contents the adapter cannot read as a page
  Empty,         \* contents of pages without a record
  Units,         \* the units (query and order) of the acquisition
  Correlations,  \* correlation ids of acquisition runs
  Reapers,       \* concurrent calls of reconcileOrphans
  NoReceipt,     \* a checkpoint no page was written with
  MaxOrphans     \* bound on the orphans ever recorded

ASSUME IngestAssumption ==
  /\ Malformed \subseteq Hashes
  /\ Empty \subseteq Hashes \ Malformed
  /\ NoReceipt \notin Receipts
  /\ MaxOrphans \in Nat

VARIABLES
  fetch,     \* what each attempt fetches: content, unit and correlation, once and for all
  unit,      \* the checkpoint of each unit: revision and the attempt that wrote it
  run,       \* the aggregate checkpoint of the run
  ledger,    \* its request ledger: the pages committed with it
  sources,   \* contents a source was created from
  commits,   \* the source.ingest.commit audits
  failures,  \* the source.ingest.quarantine audits
  orphans,   \* evidence retained without a source
  recorded,  \* how many orphans were ever recorded
  terminal,  \* ingressTerminal: receipts no commit may use any more
  inflight,  \* ingressInflight: receipts a commit has reserved
  claims,    \* orphanDeleteClaims: contents a reaper is deleting
  receipt,   \* the disposition of each receipt in the object store
  raw,       \* the evidence in the object store
  at,        \* where each attempt is
  expected,  \* the revisions each attempt read
  why,       \* why its commit failed
  scan,      \* where the recovery of each receipt is
  reaper     \* where each reaper is

checkpoints == <<unit, run>>
evidence == <<ledger, sources, commits, failures>>
retention == <<orphans, recorded>>
ingress == <<terminal, inflight>>
store == <<receipt, raw>>
attempt == <<at, expected, why>>
vars == <<fetch, checkpoints, evidence, retention, ingress, claims, store, attempt, scan, reaper>>

-----------------------------------------------------------------------------
Fetch == [hash: Hashes, unit: Units, corr: Correlations]
Checkpoint == [rev: Nat, by: Receipts \cup {NoReceipt}]
Entry == [hash: Hashes, unit: Units, rev: Nat, by: Receipts]
Commit == [hash: Hashes, corr: Correlations, rev: Nat, by: Receipts]
Failure == [hash: Hashes, corr: Correlations]
Reason == {"checkpoint_conflict", "write_plane_failure", "provider_schema"}
Orphan == [id: Nat, hash: Hashes, reason: Reason]

Disposition == {"none", "pending", "claimed", "committed", "quarantined"}
Undisposed == {"pending", "claimed"}

\* unpublished: the commit failed with the receipt reserved.
\* failed: it failed and released the receipt.
Place == {"idle", "started", "written", "fetched", "resolved", "reserved", "published",
          "unpublished", "failed", "acknowledging", "over"}

\* eligible: old enough and verified.  The answers of reconcilePendingRaw follow.
Scan == {"idle", "listed", "eligible", "committed", "quarantined"}

NoOrphan == [id |-> 0, hash |-> "none", reason |-> "none"]
Reaper == [at: {"choosing", "verified", "claimed", "deleted", "kept"},
           todo: SUBSET Orphan, orphan: Orphan \cup {NoOrphan}]
Resting == [at |-> "choosing", todo |-> {}, orphan |-> NoOrphan]

Init ==
  /\ fetch \in [Receipts -> Fetch]
  /\ unit = [u \in Units |-> [rev |-> 0, by |-> NoReceipt]]
  /\ run = [rev |-> 0, by |-> NoReceipt]
  /\ ledger = {} /\ sources = {} /\ commits = {} /\ failures = {}
  /\ orphans = {} /\ recorded = 0
  /\ terminal = {} /\ inflight = {} /\ claims = {}
  /\ receipt = [r \in Receipts |-> "none"]
  /\ raw = [h \in Hashes |-> "absent"]
  /\ at = [r \in Receipts |-> "idle"]
  /\ expected = [r \in Receipts |-> [unit |-> 0, run |-> 0]]
  /\ why = [r \in Receipts |-> "write_plane_failure"]
  /\ scan = [r \in Receipts |-> "idle"]
  /\ reaper = [p \in Reapers |-> Resting]

-----------------------------------------------------------------------------
HashOf(r) == fetch[r].hash
UnitOf(r) == fetch[r].unit
CorrOf(r) == fetch[r].corr

Bad(r) == HashOf(r) \in Malformed
Void(r) == HashOf(r) \in Empty

\* Slip: checkpoints that moved on are taken for the ones that were read.
SlipCurrent(r) == unit[UnitOf(r)].rev >= expected[r].unit /\ run.rev >= expected[r].run

\* Both revisions are the ones the attempt read.
Current(r) == unit[UnitOf(r)].rev = expected[r].unit /\ run.rev = expected[r].run

\* Slip: the aggregate checkpoint is published without its unit.
SlipPublish(by) ==
  /\ UNCHANGED unit
  /\ run' = [rev |-> run.rev + 1, by |-> by]

\* Both checkpoints move on, as written by an attempt.
Publish(by) ==
  /\ unit' = [unit EXCEPT ![UnitOf(by)] = [rev |-> unit[UnitOf(by)].rev + 1, by |-> by]]
  /\ run' = [rev |-> run.rev + 1, by |-> by]

Moves(r, from, to) == at[r] = from /\ at' = [at EXCEPT ![r] = to]

AfterFailure(r) == IF Bad(r) THEN "over" ELSE "failed"

\* Slip: evidence that is being deleted gets another orphan.
SlipRecords(h, reason) == ~ \E o \in orphans : o.hash = h /\ o.reason = reason

\* Whether an orphan is recorded, not being dropped or known already.
Records(h, reason) ==
  h \notin claims /\ ~ \E o \in orphans : o.hash = h /\ o.reason = reason

NewOrphan(h, reason) == [id |-> recorded + 1, hash |-> h, reason |-> reason]

\* Evidence becomes an orphan; MaxOrphans bounds how often.
Retain(h, reason) ==
  /\ recorded < MaxOrphans
  /\ orphans' = orphans \cup {NewOrphan(h, reason)}
  /\ recorded' = recorded + 1

RecordOrphanUnlocked(h, reason) ==
  IF Records(h, reason) THEN Retain(h, reason) ELSE UNCHANGED retention

-----------------------------------------------------------------------------
\* A run reads its checkpoints and turns to a unit.
StartUnit(r) ==
  /\ Moves(r, "idle", "started")
  /\ expected' = [expected EXCEPT ![r] = [unit |-> unit[UnitOf(r)].rev, run |-> run.rev]]
  /\ UNCHANGED <<fetch, checkpoints, evidence, retention, ingress, claims, store, why, scan, reaper>>

\* The cursor was seen before: both checkpoints end as partial, or conflict.
RepeatedCursor(r) ==
  /\ Moves(r, "started", "over")
  /\ IF Current(r) THEN Publish(r) ELSE UNCHANGED checkpoints
  /\ UNCHANGED <<fetch, evidence, retention, ingress, claims, store, expected, why, scan, reaper>>

\* The provider failed for good: both checkpoints and the failed fetch, or a conflict.
CommitTerminalFailure(r) ==
  /\ Moves(r, "started", "over")
  /\ IF Current(r) THEN Publish(r) ELSE UNCHANGED checkpoints
  /\ UNCHANGED <<fetch, evidence, retention, ingress, claims, store, expected, why, scan, reaper>>

\* The page is fetched and its bytes are written; removed bytes are refused.
WriteRaw(r) ==
  /\ at[r] = "started"
  /\ IF raw[HashOf(r)] # "removed"
       THEN /\ at' = [at EXCEPT ![r] = "written"]
            /\ raw' = [raw EXCEPT ![HashOf(r)] = "present"]
       ELSE at' = [at EXCEPT ![r] = "over"] /\ UNCHANGED raw
  /\ UNCHANGED <<fetch, checkpoints, evidence, retention, ingress, claims, receipt, expected, why, scan, reaper>>

\* A second transaction of the store issues the receipt, if the bytes are still there.
IssueReceipt(r) ==
  /\ Moves(r, "written", "fetched")
  /\ raw[HashOf(r)] = "present"
  /\ receipt' = [receipt EXCEPT ![r] = "pending"]
  /\ UNCHANGED <<fetch, checkpoints, evidence, retention, ingress, claims, raw, expected, why, scan, reaper>>

\* It fails, or the process dies before it: the attempt is over, and leaves nothing but
\* its bytes.
IssueFails(r) ==
  /\ Moves(r, "written", "over")
  /\ UNCHANGED <<fetch, checkpoints, evidence, retention, ingress, claims, store, expected, why, scan, reaper>>

-----------------------------------------------------------------------------
\* The store claims a pending receipt whose bytes it can read.
ResolveReceipt(r) ==
  /\ Moves(r, "fetched", "resolved")
  /\ receipt[r] = "pending" /\ raw[HashOf(r)] = "present"
  /\ receipt' = [receipt EXCEPT ![r] = "claimed"]
  /\ UNCHANGED <<fetch, checkpoints, evidence, retention, ingress, claims, raw, expected, why, scan, reaper>>

\* It answers null otherwise, and when the bytes cannot be read this time.
ResolveNull(r) ==
  /\ Moves(r, "fetched", AfterFailure(r))
  /\ UNCHANGED <<fetch, checkpoints, evidence, retention, ingress, claims, store, expected, why, scan, reaper>>

\* The receipt is neither ended nor reserved.
Open(r) == r \notin terminal /\ r \notin inflight

ReserveIngress(r) ==
  /\ at[r] = "resolved"
  /\ IF Open(r)
       THEN /\ at' = [at EXCEPT ![r] = "reserved"]
            /\ inflight' = inflight \cup {r}
       ELSE at' = [at EXCEPT ![r] = AfterFailure(r)] /\ UNCHANGED inflight
  /\ UNCHANGED <<fetch, checkpoints, evidence, retention, terminal, claims, store, expected, why, scan, reaper>>

Finalizable(r) == r \notin terminal /\ r \in inflight

\* The page in the request ledger, and the audit of its record.
Listing(r) == [hash |-> HashOf(r), unit |-> UnitOf(r), rev |-> expected[r].unit + 1, by |-> r]
Audit(r) == [hash |-> HashOf(r), corr |-> CorrOf(r), rev |-> expected[r].unit + 1, by |-> r]

\* The record of the page becomes a source, with an audit.
CommitRecord(r) ==
  /\ sources' = sources \cup {HashOf(r)}
  /\ commits' = commits \cup {Audit(r)}

\* A page that could be read: what it records, and both checkpoints.
CommitPage(r) ==
  /\ Moves(r, "reserved", "published") /\ ~Bad(r)
  /\ Current(r) /\ Finalizable(r)
  /\ IF Void(r) THEN UNCHANGED <<sources, commits>> ELSE CommitRecord(r)
  /\ ledger' = ledger \cup {Listing(r)}
  /\ Publish(r)
  /\ UNCHANGED <<fetch, failures, retention, ingress, claims, store, expected, why, scan, reaper>>

FirstOrphan(h) == \A o \in orphans : o.hash # h

\* One that could not: its orphan, its audit, the end of the receipt, both checkpoints.
CommitQuarantinedFailure(r) ==
  /\ Moves(r, "reserved", "published") /\ Bad(r)
  /\ Current(r) /\ Finalizable(r) /\ FirstOrphan(HashOf(r))
  /\ Retain(HashOf(r), "provider_schema")
  /\ failures' = failures \cup {[hash |-> HashOf(r), corr |-> CorrOf(r)]}
  /\ terminal' = terminal \cup {r}
  /\ Publish(r)
  /\ UNCHANGED <<fetch, ledger, sources, commits, inflight, claims, store, expected, why, scan, reaper>>

\* A commit throws: on a conflict, on existing evidence, or for a reason of the plane.
CommitThrows(r, reason) ==
  /\ Moves(r, "reserved", "unpublished")
  /\ reason = "checkpoint_conflict" => ~Current(r)
  /\ why' = [why EXCEPT ![r] = reason]
  /\ UNCHANGED <<fetch, checkpoints, evidence, retention, ingress, claims, store, expected, scan, reaper>>

\* The reservation ends, whatever became of the commit.
ReleaseIngress(r) ==
  /\ \/ Moves(r, "published", "acknowledging")
     \/ Moves(r, "unpublished", AfterFailure(r))
  /\ inflight' = inflight \ {r}
  /\ UNCHANGED <<fetch, checkpoints, evidence, retention, terminal, claims, store, expected, why, scan, reaper>>

-----------------------------------------------------------------------------
\* The checkpoints are those this attempt would have written: both were last written with
\* the same page.
ListedAs(r) ==
  \E e \in ledger :
    /\ e.hash = HashOf(r) /\ e.unit = UnitOf(r)
    /\ e.rev = expected[r].unit + 1
    /\ unit[UnitOf(r)] = [rev |-> e.rev, by |-> e.by]
    /\ run = [rev |-> expected[r].run + 1, by |-> e.by]

\* Its record became a source, with an audit of this run and this revision.
RecordedAs(r) ==
  /\ HashOf(r) \in sources
  /\ \E c \in commits :
       c.hash = HashOf(r) /\ c.corr = CorrOf(r) /\ c.rev = expected[r].unit + 1

\* An empty page has no side effects to look for.
CommittedAs(r) == ListedAs(r) /\ (Void(r) \/ RecordedAs(r))

\* After a failure the run reads back that the page is committed.  The clock
\* tells two attempts apart, unless their requests fall into one millisecond.
ReadBack(r) ==
  /\ Moves(r, "failed", "acknowledging")
  /\ CommittedAs(r)
  /\ UNCHANGED <<fetch, checkpoints, evidence, retention, ingress, claims, store, expected, why, scan, reaper>>

\* Or it leaves an orphan for the page and throws.
RecordOrphan(r) ==
  /\ Moves(r, "failed", "over")
  /\ RecordOrphanUnlocked(HashOf(r), why[r])
  /\ UNCHANGED <<fetch, checkpoints, evidence, ingress, claims, store, expected, why, scan, reaper>>

\* Which dispositions the store accepts for a receipt.
Markable(r, d) ==
  \/ receipt[r] = d
  \/ d = "committed" /\ receipt[r] = "claimed"
  \/ d = "quarantined" /\ receipt[r] \in Undisposed

MarkDisposition(r, d) ==
  IF Markable(r, d) THEN receipt' = [receipt EXCEPT ![r] = d] ELSE UNCHANGED receipt

Outcome(r) == IF Bad(r) THEN "quarantined" ELSE "committed"

\* The run tells the store what became of the receipt; the store may refuse.
Acknowledge(r) ==
  /\ Moves(r, "acknowledging", "over")
  /\ MarkDisposition(r, Outcome(r))
  /\ UNCHANGED <<fetch, checkpoints, evidence, retention, ingress, claims, raw, expected, why, scan, reaper>>

-----------------------------------------------------------------------------
Scans(r, from, to) == scan[r] \in from /\ scan' = [scan EXCEPT ![r] = to]

\* Recovery lists the receipts without a final disposition.
ListPending(r) ==
  /\ Scans(r, {"idle"}, "listed")
  /\ receipt[r] \in Undisposed
  /\ UNCHANGED <<fetch, checkpoints, evidence, retention, ingress, claims, store, attempt, reaper>>

\* One that is old enough, and whose bytes verify, may be orphaned.
VerifyPending(r) ==
  /\ Scans(r, {"listed"}, "eligible")
  /\ raw[HashOf(r)] = "present"
  /\ UNCHANGED <<fetch, checkpoints, evidence, retention, ingress, claims, store, attempt, reaper>>

\* Slip: a source another run made of the evidence is enough.
SlipIsCommitted(r) == HashOf(r) \in sources

\* The evidence became a source, in the run of this receipt.
IsCommitted(r) ==
  /\ HashOf(r) \in sources
  /\ \E c \in commits : c.hash = HashOf(r) /\ c.corr = CorrOf(r)

\* It is retained, or its quarantine was audited in the run of this receipt.
IsQuarantined(r) ==
  \/ \E o \in orphans : o.hash = HashOf(r)
  \/ [hash |-> HashOf(r), corr |-> CorrOf(r)] \in failures

\* Slip: only retained evidence is looked for.
SlipUnclassified(r) == r \notin inflight /\ ~IsQuarantined(r)

\* Nothing says what became of the receipt, and no commit holds it.
Unclassified(r) == ~IsCommitted(r) /\ r \notin inflight /\ ~IsQuarantined(r)

\* Slip: the answer is kept as the plane words it.
SlipClassification(r) ==
  IF IsCommitted(r) THEN "committed" ELSE IF IsQuarantined(r) THEN "quarantined" ELSE "retained"

\* What the plane already knows decides, whatever the age of the receipt.
Classification(r) ==
  IF IsCommitted(r) THEN "committed"
  ELSE IF r \in inflight THEN "idle"
  ELSE IF IsQuarantined(r) THEN "quarantined"
  ELSE "idle"

\* reconcilePendingRaw of a receipt that is known, reserved, or too young.
Classify(r) ==
  /\ ~(scan[r] = "eligible" /\ Unclassified(r))
  /\ Scans(r, {"listed", "eligible"}, Classification(r))
  /\ UNCHANGED <<fetch, checkpoints, evidence, retention, ingress, claims, store, attempt, reaper>>

\* reconcilePendingRaw of any other: it gets an orphan and no commit may use it again.
EndIngress(r) ==
  /\ Unclassified(r)
  /\ Scans(r, {"eligible"}, "quarantined")
  /\ RecordOrphanUnlocked(HashOf(r), "write_plane_failure")
  /\ terminal' = terminal \cup {r}
  /\ UNCHANGED <<fetch, checkpoints, evidence, inflight, claims, store, attempt, reaper>>

\* The answer goes to the store, unless it cannot be reached.
MarkRecovered(r) ==
  /\ scan[r] \in {"committed", "quarantined"}
  /\ MarkDisposition(r, scan[r])
  /\ scan' = [scan EXCEPT ![r] = "idle"]
  /\ UNCHANGED <<fetch, checkpoints, evidence, retention, ingress, claims, raw, attempt, reaper>>

MarkLost(r) ==
  /\ Scans(r, {"committed", "quarantined"}, "idle")
  /\ UNCHANGED <<fetch, checkpoints, evidence, retention, ingress, claims, store, attempt, reaper>>

-----------------------------------------------------------------------------
\* No source has the evidence, and no other orphan.
Eligible(o) ==
  /\ o \in orphans
  /\ o.hash \notin sources
  /\ \A other \in orphans : other.hash = o.hash => other = o

Reaps(p, to, o) == reaper' = [reaper EXCEPT ![p] = [at |-> to, todo |-> reaper[p].todo, orphan |-> o]]

\* The orphans that are eligible and old enough, as they are now.
ListOrphans(p, todo) ==
  /\ reaper[p] = Resting
  /\ todo # {} /\ \A o \in todo : Eligible(o)
  /\ reaper' = [reaper EXCEPT ![p] = [at |-> "choosing", todo |-> todo, orphan |-> NoOrphan]]
  /\ UNCHANGED <<fetch, checkpoints, evidence, retention, ingress, claims, store, attempt, scan>>

\* The next one, in the order they were recorded, is verified or skipped.
VerifyOrphan(p, o) ==
  /\ reaper[p].at = "choosing"
  /\ o \in reaper[p].todo /\ \A other \in reaper[p].todo : o.id <= other.id
  /\ reaper' = [reaper EXCEPT ![p] =
       IF raw[o.hash] = "present"
         THEN [at |-> "verified", todo |-> reaper[p].todo \ {o}, orphan |-> o]
         ELSE [at |-> "choosing", todo |-> reaper[p].todo \ {o}, orphan |-> NoOrphan]]
  /\ UNCHANGED <<fetch, checkpoints, evidence, retention, ingress, claims, store, attempt, scan>>

Claimable(o) == Eligible(o) /\ o.hash \notin claims

\* The decision is taken again, under the lock.
ClaimOrphan(p) ==
  /\ reaper[p].at = "verified"
  /\ IF Claimable(reaper[p].orphan)
       THEN /\ Reaps(p, "claimed", reaper[p].orphan)
            /\ claims' = claims \cup {reaper[p].orphan.hash}
       ELSE Reaps(p, "choosing", NoOrphan) /\ UNCHANGED claims
  /\ UNCHANGED <<fetch, checkpoints, evidence, retention, ingress, store, attempt, scan>>

\* The bytes are removed, outside the lock.
DeleteRaw(p) ==
  /\ reaper[p].at = "claimed"
  /\ raw' = [raw EXCEPT ![reaper[p].orphan.hash] = "removed"]
  /\ Reaps(p, "deleted", reaper[p].orphan)
  /\ UNCHANGED <<fetch, checkpoints, evidence, retention, ingress, claims, receipt, attempt, scan>>

\* Or the deletion throws, before or after it removed them.
DeleteFails(p) ==
  /\ reaper[p].at = "claimed"
  /\ raw' \in {raw, [raw EXCEPT ![reaper[p].orphan.hash] = "removed"]}
  /\ Reaps(p, "kept", reaper[p].orphan)
  /\ UNCHANGED <<fetch, checkpoints, evidence, retention, ingress, claims, receipt, attempt, scan>>

\* Slip: the orphan goes although its bytes could not be deleted.
SlipRemovable(p) == Eligible(reaper[p].orphan)

Removable(p) == reaper[p].at = "deleted" /\ Eligible(reaper[p].orphan)

\* The claim ends; the orphan goes with its bytes, if nothing refers to them by now.
FinishOrphan(p) ==
  /\ reaper[p].at \in {"deleted", "kept"}
  /\ claims' = claims \ {reaper[p].orphan.hash}
  /\ orphans' = IF Removable(p) THEN orphans \ {reaper[p].orphan} ELSE orphans
  /\ Reaps(p, "choosing", NoOrphan)
  /\ UNCHANGED <<fetch, checkpoints, evidence, recorded, ingress, store, attempt, scan>>

-----------------------------------------------------------------------------
Fetching(r) ==
  \/ StartUnit(r) \/ RepeatedCursor(r) \/ CommitTerminalFailure(r)
  \/ WriteRaw(r) \/ IssueReceipt(r) \/ IssueFails(r)

Committing(r) ==
  \/ ResolveReceipt(r) \/ ResolveNull(r) \/ ReserveIngress(r)
  \/ CommitPage(r) \/ CommitQuarantinedFailure(r)
  \/ \E reason \in {"checkpoint_conflict", "write_plane_failure"} : CommitThrows(r, reason)
  \/ ReleaseIngress(r) \/ ReadBack(r) \/ RecordOrphan(r) \/ Acknowledge(r)

Recovering(r) ==
  \/ ListPending(r) \/ VerifyPending(r)
  \/ Classify(r) \/ EndIngress(r) \/ MarkRecovered(r) \/ MarkLost(r)

Reaping(p) ==
  \/ \E todo \in SUBSET orphans : ListOrphans(p, todo)
  \/ \E o \in reaper[p].todo : VerifyOrphan(p, o)
  \/ ClaimOrphan(p) \/ DeleteRaw(p) \/ DeleteFails(p) \/ FinishOrphan(p)

Next ==
  \/ \E r \in Receipts : Fetching(r) \/ Committing(r) \/ Recovering(r)
  \/ \E p \in Reapers : Reaping(p)

Spec == Init /\ [][Next]_vars

-----------------------------------------------------------------------------
TypeOK ==
  /\ fetch \in [Receipts -> Fetch]
  /\ unit \in [Units -> Checkpoint] /\ run \in Checkpoint
  /\ ledger \subseteq Entry /\ sources \subseteq Hashes /\ commits \subseteq Commit /\ failures \subseteq Failure
  /\ orphans \subseteq Orphan /\ recorded \in Nat
  /\ terminal \subseteq Receipts /\ inflight \subseteq Receipts /\ claims \subseteq Hashes
  /\ receipt \in [Receipts -> Disposition]
  /\ raw \in [Hashes -> {"absent", "present", "removed"}]
  /\ at \in [Receipts -> Place]
  /\ expected \in [Receipts -> [unit: Nat, run: Nat]]
  /\ why \in [Receipts -> Reason]
  /\ scan \in [Receipts -> Scan]
  /\ reaper \in [Reapers -> Reaper]

\* The aggregate checkpoint was last written with the unit of the same attempt:
\* the two never come apart, whichever attempts and units alternate
\* (checkpoint.ts, commitPage and publishOwned).
PairTogether == run.by # NoReceipt => unit[UnitOf(run.by)].by = run.by

\* A revision of a unit is committed with one page, empty or not: attempts that read
\* the same checkpoint cannot both advance it, across every await of the commit.
OnePagePerRevision ==
  \A e, f \in ledger : e.unit = f.unit /\ e.rev = f.rev => e = f

\* A receipt that recovery or a quarantine ended never commits a source, although
\* recovery looks between the steps of a commit (ingressTerminal and ingressInflight).
EndedNeverCommits == \A r \in terminal : \A c \in commits : c.by # r

\* A page of these bytes was committed in the unit of this attempt.
Listed(r) == \E e \in ledger : e.hash = HashOf(r) /\ e.unit = UnitOf(r)

\* A receipt the store calls committed has its source and an audit of its run, whether
\* the run, its reading back, or recovery said so.  That of an empty page has neither:
\* only the request ledger of the checkpoints names it.
CommittedHasSource ==
  \A r \in Receipts : receipt[r] = "committed" => IF Void(r) THEN Listed(r) ELSE IsCommitted(r)

\* Evidence a receipt was issued for is never forgotten: recovery will list the receipt,
\* a source has the evidence or an orphan, or it is an empty page the checkpoints name.
\* Bytes whose receipt could not be issued are outside of it: nothing knows of them.
EvidenceTracked ==
  \A r \in Receipts : receipt[r] # "none" /\ raw[HashOf(r)] = "present" =>
    \/ receipt[r] \in Undisposed
    \/ HashOf(r) \in sources
    \/ \E o \in orphans : o.hash = HashOf(r)
    \/ Void(r) /\ Listed(r)

\* While a reaper deletes the bytes of an orphan, no other orphan and no other
\* reaper has them (checkpoint.ts, orphanEligible and orphanDeleteClaims).
Deleting(p) == reaper[p].at \in {"claimed", "deleted", "kept"}
DeletedAlone ==
  \A p \in Reapers : Deleting(p) =>
    /\ \A o \in orphans : o.hash = reaper[p].orphan.hash => o = reaper[p].orphan
    /\ \A q \in Reapers : Deleting(q) /\ reaper[q].orphan.hash = reaper[p].orphan.hash => q = p

-----------------------------------------------------------------------------
(* The plane keeps its promise, IngestPromise: every section under the     *)
(* lock, every call between two of them and every transaction of the       *)
(* object store is one step of it, or none that could be seen.             *)

Told(r) == IF receipt[r] \in {"committed", "quarantined"} THEN receipt[r] ELSE "nothing"

Promise == INSTANCE IngestPromise WITH
  pages <- fetch,
  revision <- [u \in Units |-> unit[u].rev],
  total <- run.rev,
  published <- ledger,
  ended <- terminal,
  retained <- {o.hash : o \in orphans},
  said <- [r \in Receipts |-> Told(r)],
  bytes <- raw

\* However runs, recoveries and reapers interleave between the steps of a commit
\* (checkpoint.ts, ingest.ts, reconcile-pending.ts): a revision publishes one page, an
\* ended receipt none; a disposition is true when it is written and is never taken
\* back, save that recovery cannot see that an empty page was committed and may call it
\* quarantined; and evidence is deleted only while an orphan is kept of it.
KeepsPromise == Promise!Spec

-----------------------------------------------------------------------------
\* What the tests of the plane say of it, and the code does not keep.

\* "blocks a late commit for the same receipt and correlation after recovery
\* terminally quarantines it" (pending-reconcile.int.spec.ts): a receipt recovery
\* called quarantined has committed nothing.
QuarantineBlocksCommit ==
  \A r \in Receipts : receipt[r] = "quarantined" => \A c \in commits : c.by # r

\* "Every destructive decision is freshly revalidated under the same write-plane
\* serialization as commits/orphans" (checkpoint.ts): a source keeps its evidence.
SourcesKeepEvidence == \A h \in sources : raw[h] = "present"
=============================================================================
