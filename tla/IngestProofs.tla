---------------------------- MODULE IngestProofs ----------------------------
(***************************************************************************)
(* Theorems about IngestPlane, for any attempts, pages, units, runs and    *)
(* reapers.                                                                *)
(***************************************************************************)
EXTENDS IngestPlane, TLAPS

-----------------------------------------------------------------------------
(* Which actions change what: all any proof below asks of the others.      *)

LEMMA WhoPublishes ==
  ASSUME [Next]_vars
  PROVE  /\ fetch' = fetch
         /\ \/ UNCHANGED checkpoints
            \/ \E r \in Receipts : Publish(r)
         /\ \/ UNCHANGED <<ledger, sources, commits>>
            \/ \E r \in Receipts : CommitPage(r)
         /\ \/ UNCHANGED failures
            \/ \E r \in Receipts : CommitQuarantinedFailure(r)
         /\ \/ UNCHANGED terminal
            \/ \E r \in Receipts : CommitQuarantinedFailure(r) \/ EndIngress(r)
  BY DEF Next, Fetching, Committing, Recovering, Reaping, vars, checkpoints, evidence, ingress,
     StartUnit, RepeatedCursor, CommitTerminalFailure, WriteRaw, IssueReceipt, IssueFails, ResolveReceipt,
     ResolveNull, ReserveIngress, CommitPage, CommitQuarantinedFailure, CommitThrows,
     ReleaseIngress, ReadBack, RecordOrphan, Acknowledge, ListPending, VerifyPending, Classify,
     EndIngress, MarkRecovered, MarkLost, ListOrphans, VerifyOrphan, ClaimOrphan, DeleteRaw,
     DeleteFails, FinishOrphan

LEMMA WhoRetains ==
  ASSUME [Next]_vars
  PROVE  /\ \/ UNCHANGED orphans
            \/ \E r \in Receipts : CommitQuarantinedFailure(r) \/ RecordOrphan(r) \/ EndIngress(r)
            \/ \E p \in Reapers : FinishOrphan(p)
         /\ \/ UNCHANGED claims
            \/ \E p \in Reapers : ClaimOrphan(p) \/ FinishOrphan(p)
         /\ \/ UNCHANGED raw
            \/ \E r \in Receipts : WriteRaw(r)
            \/ \E p \in Reapers : DeleteRaw(p) \/ DeleteFails(p)
         /\ \/ UNCHANGED reaper
            \/ \E p \in Reapers : Reaping(p)
<1>1. \/ UNCHANGED orphans
      \/ \E r \in Receipts : CommitQuarantinedFailure(r) \/ RecordOrphan(r) \/ EndIngress(r)
      \/ \E p \in Reapers : FinishOrphan(p)
  BY DEF Next, Fetching, Committing, Recovering, Reaping, vars, retention,
     StartUnit, RepeatedCursor, CommitTerminalFailure, WriteRaw, IssueReceipt, IssueFails, ResolveReceipt,
     ResolveNull, ReserveIngress, CommitPage, CommitThrows, ReleaseIngress, ReadBack,
     Acknowledge, ListPending, VerifyPending, Classify, MarkRecovered, MarkLost, ListOrphans,
     VerifyOrphan, ClaimOrphan, DeleteRaw, DeleteFails
<1>2. UNCHANGED claims \/ \E p \in Reapers : ClaimOrphan(p) \/ FinishOrphan(p)
  BY DEF Next, Fetching, Committing, Recovering, Reaping, vars,
     StartUnit, RepeatedCursor, CommitTerminalFailure, WriteRaw, IssueReceipt, IssueFails, ResolveReceipt,
     ResolveNull, ReserveIngress, CommitPage, CommitQuarantinedFailure, CommitThrows,
     ReleaseIngress, ReadBack, RecordOrphan, Acknowledge, ListPending, VerifyPending, Classify,
     EndIngress, MarkRecovered, MarkLost, ListOrphans, VerifyOrphan, DeleteRaw, DeleteFails
<1>3. \/ UNCHANGED raw
      \/ \E r \in Receipts : WriteRaw(r)
      \/ \E p \in Reapers : DeleteRaw(p) \/ DeleteFails(p)
  BY DEF Next, Fetching, Committing, Recovering, Reaping, vars, store,
     StartUnit, RepeatedCursor, CommitTerminalFailure, IssueReceipt, IssueFails, ResolveReceipt,
     ResolveNull, ReserveIngress, CommitPage, CommitQuarantinedFailure, CommitThrows,
     ReleaseIngress, ReadBack, RecordOrphan, Acknowledge, ListPending, VerifyPending, Classify,
     EndIngress, MarkRecovered, MarkLost, ListOrphans, VerifyOrphan, ClaimOrphan, FinishOrphan
<1>4. UNCHANGED reaper \/ \E p \in Reapers : Reaping(p)
  BY DEF Next, Fetching, Committing, Recovering, vars,
     StartUnit, RepeatedCursor, CommitTerminalFailure, WriteRaw, IssueReceipt, IssueFails, ResolveReceipt,
     ResolveNull, ReserveIngress, CommitPage, CommitQuarantinedFailure, CommitThrows,
     ReleaseIngress, ReadBack, RecordOrphan, Acknowledge, ListPending, VerifyPending, Classify,
     EndIngress, MarkRecovered, MarkLost
<1> QED
  BY <1>1, <1>2, <1>3, <1>4

LEMMA WhoAnswers ==
  ASSUME [Next]_vars
  PROVE  /\ \/ UNCHANGED receipt
            \/ \E r \in Receipts : \/ IssueReceipt(r) \/ ResolveReceipt(r)
                                   \/ Acknowledge(r) \/ MarkRecovered(r)
         /\ \/ UNCHANGED scan
            \/ \E r \in Receipts : Recovering(r)
         /\ \/ UNCHANGED at
            \/ \E r \in Receipts : Fetching(r) \/ Committing(r)
<1>1. \/ UNCHANGED receipt
      \/ \E r \in Receipts : IssueReceipt(r) \/ ResolveReceipt(r) \/ Acknowledge(r) \/ MarkRecovered(r)
  BY DEF Next, Fetching, Committing, Recovering, Reaping, vars, store,
     StartUnit, RepeatedCursor, CommitTerminalFailure, WriteRaw, IssueFails, ResolveNull, ReserveIngress,
     CommitPage, CommitQuarantinedFailure, CommitThrows, ReleaseIngress, ReadBack, RecordOrphan,
     ListPending, VerifyPending, Classify, EndIngress, MarkLost, ListOrphans, VerifyOrphan,
     ClaimOrphan, DeleteRaw, DeleteFails, FinishOrphan
<1>2. UNCHANGED scan \/ \E r \in Receipts : Recovering(r)
  BY DEF Next, Fetching, Committing, Reaping, vars,
     StartUnit, RepeatedCursor, CommitTerminalFailure, WriteRaw, IssueReceipt, IssueFails, ResolveReceipt,
     ResolveNull, ReserveIngress, CommitPage, CommitQuarantinedFailure, CommitThrows,
     ReleaseIngress, ReadBack, RecordOrphan, Acknowledge, ListOrphans, VerifyOrphan,
     ClaimOrphan, DeleteRaw, DeleteFails, FinishOrphan
<1>3. UNCHANGED at \/ \E r \in Receipts : Fetching(r) \/ Committing(r)
  BY DEF Next, Recovering, Reaping, vars, attempt,
     ListPending, VerifyPending, Classify, EndIngress, MarkRecovered, MarkLost, ListOrphans,
     VerifyOrphan, ClaimOrphan, DeleteRaw, DeleteFails, FinishOrphan
<1> QED
  BY <1>1, <1>2, <1>3

-----------------------------------------------------------------------------
(* The types are inductive by themselves: one step per action.             *)
LEMMA PublishTypes ==
  ASSUME TypeOK, NEW r \in Receipts, Publish(r)
  PROVE  unit' \in [Units -> Checkpoint] /\ run' \in Checkpoint
<1>1. UnitOf(r) \in Units
  BY DEF UnitOf, TypeOK, Fetch
<1>2. unit[UnitOf(r)].rev + 1 \in Nat /\ run.rev + 1 \in Nat
  BY <1>1 DEF TypeOK, Checkpoint
<1> QED
  BY <1>1, <1>2 DEF Publish, TypeOK, Checkpoint

LEMMA TypesStep ==
  ASSUME TypeOK, [Next]_vars
  PROVE  TypeOK'
<1>0. fetch' = fetch
  BY WhoPublishes
<1> USE <1>0, IngestAssumption DEF TypeOK, checkpoints, evidence, retention, ingress, store, attempt
<1>1. ASSUME NEW r \in Receipts, StartUnit(r) PROVE TypeOK'
  BY <1>1 DEF StartUnit, Moves, Place, Checkpoint, UnitOf, Fetch
<1>2. ASSUME NEW r \in Receipts, RepeatedCursor(r) PROVE TypeOK'
  <2>1. CASE Current(r)
    BY <1>2, <2>1, PublishTypes DEF RepeatedCursor, Moves, Place
  <2>2. CASE ~Current(r)
    BY <1>2, <2>2 DEF RepeatedCursor, Moves, Place
  <2> QED
    BY <2>1, <2>2
<1>3. ASSUME NEW r \in Receipts, CommitTerminalFailure(r) PROVE TypeOK'
  <2>1. CASE Current(r)
    BY <1>3, <2>1, PublishTypes DEF CommitTerminalFailure, Moves, Place
  <2>2. CASE ~Current(r)
    BY <1>3, <2>2 DEF CommitTerminalFailure, Moves, Place
  <2> QED
    BY <2>1, <2>2
<1>4. ASSUME NEW r \in Receipts, WriteRaw(r) PROVE TypeOK'
  BY <1>4 DEF WriteRaw, Place, HashOf, Fetch
<1>5. ASSUME NEW r \in Receipts, IssueReceipt(r) PROVE TypeOK'
  BY <1>5 DEF IssueReceipt, Moves, Place, Disposition
<1>5b. ASSUME NEW r \in Receipts, IssueFails(r) PROVE TypeOK'
  BY <1>5b DEF IssueFails, Moves, Place
<1>6. ASSUME NEW r \in Receipts, ResolveReceipt(r) PROVE TypeOK'
  BY <1>6 DEF ResolveReceipt, Moves, Place, Disposition
<1>7. ASSUME NEW r \in Receipts, ResolveNull(r) PROVE TypeOK'
  BY <1>7 DEF ResolveNull, Moves, AfterFailure, Place
<1>8. ASSUME NEW r \in Receipts, ReserveIngress(r) PROVE TypeOK'
  BY <1>8 DEF ReserveIngress, AfterFailure, Place
<1>9. ASSUME NEW r \in Receipts, CommitPage(r) PROVE TypeOK'
  <2>1. unit' \in [Units -> Checkpoint] /\ run' \in Checkpoint /\ at' \in [Receipts -> Place]
    BY <1>9, PublishTypes DEF CommitPage, Moves, Place
  <2>2. expected[r].unit + 1 \in Nat /\ HashOf(r) \in Hashes /\ UnitOf(r) \in Units /\ CorrOf(r) \in Correlations
    BY DEF HashOf, UnitOf, CorrOf, Fetch
  <2>3. Listing(r) \in Entry /\ Audit(r) \in Commit
    BY <2>2 DEF Listing, Audit, Entry, Commit
  <2>4. ledger' \subseteq Entry /\ sources' \subseteq Hashes /\ commits' \subseteq Commit
    BY <1>9, <2>2, <2>3 DEF CommitPage, CommitRecord
  <2> QED
    BY <1>9, <2>1, <2>4 DEF CommitPage
<1>10. ASSUME NEW r \in Receipts, CommitQuarantinedFailure(r) PROVE TypeOK'
  BY <1>10, PublishTypes DEF CommitQuarantinedFailure, Moves, Place, HashOf, CorrOf, Fetch, Failure, Retain, NewOrphan, Orphan, Reason
<1>11. ASSUME NEW r \in Receipts, NEW reason \in {"checkpoint_conflict", "write_plane_failure"}, CommitThrows(r, reason) PROVE TypeOK'
  BY <1>11 DEF CommitThrows, Moves, Place, Reason
<1>12. ASSUME NEW r \in Receipts, ReleaseIngress(r) PROVE TypeOK'
  BY <1>12 DEF ReleaseIngress, Moves, AfterFailure, Place
<1>13. ASSUME NEW r \in Receipts, ReadBack(r) PROVE TypeOK'
  BY <1>13 DEF ReadBack, Moves, Place
<1>14. ASSUME NEW r \in Receipts, RecordOrphan(r) PROVE TypeOK'
  BY <1>14 DEF RecordOrphan, Moves, Place, RecordOrphanUnlocked, Retain, NewOrphan, Orphan, HashOf, Fetch
<1>15. ASSUME NEW r \in Receipts, Acknowledge(r) PROVE TypeOK'
  BY <1>15 DEF Acknowledge, Moves, Place, MarkDisposition, Outcome, Disposition
<1>16. ASSUME NEW r \in Receipts, ListPending(r) PROVE TypeOK'
  BY <1>16 DEF ListPending, Scans, Scan
<1>17. ASSUME NEW r \in Receipts, VerifyPending(r) PROVE TypeOK'
  BY <1>17 DEF VerifyPending, Scans, Scan
<1>18. ASSUME NEW r \in Receipts, Classify(r) PROVE TypeOK'
  BY <1>18 DEF Classify, Scans, Scan, Classification
<1>19. ASSUME NEW r \in Receipts, EndIngress(r) PROVE TypeOK'
  BY <1>19 DEF EndIngress, Scans, Scan, RecordOrphanUnlocked, Retain, NewOrphan, Orphan, HashOf, Fetch, Reason
<1>20. ASSUME NEW r \in Receipts, MarkRecovered(r) PROVE TypeOK'
  BY <1>20 DEF MarkRecovered, MarkDisposition, Scan, Disposition
<1>21. ASSUME NEW r \in Receipts, MarkLost(r) PROVE TypeOK'
  BY <1>21 DEF MarkLost, Scans, Scan
<1>22. ASSUME NEW p \in Reapers, NEW todo \in SUBSET orphans, ListOrphans(p, todo) PROVE TypeOK'
  BY <1>22 DEF ListOrphans, Reaper
<1>23. ASSUME NEW p \in Reapers, NEW o \in reaper[p].todo, VerifyOrphan(p, o) PROVE TypeOK'
  BY <1>23 DEF VerifyOrphan, Reaper
<1>24. ASSUME NEW p \in Reapers, ClaimOrphan(p) PROVE TypeOK'
  <2> DEFINE o == reaper[p].orphan
  <2>1. CASE Claimable(o)
    <3>1. o \in Orphan /\ o.hash \in Hashes
      BY <2>1 DEF Claimable, Eligible, Orphan
    <3>2. claims' = claims \cup {o.hash} /\ reaper' = [reaper EXCEPT ![p] = [at |-> "claimed", todo |-> reaper[p].todo, orphan |-> o]]
      BY <1>24, <2>1 DEF ClaimOrphan, Reaps
    <3> HIDE DEF o
    <3> QED
      BY <1>24, <3>1, <3>2 DEF ClaimOrphan, Reaper
  <2>2. CASE ~Claimable(o)
    BY <1>24, <2>2 DEF ClaimOrphan, Reaps, Reaper
  <2> QED
    BY <2>1, <2>2
<1>25. ASSUME NEW p \in Reapers, DeleteRaw(p) PROVE TypeOK'
  BY <1>25 DEF DeleteRaw, Reaps, Reaper, Orphan
<1>26. ASSUME NEW p \in Reapers, DeleteFails(p) PROVE TypeOK'
  BY <1>26 DEF DeleteFails, Reaps, Reaper
<1>27. ASSUME NEW p \in Reapers, FinishOrphan(p) PROVE TypeOK'
  BY <1>27 DEF FinishOrphan, Reaps, Reaper
<1>28. CASE UNCHANGED vars
  BY <1>28 DEF vars
<1> QED
  BY <1>1, <1>2, <1>3, <1>4, <1>5, <1>5b, <1>6, <1>7, <1>8, <1>9, <1>10, <1>11, <1>12, <1>13, <1>14, <1>15, <1>16, <1>17, <1>18, <1>19, <1>20, <1>21, <1>22, <1>23, <1>24, <1>25, <1>26, <1>27, <1>28 DEF Next, Fetching, Committing, Recovering, Reaping

-----------------------------------------------------------------------------
(* The inductive invariant, in parts.                                      *)

\* No page is ahead of the checkpoint of its unit.
Behind == \A e \in ledger : e.rev <= unit[e.unit].rev

\* A commit is of the page and the correlation of its attempt, which could be
\* read and was not empty, and left its source.
Sourced ==
  \A c \in commits :
    /\ c.hash = HashOf(c.by) /\ c.corr = CorrOf(c.by)
    /\ c.hash \in sources /\ c.hash \notin Malformed /\ c.hash \notin Empty

\* Evidence that is a source, is retained, or is gone.
Kept(h) == h \in sources \/ (\E o \in orphans : o.hash = h) \/ raw[h] = "removed"

\* An attempt that is past its commit, for whatever it came to.
Past(r) == at[r] \in {"published", "acknowledging"}

\* A page is settled once it left its source and its audit or, being empty, was listed.
Settled(r) == IF Void(r) THEN Listed(r) ELSE IsCommitted(r)

SaysCommitted ==
  \A r \in Receipts :
    receipt[r] = "committed" \/ scan[r] = "committed" \/ (Past(r) /\ ~Bad(r)) => Settled(r)

SaysQuarantined ==
  \A r \in Receipts : scan[r] = "quarantined" \/ (Past(r) /\ Bad(r)) => Kept(HashOf(r))

FailuresKept == \A f \in failures : Kept(f.hash)

\* A receipt is issued for bytes that were written.
Stored == \A r \in Receipts : receipt[r] # "none" => raw[HashOf(r)] # "absent"

\* A reaper that deletes has claimed the orphan, which stays; a claim is some
\* reaper's; and what it deleted is gone.
Claimed ==
  /\ \A p \in Reapers : Deleting(p) =>
       /\ reaper[p].orphan \in orphans /\ reaper[p].orphan.hash \in claims
       /\ reaper[p].at = "deleted" => raw[reaper[p].orphan.hash] = "removed"
  /\ \A h \in claims : \E p \in Reapers : Deleting(p) /\ reaper[p].orphan.hash = h

Plane == PairTogether /\ Behind /\ OnePagePerRevision /\ Sourced /\ EndedNeverCommits
Answers == SaysCommitted /\ SaysQuarantined /\ FailuresKept /\ Stored /\ EvidenceTracked
Deletion == Claimed /\ DeletedAlone

IInv == TypeOK /\ Plane /\ Answers /\ Deletion

-----------------------------------------------------------------------------
(* The checkpoints and what was committed with them.                       *)
LEMMA PublishMoves ==
  ASSUME TypeOK, NEW r \in Receipts, Publish(r)
  PROVE  /\ UnitOf(r) \in Units
         /\ unit[UnitOf(r)].rev \in Nat
         /\ unit'[UnitOf(r)].rev = unit[UnitOf(r)].rev + 1
         /\ unit'[UnitOf(r)].by = r
         /\ \A u \in Units : u # UnitOf(r) => unit'[u] = unit[u]
         /\ run'.by = r
  BY DEF TypeOK, Fetch, Checkpoint, UnitOf, Publish

LEMMA PairStep ==
  ASSUME TypeOK, PairTogether, [Next]_vars
  PROVE  PairTogether'
<1>1. fetch' = fetch
  BY WhoPublishes
<1>2. CASE UNCHANGED checkpoints
  BY <1>1, <1>2 DEF PairTogether, UnitOf, checkpoints
<1>3. ASSUME NEW r \in Receipts, Publish(r) PROVE PairTogether'
  <2>1. unit'[UnitOf(r)].by = r /\ run'.by = r
    BY <1>3, PublishMoves
  <2> QED
    BY <1>1, <2>1 DEF PairTogether, UnitOf
<1> QED
  BY <1>2, <1>3, WhoPublishes

LEMMA BehindStep ==
  ASSUME TypeOK, Behind, OnePagePerRevision, [Next]_vars
  PROVE  Behind' /\ OnePagePerRevision'
<1>1. fetch' = fetch
  BY WhoPublishes
<1>2. \A e \in ledger : e.unit \in Units /\ e.rev \in Nat
  BY DEF TypeOK, Entry
<1>3. \A u \in Units : unit[u].rev \in Nat
  BY DEF TypeOK, Checkpoint
<1>4. \A u \in Units : unit[u].rev <= unit'[u].rev
  <2>1. CASE UNCHANGED checkpoints
    BY <2>1, <1>3 DEF checkpoints
  <2>2. ASSUME NEW r \in Receipts, Publish(r) PROVE \A u \in Units : unit[u].rev <= unit'[u].rev
    <3>1. /\ UnitOf(r) \in Units
          /\ unit'[UnitOf(r)].rev = unit[UnitOf(r)].rev + 1
          /\ \A u \in Units : u # UnitOf(r) => unit'[u] = unit[u]
      BY <2>2, PublishMoves
    <3> QED
      BY <1>3, <3>1
  <2> QED
    BY <2>1, <2>2, WhoPublishes
<1>5. TypeOK'
  BY TypesStep
<1>6. \A u \in Units : unit'[u].rev \in Nat
  BY <1>5 DEF TypeOK, Checkpoint
<1>7. CASE ledger' = ledger
  <2>1. Behind'
    BY <1>2, <1>3, <1>4, <1>6, <1>7 DEF Behind
  <2> QED
    BY <2>1, <1>7 DEF OnePagePerRevision
<1>8. ASSUME NEW r \in Receipts, CommitPage(r) PROVE Behind' /\ OnePagePerRevision'
  <2> DEFINE new == Listing(r)
  <2>1. Publish(r) /\ expected[r].unit = unit[UnitOf(r)].rev /\ ledger' = ledger \cup {new}
    BY <1>8 DEF CommitPage, Current
  <2>2. new.unit = UnitOf(r) /\ new.rev = unit[UnitOf(r)].rev + 1
    BY <2>1 DEF Listing
  <2>3. UnitOf(r) \in Units /\ unit'[UnitOf(r)].rev = unit[UnitOf(r)].rev + 1
    BY <2>1, PublishMoves
  <2> HIDE DEF new
  <2>4. Behind'
    BY <1>2, <1>3, <1>4, <1>6, <2>1, <2>2, <2>3 DEF Behind
  <2>5. \A e \in ledger : e.unit = new.unit => e.rev < new.rev
    BY <1>2, <1>3, <2>2, <2>3 DEF Behind
  <2> QED
    BY <1>2, <1>3, <2>1, <2>2, <2>3, <2>4, <2>5 DEF OnePagePerRevision
<1> QED
  BY <1>7, <1>8, WhoPublishes

LEMMA SourcedStep ==
  ASSUME TypeOK, Sourced, [Next]_vars
  PROVE  Sourced'
<1>1. fetch' = fetch
  BY WhoPublishes
<1>2. CASE UNCHANGED <<sources, commits>>
  BY <1>1, <1>2 DEF Sourced, HashOf, CorrOf
<1>3. ASSUME NEW r \in Receipts, CommitPage(r) PROVE Sourced'
  <2>1. CASE Void(r)
    BY <1>1, <1>3, <2>1 DEF CommitPage, Sourced, HashOf, CorrOf
  <2>2. CASE ~Void(r)
    <3>1. sources' = sources \cup {HashOf(r)} /\ commits' = commits \cup {Audit(r)}
          /\ HashOf(r) \notin Malformed /\ HashOf(r) \notin Empty
      BY <1>3, <2>2 DEF CommitPage, CommitRecord, Bad, Void
    <3>2. Audit(r).hash = HashOf(r) /\ Audit(r).corr = CorrOf(r) /\ Audit(r).by = r
      BY DEF Audit
    <3> QED
      BY <1>1, <3>1, <3>2 DEF Sourced, HashOf, CorrOf
  <2> QED
    BY <2>1, <2>2
<1> QED
  BY <1>2, <1>3, WhoPublishes

LEMMA EndedStep ==
  ASSUME TypeOK, Sourced, EndedNeverCommits, [Next]_vars
  PROVE  EndedNeverCommits'
<1>1. CASE UNCHANGED terminal /\ UNCHANGED commits
  BY <1>1 DEF EndedNeverCommits
<1>2. ASSUME NEW r \in Receipts, CommitPage(r) PROVE EndedNeverCommits'
  <2>1. commits' = commits \/ commits' = commits \cup {Audit(r)}
    BY <1>2 DEF CommitPage, CommitRecord
  <2> QED
    BY <1>2, <2>1 DEF CommitPage, Audit, Finalizable, EndedNeverCommits, ingress
<1>3. ASSUME NEW r \in Receipts, CommitQuarantinedFailure(r) PROVE EndedNeverCommits'
  <2>1. \A c \in commits : c.by # r
    BY <1>3 DEF CommitQuarantinedFailure, Sourced, Bad
  <2> QED
    BY <1>3, <2>1 DEF CommitQuarantinedFailure, EndedNeverCommits
<1>4. ASSUME NEW r \in Receipts, EndIngress(r) PROVE EndedNeverCommits'
  <2>1. \A c \in commits : c.by # r
    BY <1>4 DEF EndIngress, Unclassified, IsCommitted, Sourced
  <2> QED
    BY <1>4, <2>1 DEF EndIngress, EndedNeverCommits, evidence
<1> QED
  BY <1>1, <1>2, <1>3, <1>4, WhoPublishes

-----------------------------------------------------------------------------
(* What became of evidence is never undone.                                *)
LEMMA MadeStays ==
  ASSUME [Next]_vars
  PROVE  sources \subseteq sources' /\ commits \subseteq commits' /\ ledger \subseteq ledger'
<1>1. ASSUME NEW r \in Receipts, CommitPage(r)
      PROVE  sources \subseteq sources' /\ commits \subseteq commits' /\ ledger \subseteq ledger'
  BY <1>1 DEF CommitPage, CommitRecord
<1> QED
  BY <1>1, WhoPublishes

LEMMA SettledStays ==
  ASSUME [Next]_vars, NEW r \in Receipts, Settled(r)
  PROVE  Settled(r)'
<1>1. fetch' = fetch
  BY WhoPublishes
<1>2. CASE Void(r)
  BY <1>1, <1>2, MadeStays DEF Settled, Listed, Void, HashOf, UnitOf
<1>3. CASE ~Void(r)
  BY <1>1, <1>3, MadeStays DEF Settled, IsCommitted, Void, HashOf, CorrOf
<1> QED
  BY <1>2, <1>3

\* Recovery calls nothing committed but what left a source, so no empty page.
LEMMA CommittedIsSettled ==
  ASSUME Sourced, NEW r \in Receipts, IsCommitted(r)
  PROVE  Settled(r)
BY DEF Sourced, IsCommitted, Settled, Void

LEMMA RemovedStays ==
  ASSUME TypeOK, [Next]_vars, NEW h \in Hashes, raw[h] = "removed"
  PROVE  raw'[h] = "removed"
<1>1. ASSUME NEW r \in Receipts, WriteRaw(r) PROVE raw'[h] = "removed"
  BY <1>1 DEF WriteRaw, TypeOK
<1>2. ASSUME NEW p \in Reapers, DeleteRaw(p) \/ DeleteFails(p) PROVE raw'[h] = "removed"
  BY <1>2 DEF DeleteRaw, DeleteFails, TypeOK
<1> QED
  BY <1>1, <1>2, WhoRetains

LEMMA OrphansStay ==
  ASSUME TypeOK, Claimed, [Next]_vars, NEW o \in orphans
  PROVE  o \in orphans' \/ raw[o.hash] = "removed"
<1>1. ASSUME NEW r \in Receipts, CommitQuarantinedFailure(r) PROVE o \in orphans'
  BY <1>1 DEF CommitQuarantinedFailure, Retain
<1>2. ASSUME NEW r \in Receipts, RecordOrphan(r) PROVE o \in orphans'
  BY <1>2 DEF RecordOrphan, RecordOrphanUnlocked, Retain, retention
<1>3. ASSUME NEW r \in Receipts, EndIngress(r) PROVE o \in orphans'
  BY <1>3 DEF EndIngress, RecordOrphanUnlocked, Retain, retention
<1>4. ASSUME NEW p \in Reapers, FinishOrphan(p) PROVE o \in orphans' \/ raw[o.hash] = "removed"
  BY <1>4 DEF FinishOrphan, Removable, Claimed, Deleting
<1> QED
  BY <1>1, <1>2, <1>3, <1>4, WhoRetains

LEMMA KeptStays ==
  ASSUME TypeOK, Claimed, [Next]_vars, NEW h \in Hashes, Kept(h)
  PROVE  Kept(h)'
<1>1. CASE h \in sources
  BY <1>1, MadeStays DEF Kept
<1>2. CASE raw[h] = "removed"
  BY <1>2, RemovedStays DEF Kept
<1>3. ASSUME NEW o \in orphans, o.hash = h PROVE Kept(h)'
  BY <1>3, OrphansStay, RemovedStays DEF Kept
<1> QED
  BY <1>1, <1>2, <1>3 DEF Kept

-----------------------------------------------------------------------------
(* What is said of receipts and of attempts.                               *)
LEMMA ScanCommitted ==
  ASSUME TypeOK, [Next]_vars, NEW r \in Receipts, scan'[r] = "committed"
  PROVE  scan[r] = "committed" \/ IsCommitted(r)
<1>1. ASSUME NEW s \in Receipts, Recovering(s) PROVE scan[r] = "committed" \/ IsCommitted(r)
  <2>1. ASSUME ListPending(s) \/ VerifyPending(s) \/ EndIngress(s) \/ MarkRecovered(s) \/ MarkLost(s)
        PROVE  scan[r] = "committed"
    BY <2>1 DEF ListPending, VerifyPending, EndIngress, MarkRecovered, MarkLost, Scans, TypeOK
  <2>2. ASSUME Classify(s) PROVE scan[r] = "committed" \/ IsCommitted(r)
    BY <2>2 DEF Classify, Scans, Classification, TypeOK
  <2> QED
    BY <1>1, <2>1, <2>2 DEF Recovering
<1> QED
  BY <1>1, WhoAnswers

LEMMA ScanQuarantined ==
  ASSUME TypeOK, [Next]_vars, NEW r \in Receipts, scan'[r] = "quarantined"
  PROVE  scan[r] = "quarantined" \/ IsQuarantined(r) \/ EndIngress(r)
<1>1. ASSUME NEW s \in Receipts, Recovering(s)
      PROVE  scan[r] = "quarantined" \/ IsQuarantined(r) \/ EndIngress(r)
  <2>1. ASSUME ListPending(s) \/ VerifyPending(s) \/ MarkRecovered(s) \/ MarkLost(s)
        PROVE  scan[r] = "quarantined"
    BY <2>1 DEF ListPending, VerifyPending, MarkRecovered, MarkLost, Scans, TypeOK
  <2>2. ASSUME Classify(s) PROVE scan[r] = "quarantined" \/ IsQuarantined(r)
    BY <2>2 DEF Classify, Scans, Classification, TypeOK
  <2>3. ASSUME EndIngress(s) PROVE scan[r] = "quarantined" \/ EndIngress(r)
    BY <2>3 DEF EndIngress, Scans, TypeOK
  <2> QED
    BY <1>1, <2>1, <2>2, <2>3 DEF Recovering
<1> QED
  BY <1>1, WhoAnswers

LEMMA GetsPast ==
  ASSUME TypeOK, [Next]_vars, NEW r \in Receipts, Past(r)'
  PROVE  Past(r) \/ CommitPage(r) \/ CommitQuarantinedFailure(r) \/ ReadBack(r)
<1>1. ASSUME NEW s \in Receipts, Fetching(s) PROVE Past(r)
  BY <1>1 DEF Fetching, StartUnit, RepeatedCursor, CommitTerminalFailure, WriteRaw, IssueReceipt,
     IssueFails, Moves, Past, TypeOK
<1>2. ASSUME NEW s \in Receipts, Committing(s)
      PROVE  Past(r) \/ CommitPage(r) \/ CommitQuarantinedFailure(r) \/ ReadBack(r)
  <2>1. ASSUME \/ ResolveReceipt(s) \/ ResolveNull(s) \/ ReserveIngress(s) \/ ReleaseIngress(s)
               \/ RecordOrphan(s) \/ Acknowledge(s)
               \/ \E reason \in {"checkpoint_conflict", "write_plane_failure"} : CommitThrows(s, reason)
        PROVE  Past(r)
    BY <2>1 DEF ResolveReceipt, ResolveNull, ReserveIngress, ReleaseIngress, RecordOrphan,
       Acknowledge, CommitThrows, AfterFailure, Moves, Past, TypeOK
  <2>2. ASSUME CommitPage(s) \/ CommitQuarantinedFailure(s) \/ ReadBack(s), r # s PROVE Past(r)
    BY <2>2 DEF CommitPage, CommitQuarantinedFailure, ReadBack, Moves, Past, TypeOK
  <2> QED
    BY <1>2, <2>1, <2>2 DEF Committing
<1>3. CASE UNCHANGED at
  BY <1>3 DEF Past
<1> QED
  BY <1>1, <1>2, <1>3, WhoAnswers

LEMMA ReceiptMoves ==
  ASSUME TypeOK, [Next]_vars, NEW r \in Receipts, receipt'[r] # receipt[r]
  PROVE  \/ receipt'[r] \in Undisposed
         \/ receipt'[r] = "committed" /\ (scan[r] = "committed" \/ (Past(r) /\ ~Bad(r)))
         \/ receipt'[r] = "quarantined" /\ (scan[r] = "quarantined" \/ (Past(r) /\ Bad(r)))
<1>0. receipt \in [Receipts -> Disposition]
  BY DEF TypeOK
<1>1. ASSUME NEW s \in Receipts, IssueReceipt(s) \/ ResolveReceipt(s)
      PROVE  receipt'[r] \in Undisposed
  BY <1>0, <1>1 DEF IssueReceipt, ResolveReceipt, Undisposed
<1>2. ASSUME NEW s \in Receipts, Acknowledge(s)
      PROVE  Past(r) /\ receipt'[r] = Outcome(r)
  <2>1. at[s] = "acknowledging" /\ receipt' = [receipt EXCEPT ![s] = Outcome(s)]
    BY <1>2 DEF Acknowledge, Moves, MarkDisposition
  <2> QED
    BY <1>0, <2>1 DEF Past
<1>3. ASSUME NEW s \in Receipts, MarkRecovered(s)
      PROVE  receipt'[r] = scan[r] /\ scan[r] \in {"committed", "quarantined"}
  BY <1>0, <1>3 DEF MarkRecovered, MarkDisposition
<1> QED
  BY <1>1, <1>2, <1>3, WhoAnswers DEF Outcome

LEMMA SaysCommittedStep ==
  ASSUME TypeOK, Sourced, SaysCommitted, [Next]_vars
  PROVE  SaysCommitted'
<1>1. fetch' = fetch
  BY WhoPublishes
<1> SUFFICES ASSUME NEW r \in Receipts,
                    receipt'[r] = "committed" \/ scan'[r] = "committed" \/ (Past(r)' /\ ~Bad(r))
             PROVE  Settled(r)'
  BY <1>1 DEF SaysCommitted, Bad, HashOf
<1>2. CASE receipt'[r] = "committed"
  <2>1. receipt[r] = "committed" \/ scan[r] = "committed" \/ (Past(r) /\ ~Bad(r))
    BY <1>2, ReceiptMoves DEF Undisposed
  <2> QED
    BY <2>1, SettledStays DEF SaysCommitted
<1>3. CASE scan'[r] = "committed"
  BY <1>3, ScanCommitted, CommittedIsSettled, SettledStays DEF SaysCommitted
<1>4. CASE Past(r)' /\ ~Bad(r)
  <2>1. CASE Past(r)
    BY <1>4, <2>1, SettledStays DEF SaysCommitted
  <2>2. CASE CommitPage(r)
    <3>1. CASE Void(r)
      <4>1. Listing(r) \in ledger' /\ Listing(r).hash = HashOf(r) /\ Listing(r).unit = UnitOf(r)
        BY <2>2 DEF CommitPage, Listing
      <4> QED
        BY <1>1, <3>1, <4>1 DEF Settled, Listed, Void, HashOf, UnitOf
    <3>2. CASE ~Void(r)
      <4>1. Audit(r) \in commits' /\ HashOf(r) \in sources'
        BY <2>2, <3>2 DEF CommitPage, CommitRecord
      <4>2. Audit(r).hash = HashOf(r) /\ Audit(r).corr = CorrOf(r)
        BY DEF Audit
      <4> QED
        BY <1>1, <3>2, <4>1, <4>2 DEF Settled, IsCommitted, Void, HashOf, CorrOf
    <3> QED
      BY <3>1, <3>2
  <2>3. CASE CommitQuarantinedFailure(r)
    BY <1>4, <2>3 DEF CommitQuarantinedFailure
  <2>4. CASE ReadBack(r)
    <3>1. Settled(r)
      BY <2>4 DEF ReadBack, CommittedAs, ListedAs, RecordedAs, Settled, Listed, IsCommitted
    <3> QED
      BY <3>1, SettledStays
  <2> QED
    BY <1>4, <2>1, <2>2, <2>3, <2>4, GetsPast
<1> QED
  BY <1>2, <1>3, <1>4

LEMMA QuarantineKeeps ==
  ASSUME TypeOK, [Next]_vars, NEW r \in Receipts, CommitQuarantinedFailure(r)
  PROVE  Kept(HashOf(r))'
<1>1. NewOrphan(HashOf(r), "provider_schema") \in orphans'
  BY DEF CommitQuarantinedFailure, Retain
<1> QED
  BY <1>1, WhoPublishes DEF Kept, NewOrphan, HashOf

LEMMA EndingKeeps ==
  ASSUME TypeOK, Claimed, [Next]_vars, NEW r \in Receipts, EndIngress(r)
  PROVE  Kept(HashOf(r))'
<1>0. HashOf(r) \in Hashes /\ fetch' = fetch
  BY WhoPublishes DEF TypeOK, Fetch, HashOf
<1>1. CASE Records(HashOf(r), "write_plane_failure")
  <2>1. NewOrphan(HashOf(r), "write_plane_failure") \in orphans'
    BY <1>1 DEF EndIngress, RecordOrphanUnlocked, Retain
  <2> QED
    BY <1>0, <2>1 DEF Kept, NewOrphan, HashOf
<1>2. CASE ~Records(HashOf(r), "write_plane_failure")
  <2>1. Kept(HashOf(r))
    BY <1>2 DEF Records, Claimed, Kept
  <2>2. \A h \in Hashes : Kept(h) => Kept(h)'
    BY KeptStays
  <2> QED
    BY <1>0, <2>1, <2>2 DEF Kept, HashOf
<1> QED
  BY <1>1, <1>2

LEMMA FailuresStep ==
  ASSUME TypeOK, Claimed, FailuresKept, [Next]_vars
  PROVE  FailuresKept'
<1>1. \A f \in failures : f.hash \in Hashes /\ Kept(f.hash)
  BY DEF TypeOK, Failure, FailuresKept
<1>2. \A f \in failures : Kept(f.hash)'
  BY <1>1, KeptStays
<1>3. CASE UNCHANGED failures
  BY <1>2, <1>3 DEF FailuresKept, Kept
<1>4. ASSUME NEW r \in Receipts, CommitQuarantinedFailure(r) PROVE FailuresKept'
  <2>1. \E o \in orphans' : o.hash = HashOf(r)
    <3>1. NewOrphan(HashOf(r), "provider_schema") \in orphans'
      BY <1>4 DEF CommitQuarantinedFailure, Retain
    <3> QED
      BY <3>1 DEF NewOrphan
  <2>2. failures' = failures \cup {[hash |-> HashOf(r), corr |-> CorrOf(r)]}
    BY <1>4 DEF CommitQuarantinedFailure
  <2> QED
    BY <1>2, <2>1, <2>2 DEF FailuresKept, Kept
<1> QED
  BY <1>3, <1>4, WhoPublishes

LEMMA SaysQuarantinedStep ==
  ASSUME TypeOK, Claimed, Sourced, SaysQuarantined, FailuresKept, [Next]_vars
  PROVE  SaysQuarantined'
<1>1. fetch' = fetch
  BY WhoPublishes
<1>2. \A r \in Receipts : HashOf(r) \in Hashes
  BY DEF TypeOK, Fetch, HashOf
<1>3. \A r \in Receipts : Kept(HashOf(r)) => Kept(HashOf(r))'
  <2>1. \A h \in Hashes : Kept(h) => Kept(h)'
    BY KeptStays
  <2> QED
    BY <1>1, <1>2, <2>1 DEF Kept, HashOf
<1> SUFFICES ASSUME NEW r \in Receipts, scan'[r] = "quarantined" \/ (Past(r)' /\ Bad(r))
             PROVE  Kept(HashOf(r))'
  BY <1>1 DEF SaysQuarantined, Bad, HashOf
<1>4. CASE scan'[r] = "quarantined"
  <2>1. CASE scan[r] = "quarantined"
    BY <1>3, <2>1 DEF SaysQuarantined
  <2>2. CASE IsQuarantined(r)
    <3>1. Kept(HashOf(r))
      BY <2>2 DEF IsQuarantined, FailuresKept, Kept
    <3> QED
      BY <1>3, <3>1
  <2>3. CASE EndIngress(r)
    BY <2>3, EndingKeeps
  <2> QED
    BY <1>4, <2>1, <2>2, <2>3, ScanQuarantined
<1>5. CASE Past(r)' /\ Bad(r)
  <2>1. CASE Past(r)
    BY <1>3, <1>5, <2>1 DEF SaysQuarantined
  <2>2. CASE CommitPage(r)
    BY <1>5, <2>2 DEF CommitPage
  <2>3. CASE CommitQuarantinedFailure(r)
    BY <2>3, QuarantineKeeps
  <2>4. CASE ReadBack(r)
    BY <1>5, <2>4, IngestAssumption DEF ReadBack, CommittedAs, RecordedAs, Sourced, Bad, Void
  <2> QED
    BY <1>5, <2>1, <2>2, <2>3, <2>4, GetsPast
<1> QED
  BY <1>4, <1>5

-----------------------------------------------------------------------------
(* Evidence a receipt was issued for is tracked.                           *)
LEMMA Issues ==
  ASSUME TypeOK, [Next]_vars, NEW r \in Receipts, receipt[r] = "none", receipt'[r] # "none"
  PROVE  receipt'[r] \in Undisposed /\ raw[HashOf(r)] = "present"
<1>1. ASSUME NEW s \in Receipts, IssueReceipt(s) \/ ResolveReceipt(s)
      PROVE  receipt'[r] \in Undisposed /\ raw[HashOf(r)] = "present"
  BY <1>1 DEF IssueReceipt, ResolveReceipt, Undisposed, TypeOK
<1>2. ASSUME NEW s \in Receipts, NEW d \in {"committed", "quarantined"}, MarkDisposition(s, d)
      PROVE  receipt'[r] = "none"
  BY <1>2 DEF MarkDisposition, Markable, Undisposed, TypeOK
<1>3. ASSUME NEW s \in Receipts, Acknowledge(s) \/ MarkRecovered(s) PROVE receipt'[r] = "none"
  BY <1>2, <1>3 DEF Acknowledge, MarkRecovered, Outcome
<1> QED
  BY <1>1, <1>3, WhoAnswers

\* Bytes that were written are there or removed from then on.
LEMMA WrittenStays ==
  ASSUME TypeOK, [Next]_vars, NEW h \in Hashes, raw[h] # "absent"
  PROVE  raw'[h] # "absent"
<1>1. ASSUME NEW r \in Receipts, WriteRaw(r) PROVE raw'[h] # "absent"
  BY <1>1 DEF WriteRaw, TypeOK
<1>2. ASSUME NEW p \in Reapers, DeleteRaw(p) \/ DeleteFails(p) PROVE raw'[h] # "absent"
  BY <1>2 DEF DeleteRaw, DeleteFails, TypeOK
<1> QED
  BY <1>1, <1>2, WhoRetains

LEMMA StoredStep ==
  ASSUME TypeOK, Stored, [Next]_vars
  PROVE  Stored'
<1>1. fetch' = fetch
  BY WhoPublishes
<1> SUFFICES ASSUME NEW r \in Receipts, receipt'[r] # "none" PROVE raw'[HashOf(r)] # "absent"
  BY <1>1 DEF Stored, HashOf
<1>2. HashOf(r) \in Hashes
  BY DEF TypeOK, Fetch, HashOf
<1>3. raw[HashOf(r)] # "absent"
  BY Issues DEF Stored
<1> QED
  BY <1>2, <1>3, WrittenStays

\* Removed bytes do not come back, so bytes that are there with a receipt were there.
LEMMA EvidenceStep ==
  ASSUME TypeOK, Claimed, SaysCommitted, SaysQuarantined, EvidenceTracked, Stored, [Next]_vars
  PROVE  EvidenceTracked'
<1>1. fetch' = fetch
  BY WhoPublishes
<1> DEFINE Tracked(r) ==
      \/ receipt'[r] \in Undisposed
      \/ HashOf(r) \in sources'
      \/ \E o \in orphans' : o.hash = HashOf(r)
      \/ Void(r) /\ \E e \in ledger' : e.hash = HashOf(r) /\ e.unit = UnitOf(r)
<1> SUFFICES ASSUME NEW r \in Receipts, receipt'[r] # "none", raw'[HashOf(r)] = "present"
             PROVE  Tracked(r)
  BY <1>1 DEF EvidenceTracked, Listed, Void, HashOf, UnitOf
<1>0. HashOf(r) \in Hashes
  BY DEF TypeOK, Fetch, HashOf
<1>2. CASE receipt[r] = "none"
  BY <1>2, Issues
<1>3. CASE receipt[r] # "none"
  <2>0. raw[HashOf(r)] = "present"
    BY <1>0, <1>3, RemovedStays DEF Stored, TypeOK
  <2>1. CASE HashOf(r) \in sources
    BY <2>1, MadeStays
  <2>2. ASSUME NEW o \in orphans, o.hash = HashOf(r) PROVE Tracked(r)
    BY <2>0, <2>2, OrphansStay
  <2>3. CASE Void(r) /\ Listed(r)
    BY <2>3, MadeStays DEF Listed
  <2>4. CASE receipt[r] \in Undisposed
    <3>1. CASE receipt'[r] \in Undisposed
      BY <3>1
    <3>2. CASE receipt'[r] = "committed" /\ (scan[r] = "committed" \/ (Past(r) /\ ~Bad(r)))
      <4>1. Settled(r)
        BY <3>2 DEF SaysCommitted
      <4> QED
        BY <4>1, MadeStays DEF Settled, Listed, IsCommitted
    <3>3. CASE receipt'[r] = "quarantined" /\ (scan[r] = "quarantined" \/ (Past(r) /\ Bad(r)))
      <4>1. Kept(HashOf(r))
        BY <3>3 DEF SaysQuarantined
      <4>2. CASE HashOf(r) \in sources
        BY <4>2, MadeStays
      <4>3. ASSUME NEW o \in orphans, o.hash = HashOf(r) PROVE Tracked(r)
        BY <2>0, <4>3, OrphansStay
      <4> QED
        BY <2>0, <4>1, <4>2, <4>3 DEF Kept
    <3> QED
      BY <2>4, <3>1, <3>2, <3>3, ReceiptMoves
  <2> QED
    BY <1>3, <2>0, <2>1, <2>2, <2>3, <2>4 DEF EvidenceTracked
<1> QED
  BY <1>2, <1>3

-----------------------------------------------------------------------------
(* Deletion: what the steps of the attempts and of recovery may do to the  *)
(* orphans while reapers hold claims, then the steps of a reaper.          *)
LEMMA WhoDeletes ==
  ASSUME [Next]_vars
  PROVE  \/ \E p \in Reapers : Reaping(p)
         \/ /\ UNCHANGED <<reaper, claims>>
            /\ \/ UNCHANGED orphans
               \/ \E r \in Receipts : \/ CommitQuarantinedFailure(r) \/ RecordOrphan(r)
                                      \/ EndIngress(r)
  BY DEF Next, Fetching, Committing, Recovering, vars, retention,
     StartUnit, RepeatedCursor, CommitTerminalFailure, WriteRaw, IssueReceipt, IssueFails, ResolveReceipt,
     ResolveNull, ReserveIngress, CommitPage, CommitQuarantinedFailure, CommitThrows,
     ReleaseIngress, ReadBack, RecordOrphan, Acknowledge, ListPending, VerifyPending, Classify,
     EndIngress, MarkRecovered, MarkLost

\* A new orphan is of evidence no reaper deletes.
LEMMA OrphansGrow ==
  ASSUME TypeOK, Claimed, NEW r \in Receipts,
         CommitQuarantinedFailure(r) \/ RecordOrphan(r) \/ EndIngress(r)
  PROVE  /\ orphans \subseteq orphans'
         /\ \A o \in orphans' \ orphans : \A p \in Reapers :
              Deleting(p) => o.hash # reaper[p].orphan.hash
<1>1. CASE CommitQuarantinedFailure(r)
  <2>1. /\ orphans' = orphans \cup {NewOrphan(HashOf(r), "provider_schema")}
        /\ FirstOrphan(HashOf(r))
    BY <1>1 DEF CommitQuarantinedFailure, Retain
  <2>2. NewOrphan(HashOf(r), "provider_schema").hash = HashOf(r)
    BY DEF NewOrphan
  <2> QED
    BY <2>1, <2>2 DEF FirstOrphan, Claimed
<1>2. ASSUME NEW reason, RecordOrphanUnlocked(HashOf(r), reason)
      PROVE  /\ orphans \subseteq orphans'
             /\ \A o \in orphans' \ orphans : o.hash \notin claims
  <2>1. CASE Records(HashOf(r), reason)
    <3>1. orphans' = orphans \cup {NewOrphan(HashOf(r), reason)} /\ HashOf(r) \notin claims
      BY <1>2, <2>1 DEF RecordOrphanUnlocked, Retain, Records
    <3>2. NewOrphan(HashOf(r), reason).hash = HashOf(r)
      BY DEF NewOrphan
    <3> QED
      BY <3>1, <3>2
  <2>2. CASE ~Records(HashOf(r), reason)
    BY <1>2, <2>2 DEF RecordOrphanUnlocked, retention
  <2> QED
    BY <2>1, <2>2
<1>3. CASE RecordOrphan(r)
  BY <1>2, <1>3 DEF RecordOrphan, Claimed
<1>4. CASE EndIngress(r)
  BY <1>2, <1>4 DEF EndIngress, Claimed
<1> QED
  BY <1>1, <1>3, <1>4

LEMMA OthersDelete ==
  ASSUME TypeOK, Deletion, [Next]_vars, UNCHANGED <<reaper, claims>>,
         \/ UNCHANGED orphans
         \/ \E r \in Receipts : CommitQuarantinedFailure(r) \/ RecordOrphan(r) \/ EndIngress(r)
  PROVE  Deletion'
<1>1. /\ orphans \subseteq orphans'
      /\ \A o \in orphans' \ orphans : \A p \in Reapers :
           Deleting(p) => o.hash # reaper[p].orphan.hash
  BY OrphansGrow DEF Deletion
<1>2. \A p \in Reapers : Deleting(p) /\ reaper[p].at = "deleted" =>
        raw'[reaper[p].orphan.hash] = "removed"
  BY RemovedStays DEF Deletion, Claimed, TypeOK
<1>3. Claimed'
  BY <1>1, <1>2 DEF Deletion, Claimed, Deleting
<1>4. DeletedAlone'
  BY <1>1 DEF Deletion, DeletedAlone, Deleting
<1> QED
  BY <1>3, <1>4 DEF Deletion

LEMMA ReaperDeletes ==
  ASSUME TypeOK, Deletion, [Next]_vars, NEW p \in Reapers, Reaping(p)
  PROVE  Deletion'
<1> USE DEF Deletion, Claimed, DeletedAlone, Deleting
<1>0. reaper \in [Reapers -> Reaper] /\ claims \subseteq Hashes
  BY DEF TypeOK
<1>1. \A h \in Hashes : raw[h] = "removed" => raw'[h] = "removed"
  BY RemovedStays
<1>2. ASSUME NEW todo \in SUBSET orphans, ListOrphans(p, todo) PROVE Deletion'
  BY <1>0, <1>1, <1>2 DEF ListOrphans, Resting, retention, store
<1>3. ASSUME NEW o \in reaper[p].todo, VerifyOrphan(p, o) PROVE Deletion'
  BY <1>0, <1>1, <1>3 DEF VerifyOrphan, retention, store
<1>4. ASSUME ClaimOrphan(p) PROVE Deletion'
  <2>1. CASE Claimable(reaper[p].orphan)
    BY <1>0, <1>4, <2>1 DEF ClaimOrphan, Reaps, Claimable, Eligible, retention, store
  <2>2. CASE ~Claimable(reaper[p].orphan)
    BY <1>0, <1>4, <2>2 DEF ClaimOrphan, Reaps, retention, store
  <2> QED
    BY <2>1, <2>2
<1>5. ASSUME DeleteRaw(p) PROVE Deletion'
  BY <1>0, <1>1, <1>5 DEF DeleteRaw, Reaps, retention, TypeOK
<1>6. ASSUME DeleteFails(p) PROVE Deletion'
  BY <1>0, <1>1, <1>6 DEF DeleteFails, Reaps, retention
<1>7. ASSUME FinishOrphan(p) PROVE Deletion'
  BY <1>0, <1>7 DEF FinishOrphan, Reaps, store
<1> QED
  BY <1>2, <1>3, <1>4, <1>5, <1>6, <1>7 DEF Reaping

-----------------------------------------------------------------------------
(* The theorems.                                                           *)
LEMMA InitIInv == Init => IInv
<1> SUFFICES ASSUME Init PROVE IInv
  OBVIOUS
<1>1. TypeOK
  BY IngestAssumption DEF Init, TypeOK, Checkpoint, Disposition, Place, Reason, Scan, Reaper, Resting
<1>2. Plane
  BY DEF Init, Plane, PairTogether, Behind, OnePagePerRevision, Sourced, EndedNeverCommits
<1>3. Answers
  BY DEF Init, Answers, SaysCommitted, SaysQuarantined, FailuresKept, Stored, EvidenceTracked, Past
<1>4. Deletion
  BY DEF Init, Deletion, Claimed, DeletedAlone, Deleting, Resting
<1> QED
  BY <1>1, <1>2, <1>3, <1>4 DEF IInv

LEMMA NextIInv == IInv /\ [Next]_vars => IInv'
<1> SUFFICES ASSUME IInv, [Next]_vars PROVE IInv'
  OBVIOUS
<1>1. TypeOK /\ Plane /\ Answers /\ Deletion
  BY DEF IInv
<1>2. TypeOK'
  BY <1>1, TypesStep
<1>3. Plane'
  BY <1>1, PairStep, BehindStep, SourcedStep, EndedStep DEF Plane
<1>4. Answers'
  BY <1>1, SaysCommittedStep, SaysQuarantinedStep, FailuresStep, StoredStep, EvidenceStep
     DEF Plane, Answers, Deletion
<1>5. Deletion'
  BY <1>1, WhoDeletes, OthersDelete, ReaperDeletes
<1> QED
  BY <1>2, <1>3, <1>4, <1>5 DEF IInv

\* The invariant holds in every state of every behaviour.
THEOREM Invariance == Spec => []IInv
  BY InitIInv, NextIInv, PTL DEF Spec

\* Every variable keeps its type, whatever attempts, recoveries and reapers do.
THEOREM TypeCorrect == Spec => []TypeOK
<1>1. IInv => TypeOK
  BY DEF IInv
<1> QED
  BY <1>1, Invariance, PTL

\* The aggregate checkpoint never comes apart from the one of its unit (commitPage,
\* commitQuarantinedFailure, commitTerminalFailure).
THEOREM PairStaysTogether == Spec => []PairTogether
<1>1. IInv => PairTogether
  BY DEF IInv, Plane
<1> QED
  BY <1>1, Invariance, PTL

\* No revision of a unit is committed twice: the comparison of revisions in
\* commitPage serialises the attempts, however many runs share the plane.
THEOREM CommitsOncePerRevision == Spec => []OnePagePerRevision
<1>1. IInv => OnePagePerRevision
  BY DEF IInv, Plane
<1> QED
  BY <1>1, Invariance, PTL

\* A receipt that was ended never commits (ingressTerminal and ingressInflight).
THEOREM EndIsFinal == Spec => []EndedNeverCommits
<1>1. IInv => EndedNeverCommits
  BY DEF IInv, Plane
<1> QED
  BY <1>1, Invariance, PTL

\* A receipt the store calls committed has its source and its audit, whoever marked it:
\* the run, its reading back, or recovery.  That of an empty page is in the ledger.
THEOREM CommittedIsTrue == Spec => []CommittedHasSource
<1>1. IInv => CommittedHasSource
  BY DEF IInv, Answers, SaysCommitted, Settled, CommittedHasSource
<1> QED
  BY <1>1, Invariance, PTL

\* Evidence that is stored and has a receipt is a source, retained, an empty page the
\* checkpoints name, or recovery will find its receipt.
THEOREM NothingForgotten == Spec => []EvidenceTracked
<1>1. IInv => EvidenceTracked
  BY DEF IInv, Answers
<1> QED
  BY <1>1, Invariance, PTL

\* A reaper deletes the bytes of an orphan that is alone in having them, and alone.
THEOREM DeletesAlone == Spec => []DeletedAlone
<1>1. IInv => DeletedAlone
  BY DEF IInv, Deletion
<1> QED
  BY <1>1, Invariance, PTL

-----------------------------------------------------------------------------
(* The refinement: IngestPlane implements IngestPromise.                   *)

\* Nothing is known of a receipt before it is issued; an attempt that committed is past
\* it for good; a page that was listed is that of its attempt and, unless it is empty,
\* was committed; what was committed was listed, and every source was committed.
CommitsOnce ==
  /\ \A r \in Receipts : at[r] \in {"idle", "started", "written"} => receipt[r] = "none"
  /\ \A e \in ledger :
       /\ e.by \in Receipts /\ at[e.by] \in {"published", "acknowledging", "over"}
       /\ e.hash = HashOf(e.by)
       /\ e.hash \in Empty \/ (\E c \in commits : c.by = e.by)
  /\ \A c \in commits : \E e \in ledger : e.by = c.by
  /\ \A h \in sources : \E c \in commits : c.hash = h

LEMMA InitOnce == Init => CommitsOnce
BY DEF Init, CommitsOnce

LEMMA StaysBehindCommit ==
  ASSUME TypeOK, [Next]_vars, NEW r \in Receipts, at[r] \in {"published", "acknowledging", "over"}
  PROVE  at'[r] \in {"published", "acknowledging", "over"}
<1>1. ASSUME NEW s \in Receipts, Fetching(s) PROVE at'[r] = at[r]
  BY <1>1 DEF Fetching, StartUnit, RepeatedCursor, CommitTerminalFailure, WriteRaw, IssueReceipt,
     IssueFails, Moves, TypeOK
<1>2. ASSUME NEW s \in Receipts, Committing(s)
      PROVE  at'[r] \in {"published", "acknowledging", "over"}
  <2>1. ASSUME \/ ResolveReceipt(s) \/ ResolveNull(s) \/ ReserveIngress(s) \/ CommitPage(s)
               \/ CommitQuarantinedFailure(s) \/ ReadBack(s) \/ RecordOrphan(s)
               \/ \E reason \in {"checkpoint_conflict", "write_plane_failure"} : CommitThrows(s, reason)
        PROVE  at'[r] = at[r]
    BY <2>1 DEF ResolveReceipt, ResolveNull, ReserveIngress, CommitPage, CommitQuarantinedFailure,
       ReadBack, RecordOrphan, CommitThrows, Moves, TypeOK
  <2>2. ASSUME ReleaseIngress(s) PROVE at'[r] \in {"published", "acknowledging", "over"}
    BY <2>2 DEF ReleaseIngress, Moves, TypeOK
  <2>3. ASSUME Acknowledge(s) PROVE at'[r] \in {"published", "acknowledging", "over"}
    BY <2>3 DEF Acknowledge, Moves, TypeOK
  <2> QED
    BY <1>2, <2>1, <2>2, <2>3 DEF Committing
<1> QED
  BY <1>1, <1>2, WhoAnswers

LEMMA StaysUnissued ==
  ASSUME TypeOK, [Next]_vars, NEW r \in Receipts, at'[r] \in {"idle", "started", "written"},
         at[r] \in {"idle", "started", "written"} => receipt[r] = "none"
  PROVE  receipt'[r] = "none"
<1> DEFINE Early == {"idle", "started", "written"}
<1>1. at[r] \in Early
  <2>1. ASSUME NEW s \in Receipts, Fetching(s) PROVE at[r] \in Early
    BY <2>1 DEF Fetching, StartUnit, RepeatedCursor, CommitTerminalFailure, WriteRaw, IssueReceipt,
       IssueFails, Moves, TypeOK
  <2>2. ASSUME NEW s \in Receipts, Committing(s) PROVE at[r] \in Early
    BY <2>2 DEF Committing, ResolveReceipt, ResolveNull, ReserveIngress, CommitPage,
       CommitQuarantinedFailure, CommitThrows, ReleaseIngress, ReadBack, RecordOrphan, Acknowledge,
       AfterFailure, Moves, TypeOK
  <2> QED
    BY <2>1, <2>2, WhoAnswers
<1>2. ASSUME NEW s \in Receipts, IssueReceipt(s) PROVE receipt'[r] = "none"
  BY <1>1, <1>2 DEF IssueReceipt, Moves, TypeOK
<1>3. ASSUME NEW s \in Receipts, ResolveReceipt(s) PROVE receipt'[r] = "none"
  BY <1>1, <1>3 DEF ResolveReceipt, Moves, TypeOK
<1>4. ASSUME NEW s \in Receipts, NEW d \in {"committed", "quarantined"}, MarkDisposition(s, d)
      PROVE  receipt'[r] = "none"
  BY <1>1, <1>4 DEF MarkDisposition, Markable, Undisposed, TypeOK
<1>5. ASSUME NEW s \in Receipts, Acknowledge(s) \/ MarkRecovered(s) PROVE receipt'[r] = "none"
  BY <1>4, <1>5 DEF Acknowledge, MarkRecovered, Outcome
<1> QED
  BY <1>1, <1>2, <1>3, <1>5, WhoAnswers

LEMMA OnceStep ==
  ASSUME TypeOK, CommitsOnce, [Next]_vars
  PROVE  CommitsOnce'
<1>1. \A r \in Receipts : at[r] \in {"published", "acknowledging", "over"} =>
        at'[r] \in {"published", "acknowledging", "over"}
  BY StaysBehindCommit
<1>0. \A r \in Receipts : at'[r] \in {"idle", "started", "written"} => receipt'[r] = "none"
  BY StaysUnissued DEF CommitsOnce
<1>4. fetch' = fetch
  BY WhoPublishes
<1>2. CASE UNCHANGED <<ledger, sources, commits>>
  BY <1>0, <1>1, <1>2, <1>4 DEF CommitsOnce, HashOf
<1>3. ASSUME NEW r \in Receipts, CommitPage(r) PROVE CommitsOnce'
  <2> DEFINE e == Listing(r)
             c == Audit(r)
  <2>1. e.by = r /\ e.hash = HashOf(r) /\ c.by = r /\ c.hash = HashOf(r)
    BY DEF Listing, Audit
  <2>2. ledger' = ledger \cup {e} /\ at'[r] = "published"
    BY <1>3 DEF CommitPage, Moves, TypeOK
  <2>3. \/ HashOf(r) \in Empty /\ UNCHANGED <<sources, commits>>
        \/ sources' = sources \cup {HashOf(r)} /\ commits' = commits \cup {c}
    BY <1>3 DEF CommitPage, CommitRecord, Void
  <2> HIDE DEF e, c
  <2>4. /\ \A f \in ledger' : /\ f.by \in Receipts /\ at'[f.by] \in {"published", "acknowledging", "over"}
                              /\ f.hash = HashOf(f.by)
        /\ \A d \in commits' : \E f \in ledger' : f.by = d.by
        /\ \A h \in sources' : \E d \in commits' : d.hash = h
    BY <1>1, <2>1, <2>2, <2>3 DEF CommitsOnce
  <2>5. \A f \in ledger' : f.hash \in Empty \/ (\E d \in commits' : d.by = f.by)
    BY <2>1, <2>2, <2>3 DEF CommitsOnce
  <2> QED
    BY <1>0, <1>4, <2>4, <2>5 DEF CommitsOnce, HashOf
<1> QED
  BY <1>2, <1>3, WhoPublishes

\* What the promise sees of the orphans.
Retained == {o.hash : o \in orphans}

LEMMA Keeping ==
  ASSUME NEW h, NEW reason, Retain(h, reason)
  PROVE  Retained' = Retained \cup {h}
<1>1. orphans' = orphans \cup {NewOrphan(h, reason)} /\ NewOrphan(h, reason).hash = h
  BY DEF Retain, NewOrphan
<1> QED
  BY <1>1 DEF Retained

\* An orphan that goes takes its evidence with it.
LEMMA Leaving ==
  ASSUME TypeOK, Deletion, NEW p \in Reapers, FinishOrphan(p), Removable(p)
  PROVE  Retained' = Retained \ {reaper[p].orphan.hash}
<1>1. orphans' = orphans \ {reaper[p].orphan}
  BY DEF FinishOrphan
<1>2. /\ reaper[p].orphan \in orphans
      /\ \A other \in orphans : other.hash = reaper[p].orphan.hash => other = reaper[p].orphan
  BY DEF Removable, Eligible
<1> QED
  BY <1>1, <1>2 DEF Retained

\* Recovery that gives a receipt up does record an orphan: were a reaper deleting
\* the evidence, its orphan would still be there.
LEMMA EndingRetains ==
  ASSUME Claimed, NEW r \in Receipts, EndIngress(r)
  PROVE  Retained' = Retained \cup {HashOf(r)}
<1>1. HashOf(r) \notin claims /\ \A o \in orphans : o.hash # HashOf(r)
  BY DEF EndIngress, Unclassified, IsQuarantined, Claimed
<1>2. Retain(HashOf(r), "write_plane_failure")
  BY <1>1 DEF EndIngress, RecordOrphanUnlocked, Records
<1> QED
  BY <1>2, Keeping

\* The variables the promise is about; the others only decide what happens next.
seen == <<fetch, checkpoints, ledger, terminal, orphans, receipt, raw>>

LEMMA Unseen ==
  ASSUME UNCHANGED seen
  PROVE  UNCHANGED Promise!vars
BY DEF seen, checkpoints, Told, Promise!vars, Promise!checkpoints, Promise!receipts, Promise!evidence

\* What the promise sees of the checkpoints.
Revisions == [u \in Units |-> unit[u].rev]

LEMMA Advancing ==
  ASSUME TypeOK, NEW r \in Receipts, Publish(r)
  PROVE  Revisions' = [Revisions EXCEPT ![UnitOf(r)] = @ + 1] /\ run'.rev = run.rev + 1
<1>1. unit'= [unit EXCEPT ![UnitOf(r)] = [rev |-> unit[UnitOf(r)].rev + 1, by |-> r]]
      /\ run' = [rev |-> run.rev + 1, by |-> r] /\ UnitOf(r) \in Units
  BY DEF Publish, TypeOK, UnitOf, Fetch
<1>2. \A u \in Units : unit'[u].rev = IF u = UnitOf(r) THEN unit[u].rev + 1 ELSE unit[u].rev
  BY <1>1 DEF TypeOK
<1> QED
  BY <1>1, <1>2 DEF Revisions

LEMMA InitPromise == Init => Promise!Init
<1> SUFFICES ASSUME Init PROVE Promise!Init
  OBVIOUS
<1>1. {o.hash : o \in orphans} = {}
  BY DEF Init
<1>2. [u \in Units |-> unit[u].rev] = [u \in Units |-> 0] /\ run.rev = 0
  BY DEF Init
<1>3. [r \in Receipts |-> Told(r)] = [r \in Receipts |-> "nothing"]
  BY DEF Init, Told
<1> QED
  BY <1>1, <1>2, <1>3 DEF Init, Fetch, Promise!Init

\* A fetch that came to nothing moves the checkpoints at most.
LEMMA NoPageStep ==
  ASSUME TypeOK, NEW r \in Receipts, RepeatedCursor(r) \/ CommitTerminalFailure(r)
  PROVE  Promise!Next \/ UNCHANGED Promise!vars
<1>1. UNCHANGED <<fetch, ledger, terminal, orphans, receipt, raw>>
      /\ (Publish(r) \/ UNCHANGED checkpoints)
  BY DEF RepeatedCursor, CommitTerminalFailure, evidence, retention, ingress, store
<1>2. CASE UNCHANGED checkpoints
  BY <1>1, <1>2, Unseen DEF seen
<1>3. CASE Publish(r)
  <2>1. PICK u \in Units : u = UnitOf(r)
    BY <1>3, PublishMoves
  <2>2. Revisions' = [Revisions EXCEPT ![u] = @ + 1] /\ run'.rev = run.rev + 1
    BY <1>3, <2>1, Advancing
  <2>3. Promise!NothingFetched(u)
    BY <1>1, <2>2 DEF Revisions, Told, Promise!NothingFetched, Promise!Advance, Promise!receipts, Promise!evidence
  <2> QED
    BY <2>3 DEF Promise!Next
<1> QED
  BY <1>1, <1>2, <1>3

LEMMA CommitPageStep ==
  ASSUME TypeOK, CommitsOnce, NEW r \in Receipts, CommitPage(r)
  PROVE  Promise!Next
<1>1. Revisions' = [Revisions EXCEPT ![UnitOf(r)] = @ + 1] /\ run'.rev = run.rev + 1
  BY Advancing DEF CommitPage
<1>2. /\ r \notin terminal /\ HashOf(r) \notin Malformed
      /\ UNCHANGED <<fetch, terminal, orphans, receipt, raw>>
  BY DEF CommitPage, Finalizable, Bad, retention, ingress, store
<1>3. \A e \in ledger : e.by # r
  BY DEF CommitsOnce, CommitPage, Moves
<1>4. expected[r].unit = unit[UnitOf(r)].rev /\ UnitOf(r) \in Units
  BY DEF CommitPage, Current, TypeOK, UnitOf, Fetch
<1>5. ledger' = ledger \cup {[hash |-> HashOf(r), unit |-> UnitOf(r),
                              rev |-> Revisions[UnitOf(r)] + 1, by |-> r]}
  BY <1>4 DEF CommitPage, Listing, Revisions
<1>6. Promise!PublishPage(r)
  BY <1>1, <1>2, <1>3, <1>5 DEF Revisions, Told, HashOf, UnitOf, Promise!PublishPage, Promise!Advance,
     Promise!Hash, Promise!evidence
<1> QED
  BY <1>6 DEF Promise!Next

LEMMA QuarantineStep ==
  ASSUME TypeOK, NEW r \in Receipts, CommitQuarantinedFailure(r)
  PROVE  Promise!Next
<1>1. Revisions' = [Revisions EXCEPT ![UnitOf(r)] = @ + 1] /\ run'.rev = run.rev + 1
  BY Advancing DEF CommitQuarantinedFailure
<1>2. /\ r \notin terminal /\ HashOf(r) \in Malformed /\ terminal' = terminal \cup {r}
      /\ UNCHANGED <<fetch, ledger, receipt, raw>>
  BY DEF CommitQuarantinedFailure, Finalizable, Bad, store
<1>3. Retained' = Retained \cup {HashOf(r)}
  BY Keeping DEF CommitQuarantinedFailure
<1>4. Promise!QuarantinePage(r)
  BY <1>1, <1>2, <1>3 DEF Revisions, Retained, Told, HashOf, UnitOf, Promise!QuarantinePage, Promise!Advance,
     Promise!Hash
<1> QED
  BY <1>4 DEF Promise!Next

LEMMA EndStep ==
  ASSUME Sourced, CommitsOnce, Claimed, NEW r \in Receipts, EndIngress(r)
  PROVE  Promise!Next
<1>1. Retained' = Retained \cup {HashOf(r)}
  BY EndingRetains
<1>2. HashOf(r) \in Empty \/ ~\E e \in ledger : e.hash = HashOf(r) /\ CorrOf(e.by) = CorrOf(r)
  <2> SUFFICES ASSUME NEW e \in ledger, e.hash = HashOf(r), CorrOf(e.by) = CorrOf(r), HashOf(r) \notin Empty
               PROVE  FALSE
    OBVIOUS
  <2>1. PICK c \in commits : c.by = e.by
    BY DEF CommitsOnce
  <2>2. c.hash = HashOf(r) /\ c.corr = CorrOf(r) /\ c.hash \in sources
    BY <2>1 DEF Sourced, CommitsOnce
  <2> QED
    BY <2>2 DEF EndIngress, Unclassified, IsCommitted
<1>3. terminal' = terminal \cup {r} /\ UNCHANGED <<fetch, checkpoints, ledger, receipt, raw>>
  BY DEF EndIngress, evidence, store
<1>4. Promise!EndReceipt(r)
  BY <1>1, <1>2, <1>3 DEF Retained, Told, HashOf, CorrOf, checkpoints, Promise!EndReceipt, Promise!Hash,
     Promise!Published, Promise!checkpoints
<1> QED
  BY <1>4 DEF Promise!Next

\* What is said of a receipt is said once, and true.
LEMMA SayStep ==
  ASSUME TypeOK, Sourced, CommitsOnce, SaysCommitted, SaysQuarantined, NEW r \in Receipts,
         NEW d \in {"committed", "quarantined"},
         scan[r] = d \/ (Past(r) /\ d = Outcome(r)), MarkDisposition(r, d),
         UNCHANGED <<fetch, checkpoints, ledger, terminal, orphans, raw>>
  PROVE  Promise!Next \/ UNCHANGED Promise!vars
<1>1. CASE UNCHANGED receipt
  BY <1>1, Unseen DEF seen
<1>2. CASE receipt' # receipt
  <2>1. receipt' = [receipt EXCEPT ![r] = d] /\ receipt[r] \in Undisposed
    BY <1>2 DEF MarkDisposition, Markable, Undisposed, TypeOK
  <2>2. Told(r) = "nothing" /\ \A q \in Receipts : Told(q)' = IF q = r THEN d ELSE Told(q)
    BY <2>1 DEF Told, Undisposed, TypeOK
  <2>3. [q \in Receipts |-> Told(q)]' = [[q \in Receipts |-> Told(q)] EXCEPT ![r] = d]
    BY <2>2
  <2>4. ASSUME d = "committed"
        PROVE  \E e \in ledger : e.hash = HashOf(r) /\ (HashOf(r) \in Empty \/ CorrOf(e.by) = CorrOf(r))
    <3>1. Settled(r)
      BY <2>4 DEF SaysCommitted, Outcome
    <3>2. CASE Void(r)
      BY <3>1, <3>2 DEF Settled, Listed, Void
    <3>3. CASE ~Void(r)
      <4>1. PICK c \in commits : c.hash = HashOf(r) /\ c.corr = CorrOf(r)
        BY <3>1, <3>3 DEF Settled, IsCommitted
      <4>2. PICK e \in ledger : e.by = c.by
        BY DEF CommitsOnce
      <4>3. e.hash = HashOf(r) /\ CorrOf(e.by) = CorrOf(r)
        BY <4>1, <4>2 DEF CommitsOnce, Sourced
      <4> QED
        BY <4>3
    <3> QED
      BY <3>2, <3>3
  <2>5. ASSUME d = "quarantined"
        PROVE  HashOf(r) \in Retained \/ raw[HashOf(r)] = "removed" \/ \E e \in ledger : e.hash = HashOf(r)
    <3>1. Kept(HashOf(r))
      BY <2>5 DEF SaysQuarantined, Outcome
    <3> QED
      BY <3>1 DEF Kept, Retained, CommitsOnce, Sourced
  <2>6. Promise!Say(r, d)
    BY <2>2, <2>3, <2>4, <2>5 DEF Retained, HashOf, CorrOf, checkpoints, Promise!Say, Promise!Published,
       Promise!Accounted, Promise!Hash, Promise!checkpoints, Promise!evidence
  <2> QED
    BY <2>6 DEF Promise!Next
<1> QED
  BY <1>1, <1>2

\* An orphan more, or none.
LEMMA RetainStep ==
  ASSUME TypeOK, NEW r \in Receipts, RecordOrphan(r)
  PROVE  Promise!Next \/ UNCHANGED Promise!vars
<1>1. UNCHANGED <<fetch, checkpoints, ledger, terminal, receipt, raw>> /\ RecordOrphanUnlocked(HashOf(r), why[r])
  BY DEF RecordOrphan, evidence, ingress, store
<1>2. CASE UNCHANGED retention
  BY <1>1, <1>2, Unseen DEF seen, retention
<1>3. CASE Retain(HashOf(r), why[r])
  <2>1. PICK h \in Hashes : h = HashOf(r)
    BY DEF TypeOK, HashOf, Fetch
  <2>2. Retained' = Retained \cup {h}
    BY <1>3, <2>1, Keeping
  <2>3. Promise!Retain(h)
    BY <1>1, <2>2 DEF Retained, Told, checkpoints, Promise!Retain, Promise!checkpoints, Promise!receipts
  <2> QED
    BY <2>3 DEF Promise!Next
<1> QED
  BY <1>1, <1>2, <1>3 DEF RecordOrphanUnlocked

LEMMA StoreStep ==
  ASSUME TypeOK, NEW r \in Receipts, WriteRaw(r)
  PROVE  Promise!Next \/ UNCHANGED Promise!vars
<1>1. UNCHANGED <<fetch, checkpoints, ledger, terminal, orphans, receipt>> /\ HashOf(r) \in Hashes
  BY DEF WriteRaw, evidence, retention, ingress, TypeOK, HashOf, Fetch
<1>2. CASE raw[HashOf(r)] = "removed"
  BY <1>1, <1>2, Unseen DEF seen, WriteRaw
<1>3. CASE raw[HashOf(r)] # "removed"
  <2>1. PICK h \in Hashes : h = HashOf(r)
    BY <1>1
  <2>2. Promise!Store(h)
    BY <1>1, <1>3, <2>1 DEF WriteRaw, Told, checkpoints, Promise!Store, Promise!checkpoints, Promise!receipts
  <2> QED
    BY <2>2 DEF Promise!Next
<1> QED
  BY <1>2, <1>3

\* A receipt is issued and claimed before anything is said of it.
LEMMA IssueStep ==
  ASSUME TypeOK, NEW r \in Receipts, IssueReceipt(r) \/ ResolveReceipt(r), receipt[r] \in {"none", "pending"}
  PROVE  UNCHANGED Promise!vars
<1>1. UNCHANGED <<fetch, checkpoints, ledger, terminal, orphans, raw>>
  BY DEF IssueReceipt, ResolveReceipt, evidence, retention, ingress
<1>2. \A q \in Receipts : Told(q)' = Told(q)
  BY DEF IssueReceipt, ResolveReceipt, Told, TypeOK
<1> QED
  BY <1>1, <1>2 DEF checkpoints, Promise!vars, Promise!checkpoints, Promise!receipts, Promise!evidence

LEMMA EraseStep ==
  ASSUME TypeOK, Claimed, NEW p \in Reapers, DeleteRaw(p) \/ DeleteFails(p)
  PROVE  Promise!Next \/ UNCHANGED Promise!vars
<1>1. reaper[p].orphan \in orphans
  BY DEF DeleteRaw, DeleteFails, Claimed, Deleting
<1>2. PICK h \in Hashes : h = reaper[p].orphan.hash /\ h \in Retained
  BY <1>1 DEF TypeOK, Orphan, Retained
<1>3. /\ UNCHANGED <<fetch, checkpoints, ledger, terminal, orphans, receipt>>
      /\ raw' \in {raw, [raw EXCEPT ![h] = "removed"]}
  BY <1>2 DEF DeleteRaw, DeleteFails, evidence, retention, ingress
<1>4. CASE raw' = raw
  BY <1>3, <1>4, Unseen DEF seen
<1>5. CASE raw' = [raw EXCEPT ![h] = "removed"]
  <2>1. Promise!Erase(h)
    BY <1>2, <1>3, <1>5 DEF Retained, Told, checkpoints, Promise!Erase, Promise!checkpoints, Promise!receipts
  <2> QED
    BY <2>1 DEF Promise!Next
<1> QED
  BY <1>3, <1>4, <1>5

LEMMA ReleaseStep ==
  ASSUME TypeOK, Sourced, CommitsOnce, Deletion, NEW p \in Reapers, FinishOrphan(p)
  PROVE  Promise!Next \/ UNCHANGED Promise!vars
<1>1. UNCHANGED <<fetch, checkpoints, ledger, terminal, receipt, raw>>
  BY DEF FinishOrphan, evidence, ingress, store
<1>2. CASE ~Removable(p)
  BY <1>1, <1>2, Unseen DEF seen, FinishOrphan
<1>3. CASE Removable(p)
  <2>1. PICK h \in Hashes : h = reaper[p].orphan.hash
    BY <1>3 DEF Removable, Eligible, TypeOK, Orphan
  <2>2. raw[h] = "removed" /\ h \notin sources
    BY <1>3, <2>1 DEF Removable, Eligible, Deletion, Claimed, Deleting
  <2>5. h \in Empty \/ \A e \in ledger : e.hash # h
    BY <2>2 DEF CommitsOnce, Sourced
  <2>3. Retained' = Retained \ {h}
    BY <1>3, <2>1, Leaving
  <2>4. Promise!Release(h)
    BY <1>1, <2>2, <2>3, <2>5 DEF Retained, Told, checkpoints, Promise!Release, Promise!checkpoints, Promise!receipts
  <2> QED
    BY <2>4 DEF Promise!Next
<1> QED
  BY <1>2, <1>3

\* Every step of the plane is a step of the promise or none it could see.
LEMMA NextPromise ==
  ASSUME IInv, CommitsOnce, [Next]_vars
  PROVE  Promise!Next \/ UNCHANGED Promise!vars
<1>0. /\ TypeOK /\ Sourced /\ Deletion /\ Claimed /\ SaysCommitted /\ SaysQuarantined
      /\ \A r \in Receipts : Bad(r) <=> HashOf(r) \in Malformed
  BY DEF IInv, Plane, Answers, Deletion, Bad
<1>1. ASSUME NEW r \in Receipts, Fetching(r) PROVE Promise!Next \/ UNCHANGED Promise!vars
  <2>1. CASE StartUnit(r)
    <3>1. UNCHANGED seen
      BY <2>1 DEF StartUnit, seen, checkpoints, evidence, retention, ingress, store
    <3> QED
      BY <3>1, Unseen
  <2>2. CASE RepeatedCursor(r) \/ CommitTerminalFailure(r)
    BY <1>0, <2>2, NoPageStep
  <2>3. CASE WriteRaw(r)
    BY <1>0, <2>3, StoreStep
  <2>4. CASE IssueReceipt(r)
    <3>1. receipt[r] = "none"
      BY <2>4 DEF IssueReceipt, Moves, CommitsOnce
    <3> QED
      BY <1>0, <2>4, <3>1, IssueStep
  <2>5. CASE IssueFails(r)
    <3>1. UNCHANGED seen
      BY <2>5 DEF IssueFails, seen, checkpoints, evidence, retention, ingress, store
    <3> QED
      BY <3>1, Unseen
  <2> QED
    BY <1>1, <2>1, <2>2, <2>3, <2>4, <2>5 DEF Fetching
<1>2. ASSUME NEW r \in Receipts, Committing(r) PROVE Promise!Next \/ UNCHANGED Promise!vars
  <2>1. CASE \/ ResolveNull(r) \/ ReserveIngress(r) \/ ReleaseIngress(r) \/ ReadBack(r)
             \/ \E reason \in {"checkpoint_conflict", "write_plane_failure"} : CommitThrows(r, reason)
    <3>1. UNCHANGED seen
      BY <2>1 DEF ResolveNull, ReserveIngress, ReleaseIngress, ReadBack, CommitThrows, seen, checkpoints,
         evidence, retention, ingress, store
    <3> QED
      BY <3>1, Unseen
  <2>2. CASE ResolveReceipt(r)
    <3>1. receipt[r] = "pending"
      BY <2>2 DEF ResolveReceipt
    <3> QED
      BY <1>0, <2>2, <3>1, IssueStep
  <2>3. CASE CommitPage(r)
    BY <1>0, <2>3, CommitPageStep
  <2>4. CASE CommitQuarantinedFailure(r)
    BY <1>0, <2>4, QuarantineStep
  <2>5. CASE RecordOrphan(r)
    BY <1>0, <2>5, RetainStep
  <2>6. CASE Acknowledge(r)
    <3>1. /\ Past(r) /\ MarkDisposition(r, Outcome(r))
          /\ UNCHANGED <<fetch, checkpoints, ledger, terminal, orphans, raw>>
      BY <2>6 DEF Acknowledge, Moves, Past, evidence, retention, ingress
    <3>2. PICK d \in {"committed", "quarantined"} : d = Outcome(r)
      BY DEF Outcome
    <3> QED
      BY <1>0, <3>1, <3>2, SayStep
  <2> QED
    BY <1>2, <2>1, <2>2, <2>3, <2>4, <2>5, <2>6 DEF Committing
<1>3. ASSUME NEW r \in Receipts, Recovering(r) PROVE Promise!Next \/ UNCHANGED Promise!vars
  <2>1. CASE ListPending(r) \/ VerifyPending(r) \/ Classify(r) \/ MarkLost(r)
    <3>1. UNCHANGED seen
      BY <2>1 DEF ListPending, VerifyPending, Classify, MarkLost, seen, checkpoints, evidence, retention, ingress, store
    <3> QED
      BY <3>1, Unseen
  <2>2. CASE EndIngress(r)
    BY <1>0, <2>2, EndStep
  <2>3. CASE MarkRecovered(r)
    <3>1. /\ scan[r] \in {"committed", "quarantined"} /\ MarkDisposition(r, scan[r])
          /\ UNCHANGED <<fetch, checkpoints, ledger, terminal, orphans, raw>>
      BY <2>3 DEF MarkRecovered, evidence, retention, ingress
    <3>2. PICK d \in {"committed", "quarantined"} : d = scan[r]
      BY <3>1
    <3> QED
      BY <1>0, <3>1, <3>2, SayStep
  <2> QED
    BY <1>3, <2>1, <2>2, <2>3 DEF Recovering
<1>4. ASSUME NEW p \in Reapers, Reaping(p) PROVE Promise!Next \/ UNCHANGED Promise!vars
  <2>1. CASE \/ \E todo \in SUBSET orphans : ListOrphans(p, todo)
             \/ \E o \in reaper[p].todo : VerifyOrphan(p, o)
             \/ ClaimOrphan(p)
    <3>1. UNCHANGED seen
      BY <2>1 DEF ListOrphans, VerifyOrphan, ClaimOrphan, seen, checkpoints, evidence, retention,
         ingress, store
    <3> QED
      BY <3>1, Unseen
  <2>2. CASE DeleteRaw(p) \/ DeleteFails(p)
    BY <1>0, <2>2, EraseStep
  <2>3. CASE FinishOrphan(p)
    BY <1>0, <2>3, ReleaseStep
  <2> QED
    BY <1>4, <2>1, <2>2, <2>3 DEF Reaping
<1>5. CASE UNCHANGED vars
  <2>1. UNCHANGED seen
    BY <1>5 DEF vars, seen, checkpoints, evidence, retention, ingress, store
  <2> QED
    BY <2>1, Unseen
<1> QED
  BY <1>1, <1>2, <1>3, <1>4, <1>5 DEF Next

\* Runs, recoveries and reapers, interleaved between any two awaits, implement
\* IngestPromise: one page per revision and per receipt, none after its end, true and
\* final dispositions, no evidence erased that is not retained, and none coming back.
THEOREM ImplementsPromise == Spec => KeepsPromise
<1>1. Spec => []CommitsOnce
  <2>1. IInv /\ CommitsOnce /\ [Next]_vars => CommitsOnce'
    BY OnceStep DEF IInv
  <2> QED
    BY <2>1, InitOnce, Invariance, PTL DEF Spec
<1>2. IInv /\ CommitsOnce /\ [Next]_vars => [Promise!Next]_(Promise!vars)
  BY NextPromise
<1> QED
  BY <1>1, <1>2, InitPromise, Invariance, PTL DEF Spec, KeepsPromise, Promise!Spec
=============================================================================
